---------------------------- MODULE ExtCallsProofs ----------------------------
(***************************************************************************)
(* Theorems about ExtCalls, for every number of host threads, scopes,      *)
(* workers and entries of the ring: host and process stay in step, cancels *)
(* hit the call they were meant for, and what the end of a scope leaves    *)
(* behind is out of reach.                                                 *)
(***************************************************************************)
EXTENDS ExtCalls, DbServiceProofs

(* The lock, the scopes and the Extension record.                            *)
HostType ==
    /\ host \in [Hosts -> Thread]
    /\ lock \in Hosts \cup {None}
    /\ ext \in {"none", "own", "inherited"}
    /\ broken \in BOOLEAN
    /\ next \in Nat
    /\ starts \in 0..MaxStarts
    /\ ended \subseteq Scopes

(* The holder of the lock is the only thread that is in a call or ends a     *)
(* scope, and it uses a sound process of its own.                            *)
Locked ==
    \A h \in Hosts :
        /\ host[h].phase # "idle" <=> lock = h
        /\ host[h].phase # "idle" => host[h].scope # None
        /\ host[h].phase \in {"ready", "waiting", "ack"} => ext = "own" /\ ~broken
        /\ host[h].phase = "waiting" => host[h].id < next

(* No two threads are in one scope, and none is in one that has ended.       *)
ScopesApart ==
    /\ \A g, h \in Hosts : g # h /\ host[g].scope # None => host[g].scope # host[h].scope
    /\ \A h \in Hosts : host[h].scope \notin ended

(* Nobody stops the process; it is killed.  A dead process holds nothing but *)
(* what it had written.                                                      *)
Process ==
    /\ reader \in {"reading", "exited"} /\ ~stopping
    /\ \A k \in 1..Len(inbox) : inbox[k].type # "end"
    /\ Alive => ext = "own"
    /\ ~Alive => inbox = <<>> /\ queued = 0 /\ Answering = {} /\ open = {}

(* What the pipes and the process hold is what the holder waits for.         *)
Counted ==
    /\ Alive => Outstanding = Awaited
    /\ Len(outbox) <= Awaited

HolderIn(phase) == lock # None /\ host[lock].phase = phase

(* A call on its way is the holder's, and so is the end of a scope; a cancel *)
(* that is late names an earlier call.                                       *)
OwnCall(e) == HolderIn("waiting") /\ host[lock].id = e.id /\ host[lock].scope = e.scope

OwnMessage(m) ==
    /\ m.type = "call" => OwnCall(m)
    /\ m.type = "scope_end" => HolderIn("ack") /\ host[lock].scope = m.scope
    /\ m.type = "cancel" =>
          /\ m.target < next
          /\ HolderIn("waiting") /\ host[lock].id = m.target => host[lock].cancel = "sent"

Traffic ==
    /\ \A k \in 1..Len(inbox) : OwnMessage(inbox[k])
    /\ \A k \in Occupied : OwnCall(ring[k]) /\ (ring[k].cancelled => host[lock].cancel = "sent")
    /\ \A w \in Answering :
          OwnCall(job[w]) /\ (flag[w] \/ job[w].cancelled => host[lock].cancel = "sent")

Opened ==
    /\ OnlyBrokenHoldsEnded
    /\ HolderIn("ack") /\ (\A k \in 1..Len(inbox) : inbox[k].type # "scope_end")
          => host[lock].scope \notin open

IInv == /\ ServerInv /\ HostType /\ Locked /\ ScopesApart /\ Process /\ Counted /\ Traffic /\ Opened

-----------------------------------------------------------------------------
(* Counting what is under way.                                               *)

Asking == {k \in 1..Len(inbox) : inbox[k].type # "cancel"}

LEMMA Counts ==
    ServerInv =>
        /\ IsFiniteSet(Asking) /\ Cardinality(Asking) \in Nat
        /\ IsFiniteSet(Answering) /\ Cardinality(Answering) \in Nat
        /\ queued \in Nat /\ Len(outbox) \in Nat /\ Len(inbox) \in Nat
        /\ Outstanding = Cardinality(Asking) + queued + Cardinality(Answering) + Len(outbox)
<1> SUFFICES ASSUME ServerInv
             PROVE  /\ IsFiniteSet(Asking) /\ Cardinality(Asking) \in Nat
                    /\ IsFiniteSet(Answering) /\ Cardinality(Answering) \in Nat
                    /\ queued \in Nat /\ Len(outbox) \in Nat /\ Len(inbox) \in Nat
                    /\ Outstanding = Cardinality(Asking) + queued + Cardinality(Answering) + Len(outbox)
  OBVIOUS
<1>1. queued \in Nat /\ inbox \in Seq(Message) /\ outbox \in Seq(Reply)
  BY ServerAssumption DEF ServerInv, ServerType
<1>2. Len(outbox) \in Nat /\ Len(inbox) \in Nat
  BY <1>1, LenProperties
<1>3. Asking \in SUBSET (1..Len(inbox)) /\ IsFiniteSet(1..Len(inbox))
  BY <1>2, FS_Interval DEF Asking
<1>4. Answering \in SUBSET Threads /\ IsFiniteSet(Threads)
  BY ServerAssumption DEF Answering
<1>5. /\ IsFiniteSet(Asking) /\ Cardinality(Asking) \in Nat
      /\ IsFiniteSet(Answering) /\ Cardinality(Answering) \in Nat
  BY <1>3, <1>4, FS_Subset, FS_CardinalityType
<1> QED BY <1>1, <1>2, <1>5 DEF Outstanding, Asking

LEMMA CountsNext ==
    ServerInv' =>
        /\ IsFiniteSet(Asking') /\ Cardinality(Asking') \in Nat
        /\ IsFiniteSet(Answering') /\ Cardinality(Answering') \in Nat
        /\ queued' \in Nat /\ Len(outbox') \in Nat /\ Len(inbox') \in Nat
        /\ Outstanding' = Cardinality(Asking') + queued' + Cardinality(Answering') + Len(outbox')
<1>1. (ServerInv =>
          /\ IsFiniteSet(Asking) /\ Cardinality(Asking) \in Nat
          /\ IsFiniteSet(Answering) /\ Cardinality(Answering) \in Nat
          /\ queued \in Nat /\ Len(outbox) \in Nat /\ Len(inbox) \in Nat
          /\ Outstanding = Cardinality(Asking) + queued + Cardinality(Answering) + Len(outbox))'
  BY Counts, PTL
<1> QED BY <1>1

(* Nothing else is under way when there is an answer for every message.      *)
LEMMA NothingElse ==
    ASSUME ServerInv, Outstanding <= Len(outbox)
    PROVE  /\ \A k \in 1..Len(inbox) : inbox[k].type = "cancel"
           /\ queued = 0 /\ Occupied = {} /\ Answering = {}
<1>1. /\ IsFiniteSet(Asking) /\ Cardinality(Asking) \in Nat
      /\ IsFiniteSet(Answering) /\ Cardinality(Answering) \in Nat
      /\ queued \in Nat /\ Len(outbox) \in Nat
      /\ Outstanding = Cardinality(Asking) + queued + Cardinality(Answering) + Len(outbox)
  BY Counts
<1>2. Cardinality(Asking) = 0 /\ queued = 0 /\ Cardinality(Answering) = 0
  BY <1>1
<1>3. Asking = {} /\ Answering = {}
  BY <1>1, <1>2, FS_EmptySet
<1>4. Occupied = {}
  BY <1>2 DEF Occupied
<1> QED BY <1>2, <1>3, <1>4 DEF Asking

LEMMA NothingElseNext ==
    ServerInv' /\ Outstanding' <= Len(outbox') =>
        /\ \A k \in 1..Len(inbox') : inbox'[k].type = "cancel"
        /\ queued' = 0 /\ Occupied' = {} /\ Answering' = {}
<1>1. ServerInv /\ Outstanding <= Len(outbox) =>
        /\ \A k \in 1..Len(inbox) : inbox[k].type = "cancel"
        /\ queued = 0 /\ Occupied = {} /\ Answering = {}
  BY NothingElse
<1>2. (ServerInv /\ Outstanding <= Len(outbox) =>
        /\ \A k \in 1..Len(inbox) : inbox[k].type = "cancel"
        /\ queued = 0 /\ Occupied = {} /\ Answering = {})'
  BY <1>1, PTL
<1> QED BY <1>2

(* A message that is first in the pipe and the only one that asks leaves     *)
(* nothing else under way.                                                   *)
LEMMA OnlyMessage ==
    ASSUME ServerInv, Outstanding <= 1, NEW k \in 1..Len(inbox), inbox[k].type # "cancel"
    PROVE  /\ queued = 0 /\ Occupied = {} /\ Answering = {} /\ Len(outbox) = 0
           /\ \A j \in 1..Len(inbox) : inbox[j].type # "cancel" => j = k
<1>1. /\ IsFiniteSet(Asking) /\ Cardinality(Asking) \in Nat
      /\ IsFiniteSet(Answering) /\ Cardinality(Answering) \in Nat
      /\ queued \in Nat /\ Len(outbox) \in Nat
      /\ Outstanding = Cardinality(Asking) + queued + Cardinality(Answering) + Len(outbox)
  BY Counts
<1>2. k \in Asking
  BY DEF Asking
<1>3. Cardinality(Asking) # 0
  BY <1>1, <1>2, FS_EmptySet
<1>4. Cardinality(Asking) = 1 /\ queued = 0 /\ Cardinality(Answering) = 0 /\ Len(outbox) = 0
  BY <1>1, <1>3
<1>5. Answering = {}
  BY <1>1, <1>4, FS_EmptySet
<1>6. \A j \in Asking : j = k
  BY <1>1, <1>2, <1>4, FS_Singleton
<1>7. Occupied = {}
  BY <1>4 DEF Occupied
<1> QED BY <1>4, <1>5, <1>6, <1>7 DEF Asking

(* Indices that move up by one are as many as before.                        *)
LEMMA ShiftCount ==
    ASSUME NEW S \in SUBSET (Nat \ {0}), IsFiniteSet(S), NEW T,
           \A k : k \in T <=> k \in Nat /\ k + 1 \in S
    PROVE  Cardinality(T) = Cardinality(S)
<1> DEFINE f == [k \in S |-> k - 1]
<1>1. f \in [S -> T]
  <2>1. ASSUME NEW k \in S
        PROVE  k - 1 \in T
    <3>1. k - 1 \in Nat /\ (k - 1) + 1 = k
      OBVIOUS
    <3> QED BY <3>1
  <2> QED BY <2>1
<1>2. f \in Injection(S, T)
  <2>1. \A a, b \in S : f[a] = f[b] => a = b
    OBVIOUS
  <2> QED BY <1>1, <2>1 DEF Injection, IsInjective
<1>3. f \in Surjection(S, T)
  <2>1. ASSUME NEW t \in T
        PROVE  \E k \in S : f[k] = t
    <3>1. t \in Nat /\ t + 1 \in S
      OBVIOUS
    <3>2. f[t + 1] = t
      BY <3>1
    <3> QED BY <3>1, <3>2
  <2> QED BY <1>1, <2>1 DEF Surjection
<1>4. ExistsBijection(S, T)
  BY <1>2, <1>3 DEF ExistsBijection, Bijection
<1> QED BY <1>4, FS_Bijection

(* What the reader takes from the pipe asks no more.                         *)
LEMMA ConsumeCount ==
    ASSUME ServerInv, NEW type, Reading(type), Consume
    PROVE  Cardinality(Asking') = IF type = "cancel" THEN Cardinality(Asking)
                                  ELSE Cardinality(Asking) - 1
<1>0. ServerType /\ IsFiniteSet(Asking) /\ Cardinality(Asking) \in Nat
  BY Counts DEF ServerInv
<1>1. /\ inbox[1].type = type /\ Len(inbox) \in Nat \ {0} /\ Len(inbox') = Len(inbox) - 1
      /\ \A k \in 1..Len(inbox') : inbox'[k] = inbox[k + 1]
  BY <1>0, ConsumeEffect
<1> DEFINE S == Asking \ {1}
<1>2. Cardinality(S) = IF type = "cancel" THEN Cardinality(Asking) ELSE Cardinality(Asking) - 1
  <2>1. 1 \in Asking <=> type # "cancel"
    BY <1>1 DEF Asking
  <2> QED BY <1>0, <2>1, FS_RemoveElement
<1>3. S \in SUBSET (Nat \ {0}) /\ IsFiniteSet(S)
  <2>1. IsFiniteSet(S)
    BY <1>0, FS_RemoveElement
  <2>2. Asking \subseteq Nat \ {0}
    BY <1>1 DEF Asking
  <2> QED BY <2>1, <2>2
<1>4. \A k : k \in Asking' <=> k \in Nat /\ k + 1 \in S
  <2>1. ASSUME NEW k \in Asking'
        PROVE  k \in Nat /\ k + 1 \in S
    <3>1. k \in 1..Len(inbox') /\ inbox'[k].type # "cancel"
      BY <2>1 DEF Asking
    <3>2. k \in Nat /\ k + 1 \in 1..Len(inbox) /\ k + 1 # 1 /\ inbox[k + 1].type # "cancel"
      BY <1>1, <3>1
    <3> QED BY <3>2 DEF Asking
  <2>2. ASSUME NEW k \in Nat, k + 1 \in S
        PROVE  k \in Asking'
    <3>1. k + 1 \in 1..Len(inbox) /\ inbox[k + 1].type # "cancel" /\ k + 1 # 1
      BY <2>2 DEF Asking
    <3>2. k \in 1..Len(inbox') /\ inbox'[k].type # "cancel"
      BY <1>1, <3>1
    <3> QED BY <3>2 DEF Asking
  <2> QED BY <2>1, <2>2
<1> HIDE DEF S
<1>5. Cardinality(Asking') = Cardinality(S)
  BY <1>3, <1>4, ShiftCount
<1> QED BY <1>2, <1>5

-----------------------------------------------------------------------------
(* The steps of the process.                                                 *)

LEMMA NobodyStops ==
    ASSUME ServerInv, Process, ServerNext
    PROVE  /\ ~Stop /\ ~Exit /\ \A w \in Threads : ~Leave(w)
           /\ reader = "reading" /\ reader' = reader /\ stopping' = stopping
<1>1. reader = "reading" /\ ~stopping
  BY DEF Process, ServerNext
<1>2. ~Stop
  <2> SUFFICES ASSUME Stop PROVE FALSE
    OBVIOUS
  <2>1. inbox[1].type = "end" /\ Len(inbox) \in Nat \ {0}
    BY ConsumeEffect DEF Stop, ServerInv
  <2>2. 1 \in 1..Len(inbox)
    BY <2>1
  <2> QED BY <2>1, <2>2 DEF Process
<1>3. ~Exit /\ \A w \in Threads : ~Leave(w)
  BY <1>1 DEF Exit, Leave
<1>4. reader' = reader /\ stopping' = stopping
  BY <1>2, <1>3 DEF ServerNext, Read, Enqueue, RefuseCall, CancelCall, EndScope, Work, Sleep, TakeCall,
                    EndJob, AnswerCall
<1> QED BY <1>1, <1>2, <1>3, <1>4

(* Every step of the process moves what is under way from one place to       *)
(* another.                                                                  *)
LEMMA Conserved ==
    ASSUME ServerInv, Process, ServerNext
    PROVE  Outstanding' = Outstanding
<1>0. /\ ServerType /\ RingAgrees /\ thread \in [Threads -> Where] /\ ServerInv'
      /\ IsFiniteSet(Asking) /\ Cardinality(Asking) \in Nat
      /\ IsFiniteSet(Answering) /\ Cardinality(Answering) \in Nat
      /\ queued \in Nat /\ Len(outbox) \in Nat
      /\ Outstanding = Cardinality(Asking) + queued + Cardinality(Answering) + Len(outbox)
  BY Counts, ServerStep DEF ServerInv, ServerType, Where
<1>1. Outstanding' = Cardinality(Asking') + queued' + Cardinality(Answering') + Len(outbox')
  BY <1>0, CountsNext
<1>2. CASE Enqueue
  <2>1. Cardinality(Asking') = Cardinality(Asking) - 1
    BY <1>2, ConsumeCount DEF Enqueue
  <2>2. queued' = queued + 1 /\ outbox' = outbox
    BY <1>2 DEF Enqueue
  <2>3. Answering' = Answering
    BY <1>0, <1>2, SignalEffect DEF Enqueue, Answering, Busy
  <2> QED BY <1>0, <1>1, <2>1, <2>2, <2>3
<1>3. CASE RefuseCall \/ EndScope
  <2>1. Cardinality(Asking') = Cardinality(Asking) - 1
    BY <1>3, ConsumeCount DEF RefuseCall, EndScope
  <2>2. queued' = queued /\ Answering' = Answering
    BY <1>3 DEF RefuseCall, EndScope, Answering, Busy, ringVars, workerVars
  <2>3. \E type \in {"refused", "scope_ended"} : Say(ReplyOf(type, Head(inbox).id))
    BY <1>3 DEF RefuseCall, EndScope
  <2>4. \E type \in {"call", "scope_end"} : Reading(type) /\ Consume
    BY <1>3 DEF RefuseCall, EndScope
  <2>5. Head(inbox).id \in Nat
    BY <1>0, <2>4, ConsumeEffect, MessageFields
  <2>6. \A type \in {"refused", "scope_ended"} : ReplyOf(type, Head(inbox).id) \in Reply
    BY <2>5 DEF ReplyOf, Reply
  <2>7. Len(outbox') = Len(outbox) + 1
    BY <1>0, <2>3, <2>6, SayEffect
  <2> QED BY <1>0, <1>1, <2>1, <2>2, <2>7
<1>4. CASE CancelCall
  <2>1. Cardinality(Asking') = Cardinality(Asking)
    BY <1>4, ConsumeCount DEF CancelCall
  <2>2. queued' = queued /\ Answering' = Answering /\ outbox' = outbox
    BY <1>4 DEF CancelCall, Answering, Busy
  <2> QED BY <1>0, <1>1, <2>1, <2>2
<1>5. ASSUME NEW w \in Threads, Sleep(w) \/ EndJob(w)
      PROVE  Outstanding' = Outstanding
  <2>1. inbox' = inbox /\ queued' = queued /\ outbox' = outbox
    BY <1>5 DEF Sleep, EndJob, ringVars
  <2>2. Answering' = Answering
    BY <1>0, <1>5, WokenEffect DEF Sleep, EndJob, Answering, Busy
  <2> QED BY <1>0, <1>1, <2>1, <2>2 DEF Asking
<1>6. ASSUME NEW w \in Threads, TakeCall(w)
      PROVE  Outstanding' = Outstanding
  <2>1. /\ inbox' = inbox /\ outbox' = outbox /\ queued' = queued - 1
        /\ thread[w] = "awake" /\ thread' = [thread EXCEPT ![w] = "running"]
    BY <1>6 DEF TakeCall
  <2>2. Answering' = Answering \cup {w} /\ w \notin Answering
    BY <1>0, <2>1 DEF Answering, Busy
  <2>3. Cardinality(Answering') = Cardinality(Answering) + 1
    BY <1>0, <2>2, FS_AddElement
  <2>4. Asking' = Asking
    BY <2>1 DEF Asking
  <2> QED BY <1>0, <1>1, <2>1, <2>3, <2>4
<1>7. ASSUME NEW w \in Threads, AnswerCall(w)
      PROVE  Outstanding' = Outstanding
  <2>1. /\ inbox' = inbox /\ queued' = queued /\ thread[w] = "running"
        /\ thread' = [thread EXCEPT ![w] = "done"] /\ Say(ReplyOf("answer", job[w].id))
    BY <1>7 DEF AnswerCall, Busy, ringVars
  <2>2. Answering' = Answering \ {w} /\ w \in Answering
    BY <1>0, <2>1 DEF Answering, Busy
  <2>3. Cardinality(Answering') = Cardinality(Answering) - 1
    BY <1>0, <2>2, FS_RemoveElement
  <2>4. job[w] \in Entry
    BY <1>0 DEF ServerType
  <2>5. ReplyOf("answer", job[w].id) \in Reply
    BY <2>4 DEF ReplyOf, Reply, Entry
  <2>6. Len(outbox') = Len(outbox) + 1
    BY <1>0, <2>1, <2>5, SayEffect
  <2>7. Asking' = Asking
    BY <2>1 DEF Asking
  <2> QED BY <1>0, <1>1, <2>1, <2>3, <2>6, <2>7
<1> QED BY <1>2, <1>3, <1>4, <1>5, <1>6, <1>7, NobodyStops DEF ServerNext, Read, Work

LEMMA ServeCounted ==
    ASSUME IInv, Serve
    PROVE  Counted' /\ Process'
<1>0. ServerInv /\ Process /\ ServerNext /\ UNCHANGED hostVars /\ ServerInv'
  BY ServerStep DEF IInv, Serve
<1>1. reader = "reading" /\ reader' = reader /\ stopping' = stopping /\ ~stopping /\ ext' = ext
      /\ ext = "own"
  BY <1>0, NobodyStops DEF hostVars, Process, Alive
<1>2. Counted'
  <2>1. Awaited' = Awaited /\ Outstanding' = Outstanding /\ Outstanding = Awaited
    BY <1>0, <1>1, Conserved DEF hostVars, Awaited, IInv, Counted, Alive
  <2>2. Awaited \in Nat
    BY DEF Awaited
  <2>3. Len(outbox') <= Outstanding'
    BY <1>0, CountsNext
  <2> QED BY <2>1, <2>2, <2>3 DEF Counted
<1>3. \A k \in 1..Len(inbox') : inbox'[k].type # "end"
  <2>1. CASE inbox' = inbox
    BY <1>0, <2>1 DEF Process
  <2>2. CASE inbox' # inbox
    <3>1. \E type : Reading(type) /\ Consume
      BY <1>0, <2>2 DEF ServerNext, Read, Enqueue, RefuseCall, CancelCall, EndScope, Stop, Exit, Work,
                        Sleep, TakeCall, EndJob, Leave, AnswerCall
    <3>2. /\ Len(inbox) \in Nat /\ Len(inbox') = Len(inbox) - 1
          /\ \A k \in 1..Len(inbox') : inbox'[k] = inbox[k + 1]
      BY <1>0, <3>1, ConsumeEffect DEF ServerInv
    <3> QED BY <1>0, <3>2 DEF Process
  <2> QED BY <2>1, <2>2
<1> QED BY <1>1, <1>2, <1>3 DEF Process, Alive

(* The messages that stay in the pipe are those that were there.             *)
LEMMA PipeShrinks ==
    ASSUME ServerInv, Process, ServerNext
    PROVE  \A k \in 1..Len(inbox') : \E j \in 1..Len(inbox) : inbox'[k] = inbox[j]
<1>1. CASE inbox' = inbox
  BY <1>1
<1>2. CASE inbox' # inbox
  <2>1. \E type : Reading(type) /\ Consume
    BY <1>2 DEF ServerNext, Read, Enqueue, RefuseCall, CancelCall, EndScope, Stop, Exit, Work,
                Sleep, TakeCall, EndJob, Leave, AnswerCall
  <2>2. /\ Len(inbox) \in Nat /\ Len(inbox') = Len(inbox) - 1
        /\ \A k \in 1..Len(inbox') : inbox'[k] = inbox[k + 1]
    BY <2>1, ConsumeEffect DEF ServerInv
  <2>3. \A k \in 1..Len(inbox') : k + 1 \in 1..Len(inbox)
    BY <2>2
  <2> QED BY <2>2, <2>3
<1> QED BY <1>1, <1>2

Marks(e, mark) == OwnCall(e) /\ (mark => host[lock].cancel = "sent")

LEMMA ServeTraffic ==
    ASSUME IInv, Serve
    PROVE  Traffic'
<1>0. /\ ServerInv /\ ServerType /\ RingAgrees /\ Process /\ Traffic /\ ServerNext
      /\ UNCHANGED <<host, lock, next>>
      /\ thread \in [Threads -> Where] /\ job \in [Threads -> Entry] /\ flag \in [Threads -> BOOLEAN]
      /\ Occupied \subseteq Entries
  BY OccupiedPlaces DEF IInv, ServerInv, ServerType, Serve, hostVars, Where
<1>2. (\A k \in 1..Len(inbox) : OwnMessage(inbox[k]))'
  <2>1. \A k \in 1..Len(inbox') : OwnMessage(inbox'[k])
    BY <1>0, PipeShrinks DEF Traffic
  <2> QED BY <1>0, <2>1 DEF OwnMessage, OwnCall, HolderIn
<1>3. \A k \in Occupied : Marks(ring[k], ring[k].cancelled)
  BY <1>0 DEF Traffic, Marks
<1>4. \A w \in Threads : Busy(w) => Marks(job[w], flag[w] \/ job[w].cancelled)
  BY <1>0 DEF Traffic, Marks, Answering
<1> SUFFICES /\ \A k \in Occupied' : Marks(ring'[k], ring'[k].cancelled)
             /\ \A w \in Threads : Busy(w)' => Marks(job'[w], flag'[w] \/ job'[w].cancelled)
  <2>1. (\A k \in Occupied : OwnCall(ring[k]) /\ (ring[k].cancelled => host[lock].cancel = "sent"))'
    BY <1>0 DEF Marks, OwnCall, HolderIn
  <2>2. (\A w \in Answering :
           OwnCall(job[w]) /\ (flag[w] \/ job[w].cancelled => host[lock].cancel = "sent"))'
    BY <1>0 DEF Marks, Answering, OwnCall, HolderIn
  <2> QED BY <1>2, <2>1, <2>2 DEF Traffic
<1>5. CASE Enqueue
  <2>1. job' = job /\ flag' = flag /\ \A w \in Threads : Busy(w)' => Busy(w)
    BY <1>0, <1>5, SignalEffect DEF Enqueue, Busy
  <2>2. /\ Occupied' = Occupied \cup {tail} /\ \A k \in Occupied : ring'[k] = ring[k]
        /\ ring'[tail] = [id |-> Head(inbox).id, scope |-> Head(inbox).scope, cancelled |-> FALSE]
    BY <1>0, <1>5, EnqueueEffect
  <2>3. Head(inbox) = inbox[1] /\ inbox[1].type = "call" /\ Len(inbox) \in Nat \ {0}
    BY <1>0, <1>5, ConsumeEffect DEF Enqueue
  <2>4. OwnCall(inbox[1])
    BY <1>0, <2>3 DEF Traffic, OwnMessage
  <2>5. Marks(ring'[tail], ring'[tail].cancelled)
    BY <2>2, <2>3, <2>4 DEF Marks, OwnCall
  <2> QED BY <1>3, <1>4, <2>1, <2>2, <2>5
<1>6. CASE RefuseCall \/ EndScope
  BY <1>3, <1>4, <1>6 DEF RefuseCall, EndScope, Occupied, Busy, ringVars, workerVars
<1>7. CASE CancelCall
  <2> DEFINE t == Head(inbox).target
  <2>1. /\ Marked({t}) /\ UNCHANGED <<head, queued, thread, job>>
        /\ Head(inbox) = inbox[1] /\ inbox[1].type = "cancel" /\ Len(inbox) \in Nat \ {0}
    BY <1>0, <1>7, ConsumeEffect DEF CancelCall
  <2>2. HolderIn("waiting") /\ host[lock].id = t => host[lock].cancel = "sent"
    BY <1>0, <2>1 DEF Traffic, OwnMessage
  <2> HIDE DEF t
  <2>3. ASSUME NEW k \in Occupied
        PROVE  Marks(ring'[k], ring'[k].cancelled)
    <3>1. /\ ring'[k].id = ring[k].id /\ ring'[k].scope = ring[k].scope
          /\ ring'[k].cancelled => ring[k].cancelled \/ ring[k].id = t
      BY <1>0, <2>1, MarkedEffect
    <3> QED BY <1>3, <2>2, <3>1 DEF Marks, OwnCall
  <2>4. ASSUME NEW w \in Threads, Busy(w)
        PROVE  Marks(job[w], flag'[w] \/ job[w].cancelled)
    <3>1. flag'[w] => flag[w] \/ job[w].id = t
      BY <1>0, <2>1, MarkedEffect
    <3> QED BY <1>4, <2>2, <2>4, <3>1 DEF Marks, OwnCall
  <2>5. Occupied' = Occupied
    BY <2>1 DEF Occupied
  <2> QED BY <2>1, <2>3, <2>4, <2>5 DEF Busy
<1>8. ASSUME NEW w \in Threads, Sleep(w) \/ AnswerCall(w)
      PROVE  /\ \A k \in Occupied' : Marks(ring'[k], ring'[k].cancelled)
             /\ \A v \in Threads : Busy(v)' => Marks(job'[v], flag'[v] \/ job'[v].cancelled)
  <2>1. UNCHANGED <<ring, head, queued, job, flag>> /\ \A v \in Threads : Busy(v)' => Busy(v)
    BY <1>0, <1>8 DEF Sleep, AnswerCall, Busy, ringVars
  <2> QED BY <1>3, <1>4, <2>1 DEF Occupied
<1>9. ASSUME NEW w \in Threads, EndJob(w)
      PROVE  /\ \A k \in Occupied' : Marks(ring'[k], ring'[k].cancelled)
             /\ \A v \in Threads : Busy(v)' => Marks(job'[v], flag'[v] \/ job'[v].cancelled)
  <2>1. /\ UNCHANGED <<ring, head, queued>>
        /\ \A v \in Threads : Busy(v)' => Busy(v) /\ job'[v] = job[v] /\ flag'[v] = flag[v]
    BY <1>0, <1>9, WokenEffect DEF EndJob, Busy, ringVars
  <2> QED BY <1>3, <1>4, <2>1 DEF Occupied
<1>10. ASSUME NEW w \in Threads, TakeCall(w)
       PROVE  /\ \A k \in Occupied' : Marks(ring'[k], ring'[k].cancelled)
              /\ \A v \in Threads : Busy(v)' => Marks(job'[v], flag'[v] \/ job'[v].cancelled)
  <2>1. head \in Occupied /\ Occupied' \subseteq Occupied /\ ring' = ring
    BY <1>0, <1>10, TakeEffect DEF TakeCall
  <2>2. \A v \in Threads : Busy(v)' => \/ job'[v] = ring[head] /\ ~flag'[v]
                                       \/ Busy(v) /\ job'[v] = job[v] /\ flag'[v] = flag[v]
    BY <1>0, <1>10 DEF TakeCall, Busy
  <2> QED BY <1>3, <1>4, <2>1, <2>2 DEF Marks
<1> QED BY <1>0, <1>5, <1>6, <1>7, <1>8, <1>9, <1>10, NobodyStops DEF ServerNext, Read, Work

LEMMA ServeOpened ==
    ASSUME IInv, Serve
    PROVE  Opened'
<1>0. /\ ServerInv /\ Process /\ Traffic /\ Opened /\ ScopesApart /\ HostType /\ ServerNext
      /\ UNCHANGED <<host, lock, ended, broken>>
  BY DEF IInv, Serve, hostVars
<1>1. CASE \E w \in Threads : AnswerCall(w)
  <2>1. PICK w \in Threads : AnswerCall(w)
    BY <1>1
  <2>2. /\ w \in Answering /\ open' \subseteq open \cup {job[w].scope}
    BY <2>1 DEF AnswerCall, Answering
  <2>3. HolderIn("waiting") /\ host[lock].scope = job[w].scope
    BY <1>0, <2>2 DEF Traffic, OwnCall
  <2>4. job[w].scope \notin ended
    BY <1>0, <2>3 DEF HolderIn, HostType, ScopesApart
  <2>5. ~HolderIn("ack")'
    BY <1>0, <2>3 DEF HolderIn
  <2> QED BY <1>0, <2>2, <2>4, <2>5 DEF Opened, OnlyBrokenHoldsEnded
<1>2. CASE EndScope
  <2>1. /\ open' = open \ {Head(inbox).scope} /\ Head(inbox) = inbox[1]
        /\ inbox[1].type = "scope_end" /\ Len(inbox) \in Nat \ {0}
    BY <1>0, <1>2, ConsumeEffect DEF EndScope, ServerInv
  <2>2. host[lock].scope = inbox[1].scope
    BY <1>0, <2>1 DEF Traffic, OwnMessage
  <2> QED BY <1>0, <2>1, <2>2 DEF Opened, OnlyBrokenHoldsEnded
<1>3. CASE ~EndScope /\ \A w \in Threads : ~AnswerCall(w)
  <2>1. open' = open
    BY <1>0, <1>3, NobodyStops DEF ServerNext, Read, Enqueue, RefuseCall, CancelCall, Work, Sleep,
                                   TakeCall, EndJob
  <2>2. ASSUME \A k \in 1..Len(inbox') : inbox'[k].type # "scope_end"
        PROVE  \A k \in 1..Len(inbox) : inbox[k].type # "scope_end"
    <3>1. CASE inbox' = inbox
      BY <2>2, <3>1
    <3>2. CASE inbox' # inbox
      <4>1. \E type \in {"call", "cancel"} : Reading(type) /\ Consume
        BY <1>0, <1>3, <3>2, NobodyStops DEF ServerNext, Read, Enqueue, RefuseCall, CancelCall, Work,
                                             Sleep, TakeCall, EndJob
      <4>2. /\ Len(inbox) \in Nat /\ Len(inbox') = Len(inbox) - 1 /\ inbox[1].type # "scope_end"
            /\ \A k \in 1..Len(inbox') : inbox'[k] = inbox[k + 1]
        BY <1>0, <4>1, ConsumeEffect DEF ServerInv
      <4>3. ASSUME NEW k \in 1..Len(inbox), k # 1
            PROVE  inbox[k].type # "scope_end"
        <5>1. k - 1 \in 1..Len(inbox') /\ inbox'[k - 1] = inbox[k]
          BY <4>2, <4>3
        <5> QED BY <2>2, <5>1
      <4> QED BY <4>2, <4>3
    <3> QED BY <3>1, <3>2
  <2> QED BY <1>0, <2>1, <2>2 DEF Opened, OnlyBrokenHoldsEnded, HolderIn
<1> QED BY <1>1, <1>2, <1>3

LEMMA ServeKeepsInv ==
    ASSUME IInv, Serve
    PROVE  IInv'
<1>1. ServerInv' /\ Process' /\ Counted' /\ Traffic' /\ Opened'
  BY ServerStep, ServeCounted, ServeTraffic, ServeOpened DEF IInv, Serve
<1>2. HostType' /\ Locked' /\ ScopesApart'
  BY DEF IInv, Serve, hostVars, HostType, Locked, ScopesApart
<1> QED BY <1>1, <1>2 DEF IInv

-----------------------------------------------------------------------------
(* The threads of the host.                                                  *)

HostInv == HostType /\ Locked /\ ScopesApart

LEMMA ThreadFields ==
    ASSUME HostType, NEW h \in Hosts
    PROVE  /\ host[h].phase \in {"idle", "calling", "ready", "waiting", "leaving", "ack"}
           /\ host[h].scope \in Scopes \cup {None} /\ host[h].id \in Nat
           /\ host[h].cancel \in {"no", "wanted", "sent"}
           /\ h # None
BY HostAssumption DEF HostType, Thread

(* A thread's record, field by field, and the others' as they were.          *)
Became(h, phase, scope, id, cancel) ==
    /\ host' \in [Hosts -> Thread]
    /\ host'[h].phase = phase /\ host'[h].scope = scope /\ host'[h].id = id
    /\ host'[h].cancel = cancel
    /\ \A g \in Hosts \ {h} : host'[g] = host[g]

LEMMA Advances ==
    ASSUME HostType, NEW h \in Hosts
    PROVE  /\ \A phase \in {"calling", "ready", "waiting", "leaving", "ack"} :
                 Phase(h, phase) => Became(h, phase, host[h].scope, host[h].id, host[h].cancel)
           /\ \A scope \in Scopes : host' = [host EXCEPT ![h].scope = scope] =>
                 Became(h, host[h].phase, scope, host[h].id, host[h].cancel)
           /\ \A cancel \in {"wanted", "sent"} : host' = [host EXCEPT ![h].cancel = cancel] =>
                 Became(h, host[h].phase, host[h].scope, host[h].id, cancel)
           /\ \A id \in Nat : host' = [host EXCEPT ![h].phase = "waiting", ![h].id = id] =>
                 Became(h, "waiting", host[h].scope, id, host[h].cancel)
<1>1. host \in [Hosts -> Thread]
  BY DEF HostType
<1>2. \A phase \in {"calling", "ready", "waiting", "leaving", "ack"} :
         Phase(h, phase) => Became(h, phase, host[h].scope, host[h].id, host[h].cancel)
  BY <1>1 DEF Thread, Phase, Became
<1>3. \A scope \in Scopes : host' = [host EXCEPT ![h].scope = scope] =>
         Became(h, host[h].phase, scope, host[h].id, host[h].cancel)
  BY <1>1 DEF Thread, Became
<1>4. \A cancel \in {"wanted", "sent"} : host' = [host EXCEPT ![h].cancel = cancel] =>
         Became(h, host[h].phase, host[h].scope, host[h].id, cancel)
  BY <1>1 DEF Thread, Became
<1>5. \A id \in Nat : host' = [host EXCEPT ![h].phase = "waiting", ![h].id = id] =>
         Became(h, "waiting", host[h].scope, id, host[h].cancel)
  <2> SUFFICES ASSUME NEW id \in Nat, host' = [host EXCEPT ![h].phase = "waiting", ![h].id = id]
               PROVE  Became(h, "waiting", host[h].scope, id, host[h].cancel)
    OBVIOUS
  <2> DEFINE t == [host[h] EXCEPT !.phase = "waiting", !.id = id]
  <2>1. /\ t \in Thread /\ t.phase = "waiting" /\ t.id = id
        /\ t.scope = host[h].scope /\ t.cancel = host[h].cancel
    BY <1>1 DEF Thread
  <2>2. host' = [host EXCEPT ![h] = t]
    BY <1>1 DEF Thread
  <2> HIDE DEF t
  <2> QED BY <1>1, <2>1, <2>2 DEF Became
<1> QED BY <1>2, <1>3, <1>4, <1>5

(* A thread that gives the lock back.                                        *)
LEMMA Returns ==
    ASSUME HostInv, NEW h \in Hosts, lock = h, Return(h), ended' = ended
    PROVE  /\ Became(h, "idle", host[h].scope, 0, "no") /\ lock' = None
           /\ Locked' /\ ScopesApart' /\ Awaited' = 0
<1>0. HostType /\ Locked /\ ScopesApart /\ host \in [Hosts -> Thread] /\ None \notin Hosts
  BY HostAssumption DEF HostInv, HostType
<1>1. NoThread \in Thread /\ NoThread.phase = "idle" /\ NoThread.id = 0 /\ NoThread.cancel = "no"
  BY DEF NoThread, Thread
<1> DEFINE t == [NoThread EXCEPT !.scope = host[h].scope]
<1>2. t \in Thread /\ t.phase = "idle" /\ t.scope = host[h].scope /\ t.id = 0 /\ t.cancel = "no"
  BY <1>0, <1>1, ThreadFields DEF Thread
<1>3. host' = [host EXCEPT ![h] = t] /\ lock' = None
  BY DEF Return
<1> HIDE DEF t
<1>4. Became(h, "idle", host[h].scope, 0, "no")
  BY <1>0, <1>2, <1>3 DEF Became
<1>5. \A g \in Hosts : host'[g].phase = "idle" /\ host'[g].scope = host[g].scope
  BY <1>0, <1>4 DEF Became, Locked
<1>6. Locked'
  BY <1>0, <1>3, <1>5 DEF Locked
<1>7. ScopesApart'
  BY <1>0, <1>5 DEF ScopesApart
<1> QED BY <1>3, <1>4, <1>6, <1>7 DEF Awaited

LEMMA Ends ==
    ASSUME HostInv, NEW h \in Hosts, lock = h, ScopeEnded(h)
    PROVE  /\ Became(h, "idle", None, 0, "no") /\ lock' = None
           /\ ended' = ended \cup {host[h].scope} /\ ended' \subseteq Scopes
           /\ Locked' /\ ScopesApart' /\ Awaited' = 0
<1>0. /\ HostType /\ Locked /\ ScopesApart /\ host \in [Hosts -> Thread] /\ None \notin Hosts
      /\ host[h].scope # None /\ host[h].scope \in Scopes /\ ended \subseteq Scopes
  BY HostAssumption, ThreadFields DEF HostInv, HostType, Locked
<1>1. /\ NoThread \in Thread /\ NoThread.phase = "idle" /\ NoThread.id = 0 /\ NoThread.cancel = "no"
      /\ NoThread.scope = None
  BY DEF NoThread, Thread
<1>2. host' = [host EXCEPT ![h] = NoThread] /\ lock' = None /\ ended' = ended \cup {host[h].scope}
  BY DEF ScopeEnded
<1>3. Became(h, "idle", None, 0, "no")
  BY <1>0, <1>1, <1>2 DEF Became
<1>4. \A g \in Hosts : host'[g].phase = "idle" /\ host'[g].scope = (IF g = h THEN None ELSE host[g].scope)
  BY <1>0, <1>3 DEF Became, Locked
<1>5. Locked'
  BY <1>0, <1>2, <1>4 DEF Locked
<1>6. None \notin ended'
  BY <1>0, <1>2, ServerAssumption
<1>7. ScopesApart'
  BY <1>0, <1>2, <1>4, <1>6 DEF ScopesApart
<1> QED BY <1>0, <1>2, <1>3, <1>5, <1>7 DEF Awaited

-----------------------------------------------------------------------------
(* What the host's steps leave of the process.                               *)

(* A fresh process, or what is left of a dead one.                           *)
LEMMA ResetEffect ==
    ASSUME NEW left \in Seq(Reply), Reset(left), reader' \in {"reading", "exited"}
    PROVE  /\ ServerInv' /\ inbox' = <<>> /\ queued' = 0 /\ Occupied' = {} /\ Answering' = {}
           /\ open' = {} /\ ~stopping' /\ outbox' = left /\ Outstanding' = Len(left)
<1>1. NoEntry \in Entry
  BY DEF NoEntry, Entry
<1>2. /\ inbox' = <<>> /\ outbox' = left /\ head' = 0 /\ tail' = 0 /\ queued' = 0
      /\ ring' = [k \in 0..Queue - 1 |-> NoEntry] /\ thread' = [w \in Threads |-> "awake"]
      /\ job' = [w \in Threads |-> NoEntry] /\ flag' = [w \in Threads |-> FALSE]
      /\ stopping' = FALSE /\ open' = {}
  BY DEF Reset
<1>3. 0 \in 0..Queue - 1 /\ 0 \in 0..Queue /\ 0 % Queue = 0
  BY ServerAssumption
<1>4. inbox' \in Seq(Message) /\ Len(inbox') = 0
  BY <1>2
<1>5. ServerType'
  BY <1>1, <1>2, <1>3, <1>4 DEF ServerType
<1>6. head' + queued' = 0
  BY <1>2
<1>7. RingAgrees'
  BY <1>2, <1>3, <1>6 DEF RingAgrees, Place
<1>8. Occupied' = {}
  <2>1. 0..queued' - 1 = {}
    BY <1>2
  <2> QED BY <2>1 DEF Occupied
<1>9. \A w \in Threads : ~Busy(w)'
  BY <1>2 DEF Busy
<1>10. ScopesKnown'
  BY <1>4, <1>8, <1>9 DEF ScopesKnown
<1>11. Answering' = {}
  BY <1>9 DEF Answering
<1>12. ServerInv'
  BY <1>5, <1>7, <1>10 DEF ServerInv
<1>13. Asking' = {}
  BY <1>4 DEF Asking
<1>14. Outstanding' = Len(left)
  BY <1>2, <1>11, <1>12, <1>13, CountsNext, FS_EmptySet
<1> QED BY <1>2, <1>8, <1>11, <1>12, <1>14

(* Nothing is under way, and nobody waits.                                   *)
LEMMA QuietTraffic ==
    ASSUME \A k \in 1..Len(inbox') : inbox'[k].type = "cancel" /\ inbox'[k].target < next',
           Occupied' = {}, Answering' = {}, Awaited' = 0
    PROVE  Traffic' /\ ~HolderIn("ack")'
<1>1. ~HolderIn("waiting")' /\ ~HolderIn("ack")'
  BY DEF Awaited, HolderIn
<1>2. (\A k \in 1..Len(inbox) : OwnMessage(inbox[k]))'
  BY <1>1 DEF OwnMessage
<1> QED BY <1>1, <1>2 DEF Traffic

LEMMA ResetKeepsInv ==
    ASSUME IInv, NEW left \in Seq(Reply), Reset(left),
           HostType', Locked', ScopesApart',
           \/ reader' = "reading" /\ ext' = "own" /\ left = <<>> /\ Awaited' = 0
           \/ reader' = "exited" /\ Len(left) <= Awaited'
    PROVE  IInv'
<1>1. /\ ServerInv' /\ inbox' = <<>> /\ queued' = 0 /\ Occupied' = {} /\ Answering' = {}
      /\ open' = {} /\ ~stopping' /\ outbox' = left /\ Outstanding' = Len(left)
  BY ResetEffect
<1>2. Len(inbox') = 0 /\ 1..Len(inbox') = {}
  BY <1>1
<1>3. Process'
  BY <1>1, <1>2 DEF Process, Alive
<1>4. Counted'
  <2>1. CASE left = <<>> /\ Awaited' = 0
    BY <1>1, <2>1 DEF Counted
  <2>2. CASE reader' = "exited" /\ Len(left) <= Awaited'
    BY <1>1, <2>2 DEF Counted, Alive
  <2> QED BY <2>1, <2>2
<1>5. Traffic'
  BY <1>1, <1>2 DEF Traffic
<1>6. Opened'
  BY <1>1 DEF Opened, OnlyBrokenHoldsEnded
<1> QED BY <1>1, <1>3, <1>4, <1>5, <1>6 DEF IInv

(* The holder goes on.                                                       *)
LEMMA HolderGoesOn ==
    ASSUME HostInv, NEW h \in Hosts, lock = h, lock' = h, NEW phase, NEW id, NEW cancel,
           Became(h, phase, host[h].scope, id, cancel), phase # "idle",
           phase \in {"ready", "waiting", "ack"} => ext' = "own" /\ ~broken',
           phase = "waiting" => id < next',
           ended' = ended
    PROVE  Locked' /\ ScopesApart'
<1>0. HostType /\ Locked /\ ScopesApart
  BY DEF HostInv
<1>1. \A g \in Hosts : host'[g].scope = host[g].scope
  BY DEF Became
<1>2. \A g \in Hosts : g # h => host'[g].phase = "idle"
  BY <1>0 DEF Became, Locked
<1>3. host[h].scope # None
  BY <1>0 DEF Locked
<1>4. Locked'
  BY <1>1, <1>2, <1>3 DEF Locked, Became
<1>5. ScopesApart'
  BY <1>0, <1>1 DEF ScopesApart
<1> QED BY <1>4, <1>5

(* Nobody is in a call while the lock is free.                               *)
LEMMA Unlocked ==
    ASSUME HostInv, lock = None
    PROVE  /\ \A h \in Hosts : host[h].phase = "idle"
           /\ Awaited = 0
BY HostAssumption DEF HostInv, Locked, Awaited

LEMMA NextGrows ==
    ASSUME HostType
    PROVE  NextId \in Nat /\ next <= NextId
BY HostAssumption DEF HostType, NextId

-----------------------------------------------------------------------------
(* Steps that start a process anew or leave none.                            *)

LEMMA CrashKeepsInv == ASSUME IInv, Crash PROVE IInv'
<1>1. /\ Reset(outbox) /\ reader' = "exited" /\ UNCHANGED hostVars
      /\ HostType /\ Locked /\ ScopesApart /\ Counted /\ outbox \in Seq(Reply)
  BY DEF Crash, IInv, ServerInv, ServerType
<1>2. HostType' /\ Locked' /\ ScopesApart' /\ Awaited' = Awaited
  BY <1>1 DEF HostType, Locked, ScopesApart, hostVars, Awaited
<1>3. Len(outbox) <= Awaited'
  BY <1>1, <1>2 DEF Counted
<1> QED BY <1>1, <1>2, <1>3, ResetKeepsInv

LEMMA StartKeepsInv == ASSUME IInv, NEW h \in Hosts, Start(h) PROVE IInv'
<1>1. /\ Reset(<<>>) /\ reader' = "reading" /\ ext' = "own" /\ broken' = FALSE /\ next' = 1
      /\ starts' = starts + 1 /\ starts < MaxStarts /\ Phase(h, "ready") /\ lock' = lock /\ ended' = ended
      /\ host[h].phase = "calling"
      /\ HostInv /\ HostType /\ <<>> \in Seq(Reply)
  BY DEF Start, IInv, HostInv
<1>2. lock = h
  BY <1>1 DEF HostInv, Locked
<1>3. Became(h, "ready", host[h].scope, host[h].id, host[h].cancel)
  BY <1>1, Advances
<1>4. Locked' /\ ScopesApart'
  BY <1>1, <1>2, <1>3, HolderGoesOn
<1>5. HostType'
  <2>1. starts' \in 0..MaxStarts /\ next' \in Nat
    BY <1>1, HostAssumption DEF HostType
  <2> QED BY <1>1, <1>3, <2>1 DEF HostType, Became
<1>6. Awaited' = 0
  BY <1>1, <1>2, <1>3 DEF Awaited, Became
<1> QED BY <1>1, <1>4, <1>5, <1>6, ResetKeepsInv

LEMMA StartFailsKeepsInv == ASSUME IInv, NEW h \in Hosts, StartFails(h) PROVE IInv'
<1>1. /\ Reset(<<>>) /\ reader' = "exited" /\ ext' = "none" /\ broken' = FALSE /\ Return(h)
      /\ UNCHANGED <<next, starts, ended>> /\ host[h].phase = "calling"
      /\ HostInv /\ HostType /\ <<>> \in Seq(Reply) /\ Len(<<>>) = 0
  BY DEF StartFails, IInv, HostInv
<1>2. lock = h
  BY <1>1 DEF HostInv, Locked
<1>3. /\ Became(h, "idle", host[h].scope, 0, "no") /\ lock' = None
      /\ Locked' /\ ScopesApart' /\ Awaited' = 0
  BY <1>1, <1>2, Returns
<1>4. HostType'
  BY <1>1, <1>3 DEF HostType, Became
<1>5. Len(<<>>) <= Awaited'
  BY <1>1, <1>3
<1> QED BY <1>1, <1>3, <1>4, <1>5, ResetKeepsInv

LEMMA ImportKeepsInv == ASSUME IInv, Import PROVE IInv'
<1>1. /\ Reset(<<>>) /\ reader' = "reading" /\ ext' = "own" /\ broken' = FALSE /\ next' = 1
      /\ starts' = starts + 1 /\ starts < MaxStarts /\ UNCHANGED <<host, lock, ended>> /\ lock = None
      /\ HostInv /\ HostType /\ Locked /\ ScopesApart /\ <<>> \in Seq(Reply)
  BY DEF Import, IInv, HostInv
<1>2. \A h \in Hosts : host[h].phase = "idle"
  BY <1>1, Unlocked
<1>3. Locked' /\ ScopesApart'
  BY <1>1, <1>2 DEF Locked, ScopesApart
<1>4. HostType'
  <2>1. starts' \in 0..MaxStarts /\ next' \in Nat
    BY <1>1, HostAssumption DEF HostType
  <2> QED BY <1>1, <2>1 DEF HostType
<1>5. Awaited' = 0
  BY <1>1 DEF Awaited
<1> QED BY <1>1, <1>3, <1>4, <1>5, ResetKeepsInv

LEMMA ShutdownKeepsInv == ASSUME IInv, Shutdown PROVE IInv'
<1>1. /\ Reset(<<>>) /\ reader' = "exited" /\ ext' = "none" /\ broken' = FALSE
      /\ UNCHANGED <<host, lock, next, starts, ended>> /\ lock = None
      /\ HostInv /\ HostType /\ Locked /\ ScopesApart /\ <<>> \in Seq(Reply) /\ Len(<<>>) = 0
  BY DEF Shutdown, IInv, HostInv
<1>2. \A h \in Hosts : host[h].phase = "idle"
  BY <1>1, Unlocked
<1>3. HostType' /\ Locked' /\ ScopesApart'
  BY <1>1, <1>2 DEF HostType, Locked, ScopesApart
<1>4. Awaited' = 0
  BY <1>1 DEF Awaited
<1>5. Len(<<>>) <= Awaited'
  BY <1>1, <1>4
<1> QED BY <1>1, <1>3, <1>4, <1>5, ResetKeepsInv

LEMMA DeadlineKeepsInv == ASSUME IInv, NEW h \in Hosts, Deadline(h) PROVE IInv'
<1>1. /\ Reset(<<>>) /\ reader' = "exited" /\ broken' = TRUE /\ UNCHANGED <<ext, next, starts>>
      /\ host[h].phase \in {"waiting", "ack"}
      /\ (Return(h) /\ ended' = ended) \/ ScopeEnded(h)
      /\ HostInv /\ HostType /\ <<>> \in Seq(Reply) /\ Len(<<>>) = 0
  BY DEF Deadline, ScopeEnded, IInv, HostInv
<1>2. lock = h
  BY <1>1 DEF HostInv, Locked
<1>3. /\ host' \in [Hosts -> Thread] /\ lock' = None /\ ended' \subseteq Scopes
      /\ Locked' /\ ScopesApart' /\ Awaited' = 0
  BY <1>1, <1>2, Returns, Ends DEF Became, HostType
<1>4. HostType'
  BY <1>1, <1>3 DEF HostType
<1>5. Len(<<>>) <= Awaited'
  BY <1>1, <1>3
<1> QED BY <1>1, <1>3, <1>4, <1>5, ResetKeepsInv

-----------------------------------------------------------------------------
(* Steps of the host alone.                                                  *)

(* Neither pipes nor process, nor what the holder waits for.                 *)
LEMMA AloneKeepsInv ==
    ASSUME IInv, UNCHANGED serverVars, HostType', Locked', ScopesApart',
           Awaited' = Awaited, next' = next \/ (next <= next' /\ Awaited = 0), next' \in Nat,
           \/ Awaited = 0
           \/ /\ lock' = lock /\ host'[lock].phase = host[lock].phase
              /\ host'[lock].scope = host[lock].scope /\ host'[lock].id = host[lock].id
              /\ host[lock].cancel = "sent" => host'[lock].cancel = "sent"
              /\ ended' = ended /\ broken' = broken,
           Alive => ext' = "own",
           OnlyBrokenHoldsEnded'
    PROVE  IInv'
<1>0. /\ ServerInv /\ Process /\ Counted /\ Traffic /\ Opened /\ ServerInv' /\ HostType
      /\ UNCHANGED <<inbox, outbox, ring, head, queued, thread, job, flag, reader, stopping, open>>
  BY ServerRests DEF IInv, serverVars, ringVars, workerVars
<1>1. Process'
  BY <1>0 DEF Process, Alive, Answering, Busy
<1>2. Outstanding' = Outstanding /\ Occupied' = Occupied /\ Answering' = Answering
  BY <1>0 DEF Outstanding, Occupied, Answering, Busy
<1>3. Counted'
  BY <1>0, <1>2 DEF Counted, Alive
<1>4. CASE Awaited = 0
  <2>1. ~HolderIn("waiting") /\ ~HolderIn("ack")
    BY <1>4 DEF Awaited, HolderIn
  <2>2. \A k \in 1..Len(inbox) : inbox[k].type = "cancel" /\ inbox[k].target < next
    <3>1. \A k \in 1..Len(inbox) : inbox[k] \in Message
      BY <1>0, ElementOfSeq DEF ServerInv, ServerType
    <3> QED BY <1>0, <2>1, <3>1, MessageFields DEF Traffic, OwnMessage, OwnCall, Process
  <2>3. Occupied = {} /\ Answering = {}
    BY <1>0, <2>1 DEF Traffic, OwnCall
  <2>4. ASSUME NEW k \in 1..Len(inbox)
        PROVE  inbox[k].target < next'
    <3>1. inbox[k] \in Message
      BY <1>0, ElementOfSeq DEF ServerInv, ServerType
    <3>2. inbox[k].target \in Nat /\ inbox[k].target < next
      BY <2>2, <3>1, MessageFields
    <3>3. next \in Nat /\ next' \in Nat /\ (next' = next \/ next <= next')
      BY <1>0 DEF HostType
    <3> QED BY <3>2, <3>3
  <2>5. Traffic' /\ ~HolderIn("ack")'
    BY <1>0, <1>2, <1>4, <2>2, <2>3, <2>4, QuietTraffic
  <2> QED BY <1>0, <1>1, <1>3, <2>5 DEF IInv, Opened
<1>5. CASE Awaited # 0
  <2>1. /\ lock' = lock /\ host'[lock].phase = host[lock].phase
        /\ host'[lock].scope = host[lock].scope /\ host'[lock].id = host[lock].id
        /\ host[lock].cancel = "sent" => host'[lock].cancel = "sent"
        /\ ended' = ended /\ broken' = broken /\ next' = next
    BY <1>5
  <2>2. (\A k \in 1..Len(inbox) : OwnMessage(inbox[k]))'
    BY <1>0, <2>1 DEF Traffic, OwnMessage, OwnCall, HolderIn
  <2>3. Traffic'
    BY <1>0, <1>2, <2>1, <2>2 DEF Traffic, OwnCall, HolderIn
  <2>4. Opened'
    BY <1>0, <2>1 DEF Opened, HolderIn
  <2> QED BY <1>0, <1>1, <1>3, <2>3, <2>4 DEF IInv
<1> QED BY <1>4, <1>5

LEMMA ScopeBeginKeepsInv == ASSUME IInv, NEW h \in Hosts, ScopeBegin(h) PROVE IInv'
<1>1. /\ UNCHANGED <<lock, ext, broken, next, starts, ended>> /\ UNCHANGED serverVars
      /\ host[h].phase = "idle" /\ host[h].scope = None
      /\ HostType /\ Locked /\ ScopesApart /\ Process /\ Opened
  BY DEF ScopeBegin, IInv
<1>2. PICK scope \in Scopes \ (ended \cup {host[g].scope : g \in Hosts}) :
         host' = [host EXCEPT ![h].scope = scope]
  BY DEF ScopeBegin
<1>3. Became(h, "idle", scope, host[h].id, host[h].cancel)
  BY <1>1, <1>2, Advances
<1>4. lock # h
  BY <1>1 DEF Locked
<1>5. Locked'
  BY <1>1, <1>3 DEF Locked, Became
<1>6. ScopesApart'
  <2>1. \A g \in Hosts : scope # host[g].scope
    BY <1>2
  <2>2. scope # None
    BY <1>2, ServerAssumption
  <2> QED BY <1>1, <1>2, <1>3, <2>1, <2>2 DEF ScopesApart, Became
<1>7. lock # None => lock \in Hosts /\ host'[lock] = host[lock]
  BY <1>1, <1>3, <1>4 DEF Became, HostType
<1>8. Awaited' = Awaited
  BY <1>1, <1>7 DEF Awaited
<1>9. Awaited = 0 \/ lock # None
  BY DEF Awaited
<1>10. HostType' /\ OnlyBrokenHoldsEnded'
  BY <1>1, <1>3 DEF HostType, Became, OnlyBrokenHoldsEnded, Opened, serverVars
<1>11. (Alive => ext' = "own") /\ next' = next /\ next' \in Nat
  BY <1>1 DEF Process, HostType
<1> QED BY <1>1, <1>5, <1>6, <1>7, <1>8, <1>9, <1>10, <1>11, AloneKeepsInv

LEMMA EnterKeepsInv ==
    ASSUME IInv, NEW h \in Hosts, NEW phase \in {"calling", "leaving"}, Enter(h, phase)
    PROVE  IInv'
<1>1. /\ UNCHANGED <<ext, broken, next, starts, ended>> /\ UNCHANGED serverVars
      /\ host[h].phase = "idle" /\ host[h].scope # None /\ lock = None /\ lock' = h /\ Phase(h, phase)
      /\ HostType /\ HostInv /\ Locked /\ ScopesApart /\ Process /\ Opened
  BY DEF Enter, IInv, HostInv
<1>2. Became(h, phase, host[h].scope, host[h].id, host[h].cancel)
  BY <1>1, Advances
<1>3. Awaited = 0 /\ \A g \in Hosts : host[g].phase = "idle"
  BY <1>1, Unlocked
<1>4. Locked' /\ ScopesApart'
  BY <1>1, <1>2, <1>3 DEF Locked, ScopesApart, Became
<1>5. Awaited' = 0
  BY <1>1, <1>2 DEF Awaited, Became
<1>6. HostType' /\ OnlyBrokenHoldsEnded'
  BY <1>1, <1>2 DEF HostType, Became, OnlyBrokenHoldsEnded, Opened, serverVars
<1>7. (Alive => ext' = "own") /\ next' = next /\ next' \in Nat
  BY <1>1 DEF Process, HostType
<1> QED BY <1>1, <1>3, <1>4, <1>5, <1>6, <1>7, AloneKeepsInv

(* A cancel that is wanted, or could not be written.                         *)
LEMMA CancelKeepsInv ==
    ASSUME IInv, NEW h \in Hosts, NEW cancel \in {"wanted", "sent"},
           host' = [host EXCEPT ![h].cancel = cancel], host[h].phase # "idle",
           host[h].cancel = "no" \/ cancel = "sent",
           UNCHANGED <<lock, ext, broken, next, starts, ended>>, UNCHANGED serverVars
    PROVE  IInv'
<1>1. HostType /\ HostInv /\ Locked /\ Process /\ Opened
  BY DEF IInv, HostInv
<1>2. lock = h /\ h # None
  BY <1>1, HostAssumption DEF Locked
<1>3. Became(h, host[h].phase, host[h].scope, host[h].id, cancel)
  BY <1>1, Advances
<1>4. Locked' /\ ScopesApart'
  BY <1>1, <1>2, <1>3, HolderGoesOn DEF Locked
<1>5. Awaited' = Awaited
  BY <1>2, <1>3 DEF Awaited, Became
<1>6. HostType' /\ OnlyBrokenHoldsEnded'
  BY <1>1, <1>3 DEF HostType, Became, OnlyBrokenHoldsEnded, Opened, serverVars
<1>7. (Alive => ext' = "own") /\ next' = next /\ next' \in Nat
  BY <1>1 DEF Process, HostType
<1>8. /\ host'[lock].phase = host[lock].phase /\ host'[lock].scope = host[lock].scope
      /\ host'[lock].id = host[lock].id
      /\ host[lock].cancel = "sent" => host'[lock].cancel = "sent"
  BY <1>2, <1>3 DEF Became
<1> QED BY <1>4, <1>5, <1>6, <1>7, <1>8, AloneKeepsInv

LEMMA ReuseKeepsInv == ASSUME IInv, NEW h \in Hosts, Reuse(h) PROVE IInv'
<1>1. /\ UNCHANGED <<lock, ext, broken, next, starts, ended>> /\ UNCHANGED serverVars
      /\ host[h].phase = "calling" /\ Usable /\ Phase(h, "ready")
      /\ HostType /\ HostInv /\ Locked /\ ScopesApart /\ Process /\ Opened
  BY DEF Reuse, IInv, HostInv
<1>2. lock = h /\ lock' = h
  BY <1>1 DEF Locked
<1>3. Became(h, "ready", host[h].scope, host[h].id, host[h].cancel)
  BY <1>1, Advances
<1>4. Locked' /\ ScopesApart'
  BY <1>1, <1>2, <1>3, HolderGoesOn DEF Usable
<1>5. Awaited = 0 /\ Awaited' = 0
  BY <1>1, <1>2, <1>3 DEF Awaited, Became
<1>6. HostType' /\ OnlyBrokenHoldsEnded'
  BY <1>1, <1>3 DEF HostType, Became, OnlyBrokenHoldsEnded, Opened, serverVars
<1>7. (Alive => ext' = "own") /\ next' = next /\ next' \in Nat
  BY <1>1 DEF Process, HostType
<1> QED BY <1>1, <1>4, <1>5, <1>6, <1>7, AloneKeepsInv

LEMMA SendFailsKeepsInv == ASSUME IInv, NEW h \in Hosts, SendFails(h) PROVE IInv'
<1>1. /\ UNCHANGED <<ext, starts, ended>> /\ UNCHANGED serverVars
      /\ host[h].phase = "ready" /\ broken' = TRUE /\ next' = NextId /\ Return(h)
      /\ HostType /\ HostInv /\ Locked /\ ScopesApart /\ Process /\ Opened
  BY DEF SendFails, IInv, HostInv
<1>2. lock = h
  BY <1>1 DEF Locked
<1>3. /\ Became(h, "idle", host[h].scope, 0, "no") /\ lock' = None
      /\ Locked' /\ ScopesApart' /\ Awaited' = 0
  BY <1>1, <1>2, Returns
<1>4. Awaited = 0
  BY <1>1, <1>2 DEF Awaited
<1>5. next' \in Nat /\ next <= next'
  BY <1>1, NextGrows
<1>6. HostType' /\ OnlyBrokenHoldsEnded'
  BY <1>1, <1>3, <1>5 DEF HostType, Became, OnlyBrokenHoldsEnded
<1>7. Alive => ext' = "own"
  BY <1>1 DEF Process
<1> QED BY <1>1, <1>3, <1>4, <1>5, <1>6, <1>7, AloneKeepsInv

LEMMA SkipScopeEndKeepsInv == ASSUME IInv, NEW h \in Hosts, SkipScopeEnd(h) PROVE IInv'
<1>1. /\ UNCHANGED <<ext, next, starts>> /\ UNCHANGED serverVars
      /\ host[h].phase = "leaving" /\ (ext # "own" \/ broken \/ ~Alive)
      /\ broken' = (broken \/ ext = "own") /\ ScopeEnded(h)
      /\ HostType /\ HostInv /\ Locked /\ ScopesApart /\ Process /\ Opened
  BY DEF SkipScopeEnd, IInv, HostInv
<1>2. lock = h
  BY <1>1 DEF Locked
<1>3. /\ Became(h, "idle", None, 0, "no") /\ lock' = None
      /\ ended' \subseteq Scopes /\ Locked' /\ ScopesApart' /\ Awaited' = 0
  BY <1>1, <1>2, Ends
<1>4. Awaited = 0
  BY <1>1, <1>2 DEF Awaited
<1>5. HostType' /\ next' = next /\ next' \in Nat
  BY <1>1, <1>3 DEF HostType, Became
<1>6. OnlyBrokenHoldsEnded'
  <2>1. Alive => ext = "own" /\ broken'
    BY <1>1 DEF Process
  <2>2. ~Alive => open' = {}
    BY <1>1 DEF Process, serverVars
  <2> QED BY <2>1, <2>2 DEF OnlyBrokenHoldsEnded
<1>7. Alive => ext' = "own"
  BY <1>1 DEF Process
<1> QED BY <1>1, <1>3, <1>4, <1>5, <1>6, <1>7, AloneKeepsInv

-----------------------------------------------------------------------------
(* The answer, or the end of a process that gave none.                       *)

LEMMA AnsweredKeepsInv ==
    ASSUME IInv, NEW h \in Hosts, lock = h, host[h].phase \in {"waiting", "ack"},
           \/ outbox # <<>> /\ outbox' = Tail(outbox)
           \/ ~Alive /\ outbox = <<>> /\ UNCHANGED outbox,
           UNCHANGED <<inbox, ringVars, workerVars, reader, stopping, open>>,
           UNCHANGED <<ext, next, starts>>,
           broken' = broken \/ broken' = TRUE,
           \/ host[h].phase = "waiting" /\ Return(h) /\ ended' = ended
           \/ host[h].phase = "ack" /\ ScopeEnded(h)
    PROVE  IInv'
<1>0. /\ ServerInv /\ HostInv /\ HostType /\ Process /\ Counted /\ Traffic /\ Opened
      /\ UNCHANGED <<ring, head, queued, thread, job, flag>> /\ h # None
      /\ outbox \in Seq(Reply)
  BY HostAssumption DEF IInv, HostInv, ringVars, workerVars, ServerInv, ServerType
<1>1. /\ host' \in [Hosts -> Thread] /\ lock' = None /\ ended' \subseteq Scopes
      /\ Locked' /\ ScopesApart' /\ Awaited' = 0
  BY <1>0, Returns, Ends DEF Became, HostType
<1>2. HostType'
  BY <1>0, <1>1 DEF HostType
<1>3. /\ ServerInv' /\ Len(outbox) \in Nat /\ Len(outbox') = 0
      /\ (Alive => Len(outbox) = 1)
  <2>1. Awaited = 1 /\ Len(outbox) <= 1
    BY <1>0 DEF Awaited, Counted
  <2>2. CASE outbox # <<>> /\ outbox' = Tail(outbox)
    <3>1. UNCHANGED <<inbox, ringVars, workerVars, reader, stopping, open>>
      OBVIOUS
    <3>2. ServerInv' /\ Len(outbox) \in Nat \ {0} /\ Len(outbox') = Len(outbox) - 1
      BY <1>0, <2>2, <3>1, ReplyRead
    <3>3. Len(outbox) = 1
      BY <2>1, <3>2
    <3> QED BY <3>2, <3>3
  <2>3. CASE ~Alive /\ outbox = <<>> /\ UNCHANGED outbox
    <3>1. UNCHANGED serverVars
      BY <2>3 DEF serverVars
    <3> QED BY <1>0, <2>3, <3>1, ServerRests, EmptySeq
  <2> QED BY <2>2, <2>3
<1>4. /\ \A k \in 1..Len(inbox) : inbox[k].type = "cancel"
      /\ queued = 0 /\ Occupied = {} /\ Answering = {}
  <2>1. CASE Alive
    <3>1. Outstanding = 1
      BY <1>0, <2>1 DEF Counted, Awaited
    <3> QED BY <1>0, <1>3, <2>1, <3>1, NothingElse
  <2>2. CASE ~Alive
    <3>1. inbox = <<>> /\ queued = 0 /\ Answering = {}
      BY <1>0, <2>2 DEF Process
    <3>2. Occupied = {} /\ Len(inbox) = 0
      BY <3>1 DEF Occupied
    <3> QED BY <3>1, <3>2
  <2> QED BY <2>1, <2>2
<1>5. inbox' = inbox /\ Occupied' = {} /\ Answering' = {} /\ queued' = 0
  BY <1>0, <1>4 DEF Occupied, Answering, Busy
<1>6. Process'
  BY <1>0, <1>5 DEF Process, Alive
<1>7. Counted'
  <2>1. Asking' = {}
    BY <1>4, <1>5 DEF Asking
  <2>2. Outstanding' = 0
    BY <1>3, <1>5, <2>1, CountsNext, FS_EmptySet
  <2> QED BY <1>1, <1>3, <2>2 DEF Counted
<1>8. \A k \in 1..Len(inbox') : inbox'[k].type = "cancel" /\ inbox'[k].target < next'
  BY <1>0, <1>4, <1>5 DEF Traffic, OwnMessage
<1>9. Traffic' /\ ~HolderIn("ack")'
  BY <1>1, <1>5, <1>8, QuietTraffic
<1>10. OnlyBrokenHoldsEnded'
  <2>1. open' = open /\ (broken => broken')
    OBVIOUS
  <2>2. CASE ended' = ended
    BY <1>0, <2>1, <2>2 DEF Opened, OnlyBrokenHoldsEnded
  <2>3. CASE host[h].phase = "ack" /\ ScopeEnded(h)
    <3>1. host[h].scope \notin open
      BY <1>0, <1>4, <2>3 DEF Opened, HolderIn
    <3>2. ended' = ended \cup {host[h].scope}
      BY <2>3 DEF ScopeEnded
    <3> QED BY <1>0, <2>1, <3>1, <3>2 DEF Opened, OnlyBrokenHoldsEnded
  <2> QED BY <2>2, <2>3
<1> QED BY <1>1, <1>2, <1>3, <1>6, <1>7, <1>9, <1>10 DEF IInv, Opened

-----------------------------------------------------------------------------
(* Messages of the host.                                                     *)

(* A message that asks goes to a process that has nothing to do.             *)
LEMMA Asks ==
    ASSUME IInv, Awaited = 0, NEW m \in Message, m.type \in {"call", "scope_end"},
           m.type = "call" => m.scope \in Scopes, Write(m), ext' = "own"
    PROVE  /\ ServerInv' /\ Process' /\ Outstanding' = 1 /\ Len(outbox') = 0
           /\ Occupied' = {} /\ Answering' = {} /\ open' = open
           /\ Len(inbox) \in Nat /\ Len(inbox') = Len(inbox) + 1
           /\ inbox'[Len(inbox) + 1] = m
           /\ \A k \in 1..Len(inbox) :
                 /\ inbox'[k].type = "cancel"
                 /\ inbox'[k].target \in Nat /\ inbox'[k].target < next
<1>0. /\ ServerInv /\ Process /\ Counted /\ Traffic /\ Alive
      /\ inbox' = Append(inbox, m)
      /\ UNCHANGED <<outbox, ringVars, workerVars, reader, stopping, open>>
      /\ UNCHANGED <<outbox, ring, head, queued, thread, job, flag, reader, stopping, open>>
  BY DEF IInv, Write, ringVars, workerVars
<1>1. Len(outbox) = 0 /\ Outstanding = 0
  BY <1>0, Counts DEF Counted
<1>2. /\ \A k \in 1..Len(inbox) : inbox[k].type = "cancel"
      /\ queued = 0 /\ Occupied = {} /\ Answering = {}
  BY <1>0, <1>1, NothingElse
<1>3. /\ ServerInv' /\ Len(inbox) \in Nat /\ Len(inbox') = Len(inbox) + 1
      /\ \A k \in 1..Len(inbox) : inbox'[k] = inbox[k]
      /\ inbox'[Len(inbox) + 1] = m
  BY <1>0, MessageSent
<1>4. Occupied' = {} /\ Answering' = {} /\ queued' = 0 /\ Len(outbox') = 0
  BY <1>0, <1>1, <1>2 DEF Occupied, Answering, Busy
<1>5. \A k \in 1..Len(inbox) :
         inbox'[k].type = "cancel" /\ inbox'[k].target \in Nat /\ inbox'[k].target < next
  <2> SUFFICES ASSUME NEW k \in 1..Len(inbox)
               PROVE  /\ inbox'[k].type = "cancel"
                      /\ inbox'[k].target \in Nat /\ inbox'[k].target < next
    OBVIOUS
  <2>1. inbox[k] \in Message /\ inbox'[k] = inbox[k] /\ inbox[k].type = "cancel"
    BY <1>0, <1>2, <1>3, ElementOfSeq DEF ServerInv, ServerType
  <2>2. inbox[k].target \in Nat
    BY <2>1, MessageFields
  <2> QED BY <1>0, <2>1, <2>2 DEF Traffic, OwnMessage
<1>6. \A k \in 1..Len(inbox') : k = Len(inbox) + 1 \/ k \in 1..Len(inbox)
  BY <1>3
<1>7. Outstanding' = 1
  <2>1. Asking' = {Len(inbox) + 1}
    <3>1. \A k : k \in Asking' <=> k \in 1..Len(inbox') /\ inbox'[k].type # "cancel"
      BY DEF Asking
    <3>2. Len(inbox) + 1 \in 1..Len(inbox')
      BY <1>3
    <3> QED BY <1>3, <1>5, <1>6, <3>1, <3>2
  <2>2. Cardinality(Asking') = 1 /\ Cardinality(Answering') = 0
    BY <1>4, <2>1, FS_Singleton, FS_EmptySet
  <2> QED BY <1>3, <1>4, <2>2, CountsNext
<1>8. Process'
  <2>1. \A k \in 1..Len(inbox') : inbox'[k].type # "end"
    BY <1>3, <1>5, <1>6
  <2> QED BY <1>0, <2>1 DEF Process, Alive
<1> QED BY <1>0, <1>3, <1>4, <1>5, <1>7, <1>8

LEMMA SendKeepsInv == ASSUME IInv, NEW h \in Hosts, Send(h) PROVE IInv'
<1> DEFINE m == CallOf(next, host[h].scope)
<1>1. /\ UNCHANGED <<lock, ext, broken, starts, ended>>
      /\ host[h].phase = "ready" /\ next <= MaxCalls /\ next' = NextId /\ Write(m)
      /\ host' = [host EXCEPT ![h].phase = "waiting", ![h].id = next]
      /\ HostType /\ HostInv /\ Locked /\ ScopesApart /\ Opened /\ next \in Nat
  BY DEF Send, IInv, HostInv, HostType
<1>2. lock = h /\ lock' = h /\ ext' = "own" /\ ~broken' /\ h # None
  BY <1>1, ThreadFields DEF Locked
<1>3. host[h].scope \in Scopes
  BY <1>1, ThreadFields DEF Locked
<1>4. next' = next + 1
  BY <1>1, HostAssumption DEF NextId
<1>5. Awaited = 0
  BY <1>1, <1>2 DEF Awaited
<1>6. Became(h, "waiting", host[h].scope, next, host[h].cancel)
  BY <1>1, Advances
<1>7. Locked' /\ ScopesApart'
  <2>1. next < next'
    BY <1>1, <1>4
  <2> QED BY <1>1, <1>2, <1>6, <2>1, HolderGoesOn
<1>8. HostType'
  BY <1>1, <1>4, <1>6 DEF HostType, Became
<1>9. /\ m \in Message /\ m.type = "call" /\ m.id = next /\ m.scope = host[h].scope
  BY <1>1, <1>3, Sendable DEF CallOf
<1> HIDE DEF m
<1>10. /\ ServerInv' /\ Process' /\ Outstanding' = 1 /\ Len(outbox') = 0
       /\ Occupied' = {} /\ Answering' = {} /\ open' = open
       /\ Len(inbox) \in Nat /\ Len(inbox') = Len(inbox) + 1
       /\ inbox'[Len(inbox) + 1] = m
       /\ \A k \in 1..Len(inbox) :
             /\ inbox'[k].type = "cancel"
             /\ inbox'[k].target \in Nat /\ inbox'[k].target < next
  BY <1>1, <1>2, <1>3, <1>5, <1>9, Asks
<1>11. Awaited' = 1 /\ HolderIn("waiting")' /\ ~HolderIn("ack")'
  BY <1>2, <1>6 DEF Awaited, HolderIn, Became
<1>12. Counted'
  BY <1>10, <1>11 DEF Counted
<1>13. Traffic'
  <2> SUFFICES ASSUME NEW k \in 1..Len(inbox')
               PROVE  OwnMessage(inbox[k])'
    BY <1>10 DEF Traffic
  <2>1. CASE inbox'[k] = m
    BY <1>2, <1>6, <1>9, <1>11, <2>1 DEF OwnMessage, OwnCall, Became
  <2>2. CASE k \in 1..Len(inbox)
    <3>1. inbox'[k].type = "cancel" /\ inbox'[k].target < next' /\ inbox'[k].target # next
      BY <1>1, <1>4, <1>10, <2>2
    <3> QED BY <1>2, <1>6, <3>1 DEF OwnMessage, Became
  <2>3. inbox'[k] = m \/ k \in 1..Len(inbox)
    BY <1>10
  <2> QED BY <2>1, <2>2, <2>3
<1>14. Opened'
  BY <1>1, <1>10, <1>11 DEF Opened, OnlyBrokenHoldsEnded
<1> QED BY <1>7, <1>8, <1>10, <1>12, <1>13, <1>14 DEF IInv

LEMMA SendScopeEndKeepsInv == ASSUME IInv, NEW h \in Hosts, SendScopeEnd(h) PROVE IInv'
<1> DEFINE m == ScopeEndOf(host[h].scope)
<1>1. /\ UNCHANGED <<lock, ext, broken, next, starts, ended>>
      /\ host[h].phase = "leaving" /\ ext = "own" /\ ~broken /\ Write(m) /\ Phase(h, "ack")
      /\ HostType /\ HostInv /\ Locked /\ ScopesApart /\ Opened
  BY DEF SendScopeEnd, IInv, HostInv
<1>2. lock = h /\ lock' = h /\ ext' = "own" /\ ~broken' /\ h # None
  BY <1>1, ThreadFields DEF Locked
<1>3. Awaited = 0
  BY <1>1, <1>2 DEF Awaited
<1>4. Became(h, "ack", host[h].scope, host[h].id, host[h].cancel)
  BY <1>1, Advances
<1>5. Locked' /\ ScopesApart'
  BY <1>1, <1>2, <1>4, HolderGoesOn
<1>6. HostType'
  BY <1>1, <1>4 DEF HostType, Became
<1>7. m \in Message /\ m.type = "scope_end" /\ m.scope = host[h].scope
  BY <1>1, ThreadFields, Sendable DEF ScopeEndOf
<1> HIDE DEF m
<1>8. /\ ServerInv' /\ Process' /\ Outstanding' = 1 /\ Len(outbox') = 0
      /\ Occupied' = {} /\ Answering' = {} /\ open' = open
      /\ Len(inbox) \in Nat /\ Len(inbox') = Len(inbox) + 1
      /\ inbox'[Len(inbox) + 1] = m
      /\ \A k \in 1..Len(inbox) :
            /\ inbox'[k].type = "cancel"
            /\ inbox'[k].target \in Nat /\ inbox'[k].target < next
  BY <1>1, <1>2, <1>3, <1>7, Asks
<1>9. Awaited' = 1 /\ HolderIn("ack")' /\ ~HolderIn("waiting")'
  BY <1>2, <1>4 DEF Awaited, HolderIn, Became
<1>10. Counted'
  BY <1>8, <1>9 DEF Counted
<1>11. \A k \in 1..Len(inbox') : k = Len(inbox) + 1 \/ k \in 1..Len(inbox)
  BY <1>8
<1>12. Traffic'
  <2> SUFFICES ASSUME NEW k \in 1..Len(inbox')
               PROVE  OwnMessage(inbox[k])'
    BY <1>8 DEF Traffic
  <2>1. CASE inbox'[k] = m
    BY <1>2, <1>4, <1>7, <1>9, <2>1 DEF OwnMessage, Became
  <2>2. CASE k \in 1..Len(inbox)
    BY <1>1, <1>8, <1>9, <2>2 DEF OwnMessage
  <2> QED BY <1>8, <1>11, <2>1, <2>2
<1>13. Opened'
  <2>1. Len(inbox) + 1 \in 1..Len(inbox')
    BY <1>8
  <2> QED BY <1>1, <1>7, <1>8, <2>1 DEF Opened, OnlyBrokenHoldsEnded
<1> QED BY <1>5, <1>6, <1>8, <1>10, <1>12, <1>13 DEF IInv

(* A cancel asks nothing.                                                    *)
LEMMA SendCancelKeepsInv == ASSUME IInv, NEW h \in Hosts, SendCancel(h) PROVE IInv'
<1>1. /\ UNCHANGED <<lock, ext, broken, next, starts, ended>>
      /\ host[h].phase = "waiting" /\ host[h].cancel = "wanted"
      /\ host' = [host EXCEPT ![h].cancel = "sent"]
      /\ (Alive /\ Write(CancelOf(host[h].id))) \/ UNCHANGED serverVars
      /\ HostType /\ HostInv /\ Locked /\ ScopesApart /\ ServerInv /\ Process /\ Counted
      /\ Traffic /\ Opened
  BY DEF SendCancel, IInv, HostInv
<1>2. CASE UNCHANGED serverVars
  BY <1>1, <1>2, CancelKeepsInv
<1>3. CASE Alive /\ Write(CancelOf(host[h].id))
  <2> DEFINE m == CancelOf(host[h].id)
  <2>1. m \in Message /\ m.type = "cancel" /\ m.target = host[h].id
    BY <1>1, ThreadFields, Sendable, ServerAssumption DEF CancelOf
  <2>2. /\ inbox' = Append(inbox, m)
        /\ UNCHANGED <<outbox, ringVars, workerVars, reader, stopping, open>>
        /\ UNCHANGED <<outbox, ring, head, queued, thread, job, flag, reader, stopping, open>>
    BY <1>3 DEF Write, ringVars, workerVars
  <2> HIDE DEF m
  <2>3. /\ ServerInv' /\ Len(inbox) \in Nat /\ Len(inbox') = Len(inbox) + 1
        /\ \A k \in 1..Len(inbox) : inbox'[k] = inbox[k]
        /\ inbox'[Len(inbox) + 1] = m
    BY <1>1, <2>1, <2>2, MessageSent
  <2>4. \A k \in 1..Len(inbox') : k = Len(inbox) + 1 \/ k \in 1..Len(inbox)
    BY <2>3
  <2>5. lock = h /\ lock' = h /\ h # None
    BY <1>1, ThreadFields DEF Locked
  <2>6. Became(h, "waiting", host[h].scope, host[h].id, "sent")
    BY <1>1, Advances
  <2>7. Locked' /\ ScopesApart'
    BY <1>1, <2>5, <2>6, HolderGoesOn DEF Locked
  <2>8. HostType'
    BY <1>1, <2>6 DEF HostType, Became
  <2>9. Occupied' = Occupied /\ Answering' = Answering
    BY <2>2 DEF Occupied, Answering, Busy
  <2>10. Process'
    <3>1. \A k \in 1..Len(inbox') : inbox'[k].type # "end"
      BY <1>1, <2>1, <2>3, <2>4 DEF Process
    <3> QED BY <1>1, <1>3, <2>2, <3>1 DEF Process, Alive
  <2>11. Counted'
    <3>1. Asking' = Asking
      <4>1. \A k : k \in Asking' <=> k \in 1..Len(inbox') /\ inbox'[k].type # "cancel"
        BY DEF Asking
      <4>2. \A k : k \in Asking <=> k \in 1..Len(inbox) /\ inbox[k].type # "cancel"
        BY DEF Asking
      <4>3. \A k \in 1..Len(inbox) : k \in 1..Len(inbox')
        BY <2>3
      <4> QED BY <2>1, <2>3, <2>4, <4>1, <4>2, <4>3
    <3>2. Outstanding' = Outstanding
      BY <1>1, <2>2, <2>3, <2>9, <3>1, Counts, CountsNext
    <3>3. Awaited' = 1 /\ Awaited = 1
      BY <1>1, <2>5, <2>6 DEF Awaited, Became
    <3> QED BY <1>1, <1>3, <2>2, <3>2, <3>3 DEF Counted, Alive
  <2>12. Traffic'
    <3>1. HolderIn("waiting") /\ HolderIn("waiting")' /\ ~HolderIn("ack")
      BY <1>1, <2>5, <2>6 DEF HolderIn, Became
    <3>2. \A k \in 1..Len(inbox') : OwnMessage(inbox[k])'
      <4> SUFFICES ASSUME NEW k \in 1..Len(inbox')
                   PROVE  OwnMessage(inbox[k])'
        OBVIOUS
      <4>1. CASE inbox'[k] = m
        <5>1. host[h].id < next'
          BY <1>1 DEF Locked
        <5> QED BY <2>1, <2>5, <2>6, <4>1, <5>1 DEF OwnMessage, Became
      <4>2. CASE k \in 1..Len(inbox)
        <5>1. OwnMessage(inbox[k]) /\ inbox'[k] = inbox[k]
          BY <1>1, <2>3, <4>2 DEF Traffic
        <5> QED BY <1>1, <2>5, <2>6, <3>1, <5>1 DEF OwnMessage, OwnCall, Became
      <4> QED BY <2>3, <2>4, <4>1, <4>2
    <3>3. \A k \in Occupied' : OwnCall(ring[k])' /\ host'[lock'].cancel = "sent"
      BY <1>1, <2>2, <2>5, <2>6, <2>9, <3>1 DEF Traffic, OwnCall, Became
    <3>4. \A w \in Answering' : OwnCall(job[w])' /\ host'[lock'].cancel = "sent"
      BY <1>1, <2>2, <2>5, <2>6, <2>9, <3>1 DEF Traffic, OwnCall, Became
    <3> QED BY <3>2, <3>3, <3>4 DEF Traffic
  <2>13. Opened'
    BY <1>1, <2>2, <2>5, <2>6 DEF Opened, OnlyBrokenHoldsEnded, HolderIn, Became
  <2> QED BY <2>3, <2>7, <2>8, <2>10, <2>11, <2>12, <2>13 DEF IInv
<1> QED BY <1>1, <1>2, <1>3

-----------------------------------------------------------------------------
(* Every step.                                                               *)

LEMMA ReceivedKeepsInv ==
    ASSUME IInv, NEW h \in Hosts, Receive(h) \/ ReceiveFails(h) \/ ScopeEndAck(h)
    PROVE  IInv'
<1>1. /\ host[h].phase \in {"waiting", "ack"}
      /\ \/ outbox # <<>> /\ outbox' = Tail(outbox)
         \/ ~Alive /\ outbox = <<>> /\ UNCHANGED outbox
      /\ UNCHANGED <<inbox, ringVars, workerVars, reader, stopping, open>>
      /\ UNCHANGED <<ext, next, starts>>
      /\ broken' = broken \/ broken' = TRUE
      /\ \/ host[h].phase = "waiting" /\ Return(h) /\ ended' = ended
         \/ host[h].phase = "ack" /\ ScopeEnded(h)
  BY DEF Receive, ReceiveFails, ScopeEndAck, Told
<1>2. lock = h
  BY <1>1 DEF IInv, Locked
<1> QED BY <1>1, <1>2, AnsweredKeepsInv

LEMMA TransportKeepsInv == ASSUME IInv, NEW h \in Hosts, Transport(h) PROVE IInv'
BY ReuseKeepsInv, StartKeepsInv, StartFailsKeepsInv, SendKeepsInv, SendFailsKeepsInv,
   SendCancelKeepsInv, ReceivedKeepsInv, SendScopeEndKeepsInv, SkipScopeEndKeepsInv
   DEF Transport

LEMMA StepKeepsInv == ASSUME IInv, [Next]_vars PROVE IInv'
<1>1. CASE UNCHANGED vars
  <2>1. UNCHANGED serverVars /\ UNCHANGED hostVars
    BY <1>1 DEF vars
  <2> QED BY <2>1, ServerRests DEF serverVars, ringVars, workerVars, hostVars, IInv, HostType, Locked, ScopesApart,
             Process, Counted, Traffic, Opened, OnlyBrokenHoldsEnded, Alive, Awaited, Outstanding, Occupied,
             Answering, Busy, OwnMessage, OwnCall, HolderIn
<1>2. ASSUME NEW h \in Hosts, Cancel(h)
      PROVE  IInv'
  BY <1>2, CancelKeepsInv DEF Cancel
<1>3. ASSUME NEW h \in Hosts, CallBegin(h) \/ ScopeEnd(h)
      PROVE  IInv'
  BY <1>3, EnterKeepsInv DEF CallBegin, ScopeEnd
<1>4. CASE Serve
  BY <1>4, ServeKeepsInv
<1> QED BY <1>1, <1>2, <1>3, <1>4, ScopeBeginKeepsInv, TransportKeepsInv, DeadlineKeepsInv,
           ImportKeepsInv, CrashKeepsInv, ShutdownKeepsInv DEF Next

LEMMA InvStarts == Init => IInv
<1> SUFFICES ASSUME Init PROVE IInv
  OBVIOUS
<1>1. /\ ServerInit /\ reader = "exited" /\ lock = None
      /\ ext \in {"none", "inherited"} /\ broken = FALSE /\ next = 1 /\ starts = 0 /\ ended = {}
      /\ host = [h \in Hosts |-> NoThread]
  BY DEF Init
<1>2. /\ inbox = <<>> /\ outbox = <<>> /\ queued = 0 /\ thread = [w \in Threads |-> "awake"]
      /\ stopping = FALSE /\ open = {}
  BY <1>1 DEF ServerInit
<1>3. ServerInv
  BY <1>1, ServerStarts
<1>4. NoThread \in Thread /\ NoThread.phase = "idle" /\ NoThread.scope = None
  BY DEF NoThread, Thread
<1>5. HostType
  <2>1. host \in [Hosts -> Thread]
    BY <1>1, <1>4
  <2>2. starts \in 0..MaxStarts /\ next \in Nat
    BY <1>1, HostAssumption
  <2>3. ended \subseteq Scopes /\ lock \in Hosts \cup {None}
    BY <1>1
  <2>4. broken \in BOOLEAN /\ ext \in {"none", "own", "inherited"}
    BY <1>1
  <2> QED BY <2>1, <2>2, <2>3, <2>4 DEF HostType
<1>6. \A h \in Hosts : host[h].phase = "idle" /\ host[h].scope = None /\ h # None
  BY <1>1, <1>4, HostAssumption
<1>7. Locked /\ ScopesApart
  BY <1>1, <1>6 DEF Locked, ScopesApart
<1>8. Answering = {} /\ Len(inbox) = 0 /\ Len(outbox) = 0
  BY <1>2 DEF Answering, Busy
<1>9. Occupied = {}
  <2>1. 0..queued - 1 = {}
    BY <1>2
  <2> QED BY <2>1 DEF Occupied
<1>10. Process
  BY <1>1, <1>2, <1>8 DEF Process, Alive
<1>11. Counted
  BY <1>1, <1>8 DEF Counted, Alive, Awaited
<1>12. Traffic
  BY <1>8, <1>9 DEF Traffic
<1>13. Opened
  BY <1>1, <1>2 DEF Opened, OnlyBrokenHoldsEnded, HolderIn
<1> QED BY <1>3, <1>5, <1>7, <1>10, <1>11, <1>12, <1>13 DEF IInv

LEMMA InvHolds == Spec => []IInv
<1>1. IInv /\ [Next]_vars => IInv'
  BY StepKeepsInv
<1> QED BY InvStarts, <1>1, PTL DEF Spec

-----------------------------------------------------------------------------
(* Theorems.                                                                 *)

(* Host and process agree, however many calls, cancels, crashes and restarts *)
(* there were: while the extension counts as sound its pipes and its process *)
(* hold exactly what the holder of transport_mutex waits for, so that        *)
(* receive_message never reads the answer to another call, and a mark of     *)
(* cancellation is on no call but the one whose thread asked for it.         *)
THEOREM HostAndProcessAgree == Spec => []Agreed
<1>1. IInv => Agreed
  <2> SUFFICES ASSUME IInv
               PROVE  Agreed
    OBVIOUS
  <2>1. ServerInv /\ HostType /\ Process /\ Counted /\ Traffic
    BY DEF IInv
  <2>2. TypeOK
    BY <2>1 DEF TypeOK, HostType, ServerInv
  <2>3. InStep
    <3>1. Alive => Outstanding = Awaited
      BY <2>1 DEF Counted
    <3>2. CASE Alive
      BY <3>1, <3>2 DEF InStep, Awaited
    <3>3. CASE ~Alive
      <4>1. inbox = <<>> /\ queued = 0 /\ Answering = {} /\ Len(outbox) <= Awaited
        BY <2>1, <3>3 DEF Process, Counted
      <4>2. Len(inbox) = 0
        BY <4>1
      <4>3. Asking = {}
        BY <4>2 DEF Asking
      <4>4. Outstanding = Len(outbox)
        <5>1. Cardinality(Asking) = 0 /\ Cardinality(Answering) = 0
          BY <4>1, <4>3, FS_EmptySet
        <5>2. /\ Len(outbox) \in Nat
              /\ Outstanding = Cardinality(Asking) + queued + Cardinality(Answering) + Len(outbox)
          BY <2>1, Counts
        <5> QED BY <4>1, <5>1, <5>2
      <4> QED BY <3>3, <4>1, <4>4 DEF InStep
    <3> QED BY <3>2, <3>3
  <2>4. CancelHitsItsCall
    BY <2>1 DEF CancelHitsItsCall, Traffic, OwnCall, HolderIn
  <2> QED BY <2>2, <2>3, <2>4 DEF Agreed
<1> QED BY InvHolds, <1>1, PTL

(* The end of a scope finds no call of that scope in the process, whose      *)
(* session db_scope_end would pass over; a scope that ended leaves nothing   *)
(* open unless the extension is broken; and no call is sent to a process     *)
(* that still holds a resource of an ended scope.                            *)
THEOREM ScopesEndInOrder == Spec => []ScopesEnd
<1>1. IInv => ScopesEnd
  <2> SUFFICES ASSUME IInv
               PROVE  ScopesEnd
    OBVIOUS
  <2>1. ServerInv /\ Counted /\ Locked /\ Opened
    BY DEF IInv
  <2>2. ScopeEndIsLast
    <3> SUFFICES ASSUME Reading("scope_end")
                 PROVE  Answering = {} /\ Occupied = {}
      BY DEF ScopeEndIsLast
    <3>1. Outstanding <= 1
      BY <2>1 DEF Counted, Awaited, Alive, Reading
    <3>2. 1 \in 1..Len(inbox) /\ inbox[1].type # "cancel"
      <4>1. inbox \in Seq(Message) /\ inbox # <<>> /\ Head(inbox).type = "scope_end"
        BY <2>1 DEF ServerInv, ServerType, Reading
      <4>2. Len(inbox) \in Nat \ {0} /\ Head(inbox) = inbox[1]
        BY <4>1
      <4> QED BY <4>1, <4>2
    <3> QED BY <2>1, <3>1, <3>2, OnlyMessage
  <2>3. OnlyBrokenHoldsEnded
    BY <2>1 DEF Opened
  <2>4. CallsMeetNoEnded
    BY <2>1, <2>3 DEF Locked, OnlyBrokenHoldsEnded, CallsMeetNoEnded
  <2> QED BY <2>2, <2>3, <2>4 DEF ScopesEnd
<1> QED BY InvHolds, <1>1, PTL
=============================================================================
