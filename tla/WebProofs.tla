------------------------------- MODULE WebProofs -------------------------------
(***************************************************************************)
(* Proofs about the web server, for every number of workers, open files    *)
(* and chunks.  What a worker holds follows from how far its request has   *)
(* come (Served), and the supervisor tells every worker to stop before it  *)
(* waits for them in their order (Supervised).                             *)
(***************************************************************************)
EXTENDS Web, TLAPS

Worker ==
    [state : {"none", "idle", "reading", "called", "head", "sending", "finish", "ended"},
     stop : BOOLEAN, failed : BOOLEAN, scope : BOOLEAN,
     streams : {0, 1}, temporaries : {0, 1}, files : 0..MaxFiles, lost : Nat,
     body : {"none", "bytes", "file", "stream"}, left : Nat,
     sent : {"nothing", "head", "end", "cut"}]

(* What a worker holds at each state of its request.                         *)
Served(w) ==
    /\ w.files = w.lost + BodyFiles(w)
    /\ w.state \in {"none", "idle", "reading", "ended"} =>
          w.streams = 0 /\ w.temporaries = 0 /\ ~w.scope
    /\ w.state = "head" => w.body # "none"
    /\ w.state = "sending" => w.body \in {"file", "stream"} /\ w.sent = "head"
    /\ w.body = "stream" /\ w.sent = "end" => w.left = 0 \/ w.failed
    /\ w.failed => w.state \in {"finish", "idle"}

(* While the supervisor waits, every worker that runs has been told to stop, *)
(* and each below the one waited for is reaped or its wait was cut short.    *)
Waited(i) ==
    /\ Running(i) => worker[i].stop
    /\ i < at => worker[i].state = "none" \/ i \in unwaited

Supervised ==
    /\ phase = "serving" => count = 1
    /\ phase = "waiting" => \A i \in Workers : Waited(i)
    /\ ReapedOrTold

Causes == {"", "stopped", "crash", "accept", "failed", "memory"}

SupervisorType ==
    /\ count \in {1, Most} /\ at \in 1..count + 1
    /\ phase \in {"starting", "watching", "waiting", "serving", "done"}
    /\ stop \in BOOLEAN /\ error \in BOOLEAN /\ unwaited \subseteq Workers

Inv ==
    /\ SupervisorType
    /\ worker \in [Workers -> Worker] /\ cause \in [Workers -> Causes]
    /\ \A i \in Workers : Served(worker[i])
    /\ Supervised

-----------------------------------------------------------------------------
(* The records.                                                              *)

LEMMA NoneServes == None \in Worker /\ Served(None) /\ None.state = "none" /\ None.body = "none"
BY WebAssumption DEF None, Worker, Served, BodyFiles

LEMMA EndedServes ==
    /\ [None EXCEPT !.state = "ended"] \in Worker
    /\ Served([None EXCEPT !.state = "ended"])
    /\ [None EXCEPT !.state = "ended"].state = "ended"
BY NoneServes DEF Worker, Served, BodyFiles

LEMMA ForkedServes ==
    ASSUME stop \in BOOLEAN
    PROVE  Forked \in Worker /\ Served(Forked) /\ Forked.state = "idle"
BY NoneServes DEF Forked, Worker, Served, BodyFiles

(* web_handle_request forgets the last answer and nothing else.              *)
LEMMA FreshRunEffect ==
    ASSUME NEW w \in Worker
    PROVE  /\ FreshRun(w) \in Worker
           /\ FreshRun(w).state = w.state /\ FreshRun(w).scope = w.scope
           /\ FreshRun(w).streams = w.streams /\ FreshRun(w).temporaries = w.temporaries
           /\ FreshRun(w).files = w.files /\ FreshRun(w).lost = w.lost
           /\ FreshRun(w).body = "none" /\ FreshRun(w).sent = "nothing"
           /\ FreshRun(w).stop = w.stop /\ FreshRun(w).failed = FALSE
BY DEF FreshRun, Worker

(* What an answer leaves to be sent.                                         *)
LEMMA AnswerEffect ==
    ASSUME NEW w \in Worker, Served(w), w.state = "called",
           NEW body \in {"bytes", "stream", "file"}, NEW left \in Nat, NEW failed \in BOOLEAN
    PROVE  /\ Answering(w, body, left) \in Worker
           /\ body # "file" => Served(Answering(w, body, left))
           /\ body = "file" /\ w.files < MaxFiles =>
                 /\ [Answering(w, body, left) EXCEPT !.files = @ + 1] \in Worker
                 /\ Served([Answering(w, body, left) EXCEPT !.files = @ + 1])
           /\ ServerError(w, failed) \in Worker /\ Served(ServerError(w, failed))
           /\ Answering(w, body, left).stop = w.stop /\ ServerError(w, failed).stop = w.stop
           /\ [Answering(w, body, left) EXCEPT !.files = @ + 1].stop = w.stop
<1> DEFINE f == FreshRun(w)
           a == [f EXCEPT !.state = "head", !.body = body, !.left = left]
           e == [f EXCEPT !.state = "finish", !.failed = failed, !.sent = "end"]
<1> HIDE DEF f
<1>1. /\ f \in Worker /\ f.files = f.lost /\ f.body = "none" /\ f.sent = "nothing"
      /\ f.stop = w.stop /\ ~f.failed
  <2>1. w.files = w.lost
    BY DEF Worker, Served, BodyFiles
  <2> QED BY <2>1, FreshRunEffect DEF f
<1>2. /\ a \in Worker /\ a.files = f.files /\ a.lost = f.lost
      /\ a.state = "head" /\ a.body = body /\ a.sent = "nothing"
      /\ a.stop = w.stop /\ ~a.failed
  BY <1>1 DEF Worker
<1>3. /\ e \in Worker /\ e.files = e.lost
      /\ e.state = "finish" /\ e.body = "none" /\ e.stop = w.stop
  BY <1>1 DEF Worker
<1>4. f.files = w.files
  BY FreshRunEffect DEF f
<1> HIDE DEF a, e
<1>5. body # "file" => Served(a)
  BY <1>1, <1>2 DEF Worker, Served, BodyFiles
<1>6. ASSUME body = "file", w.files < MaxFiles
      PROVE  [a EXCEPT !.files = @ + 1] \in Worker /\ Served([a EXCEPT !.files = @ + 1])
  BY <1>1, <1>2, <1>4, <1>6, WebAssumption DEF Worker, Served, BodyFiles
<1>7. Served(e)
  BY <1>3 DEF Worker, Served, BodyFiles
<1>8. Answering(w, body, left) = a /\ ServerError(w, failed) = e
  BY DEF Answering, ServerError, a, e, f
<1>9. [a EXCEPT !.files = @ + 1].stop = w.stop
  BY <1>2 DEF Worker
<1> QED BY <1>2, <1>3, <1>5, <1>6, <1>7, <1>8, <1>9

(* The end of a body gives back its file, or its streams.                    *)
LEMMA ClosedBodyEffect ==
    ASSUME NEW w \in Worker, Served(w), w.state = "sending"
    PROVE  /\ ClosedBody(w) \in Worker
           /\ ClosedBody(w).files = w.lost /\ ClosedBody(w).lost = w.lost
           /\ ClosedBody(w).left = w.left /\ ClosedBody(w).body = w.body
           /\ ClosedBody(w).stop = w.stop /\ ~ClosedBody(w).failed
<1>1. w.body \in {"file", "stream"} /\ w.files \in Nat /\ w.lost \in Nat
  BY WebAssumption DEF Worker, Served
<1>2. w.files = w.lost + (IF w.body = "file" THEN 1 ELSE 0)
  BY <1>1 DEF Served, BodyFiles
<1>3. ~w.failed
  BY DEF Served
<1> QED BY <1>1, <1>2, <1>3, WebAssumption DEF ClosedBody, Worker

(* A worker that is told to stop is otherwise as it was.                     *)
LEMMA ToldServes ==
    ASSUME NEW w \in Worker, Served(w)
    PROVE  /\ [w EXCEPT !.stop = TRUE] \in Worker /\ Served([w EXCEPT !.stop = TRUE])
           /\ [w EXCEPT !.stop = TRUE].state = w.state /\ [w EXCEPT !.stop = TRUE].stop
BY DEF Worker, Served, BodyFiles

(* So is every worker, whichever of them are signalled.                      *)
LEMMA SignalledServes ==
    ASSUME Inv, NEW S, count' = count, Signalled(S)
    PROVE  /\ worker' \in [Workers' -> Worker]
           /\ \A i \in Workers' :
                 /\ Served(worker'[i]) /\ worker'[i].state = worker[i].state
                 /\ worker[i].stop \/ (i \in S /\ Running(i)) => worker'[i].stop
<1>1. Workers' = Workers
  BY DEF Workers
<1>2. ASSUME NEW i \in Workers
      PROVE  /\ worker'[i] \in Worker /\ Served(worker'[i]) /\ worker'[i].state = worker[i].state
             /\ worker[i].stop \/ (i \in S /\ Running(i)) => worker'[i].stop
  BY ToldServes DEF Inv, Signalled
<1> QED BY <1>1, <1>2 DEF Signalled

LEMMA InitInv == Init => Inv
<1> SUFFICES ASSUME Init PROVE Inv
  OBVIOUS
<1>1. Forked \in Worker /\ Served(Forked)
  BY ForkedServes DEF Init
<1>2. worker \in [Workers -> Worker] /\ cause \in [Workers -> Causes]
  BY <1>1, NoneServes DEF Init, Causes
<1>3. \A i \in Workers : Served(worker[i])
  BY <1>1, NoneServes DEF Init
<1>4. SupervisorType
  <2>1. count \in {1, Most} /\ at = 1 /\ stop = FALSE /\ error = FALSE
    BY DEF Init
  <2>2. phase \in {"serving", "starting"}
    BY DEF Init
  <2>3. count \in Nat
    BY <2>1, WebAssumption
  <2>4. at \in 1..count + 1
    BY <2>1, <2>3
  <2>5. stop \in BOOLEAN /\ error \in BOOLEAN /\ unwaited \subseteq Workers
    BY <2>1 DEF Init
  <2> QED BY <2>1, <2>2, <2>4, <2>5 DEF SupervisorType
<1>5. Supervised
  BY DEF Init, Supervised, ReapedOrTold
<1> QED BY <1>2, <1>3, <1>4, <1>5 DEF Inv

-----------------------------------------------------------------------------
(* What a worker does.                                                       *)

(* A step of worker i alone, which was running and does not forget a stop.   *)
StepOf(i) ==
    /\ Running(i) /\ KeepSupervisor
    /\ \E w \in Worker :
          /\ Served(w) /\ (w.state = "ended" \/ (worker[i].stop => w.stop))
          /\ worker' = [worker EXCEPT ![i] = w]
    /\ cause' \in [Workers -> Causes]

LEMMA StepPreserves ==
    ASSUME Inv, NEW i \in Workers, StepOf(i)
    PROVE  Inv'
<1>1. Workers' = Workers
  BY DEF StepOf, KeepSupervisor, Workers
<1>2. PICK w \in Worker : /\ Served(w) /\ (w.state = "ended" \/ (worker[i].stop => w.stop))
                          /\ worker' = [worker EXCEPT ![i] = w]
  BY DEF StepOf
<1>3. worker' \in [Workers' -> Worker] /\ cause' \in [Workers' -> Causes]
  BY <1>1, <1>2 DEF Inv, StepOf
<1>4. \A j \in Workers' : Served(worker'[j])
  BY <1>1, <1>2 DEF Inv
<1>5. SupervisorType'
  BY <1>1, <1>3 DEF Inv, SupervisorType, StepOf, KeepSupervisor
<1>6. Supervised'
  <2>1. /\ count' = count /\ phase' = phase /\ at' = at /\ unwaited' = unwaited
        /\ worker[i].state # "none"
    BY DEF StepOf, Running, KeepSupervisor
  <2>2. ASSUME NEW j \in Workers, Running(j) => worker[j].stop
        PROVE  (Running(j) => worker[j].stop)'
    BY <1>2, <2>2 DEF Inv, Running, StepOf
  <2>3. ASSUME NEW j \in Workers, worker[j].state = "none"
        PROVE  worker'[j].state = "none"
    BY <1>2, <2>1, <2>3 DEF Inv
  <2>4. ASSUME NEW j \in Workers, Waited(j) PROVE Waited(j)'
    BY <2>1, <2>2, <2>3, <2>4 DEF Waited
  <2>5. ReapedOrTold'
    BY <1>1, <2>1, <2>2, <2>3 DEF Inv, Supervised, ReapedOrTold
  <2> QED BY <1>1, <2>1, <2>4, <2>5 DEF Inv, Supervised
<1> QED BY <1>3, <1>4, <1>5, <1>6 DEF Inv

LEMMA BecomesIsStep ==
    ASSUME Inv, NEW i \in Workers, NEW w \in Worker, Served(w), w.stop = worker[i].stop,
           Running(i), KeepSupervisor, Becomes(i, w)
    PROVE  StepOf(i)
BY DEF Inv, Becomes, StepOf

LEMMA EndsIsStep ==
    ASSUME Inv, NEW i \in Workers, NEW why \in Causes,
           Running(i), KeepSupervisor, EndsWorker(i, why)
    PROVE  StepOf(i)
BY EndedServes DEF Inv, EndsWorker, StepOf

(* Until a request is read, and where a worker ends.                         *)
LEMMA BetweenRequests ==
    ASSUME Inv, NEW i \in Workers,
           Leave(i) \/ RefuseRequest(i) \/ ReadRequest(i) \/ OutOfMemory(i) \/ Environment(i)
    PROVE  StepOf(i)
<1>0. worker[i] \in Worker /\ Served(worker[i])
  BY DEF Inv
<1>1. CASE Leave(i)
  <2>1. Running(i)
    BY <1>1 DEF Leave, In, Running
  <2> QED BY <1>1, <2>1, EndsIsStep DEF Leave, In, Causes
<1>2. CASE RefuseRequest(i)
  <2>1. Running(i)
    BY <1>2 DEF RefuseRequest, In, Running
  <2>2. /\ [worker[i] EXCEPT !.state = "idle"] \in Worker
        /\ Served([worker[i] EXCEPT !.state = "idle"])
        /\ [worker[i] EXCEPT !.state = "idle"].stop = worker[i].stop
    BY <1>0, <1>2 DEF RefuseRequest, In, Worker, Served, BodyFiles
  <2> QED BY <1>2, <2>1, <2>2, BecomesIsStep DEF RefuseRequest, In
<1>3. CASE ReadRequest(i)
  <2>1. Running(i)
    BY <1>3 DEF ReadRequest, In, Running
  <2>2. /\ [worker[i] EXCEPT !.state = "called", !.scope = TRUE] \in Worker
        /\ Served([worker[i] EXCEPT !.state = "called", !.scope = TRUE])
        /\ [worker[i] EXCEPT !.state = "called", !.scope = TRUE].stop = worker[i].stop
    BY <1>0, <1>3 DEF ReadRequest, In, Worker, Served, BodyFiles
  <2> QED BY <1>3, <2>1, <2>2, BecomesIsStep DEF ReadRequest, In
<1>4. CASE OutOfMemory(i)
  <2>1. Running(i)
    BY <1>4 DEF OutOfMemory, In, Running
  <2> QED BY <1>4, <2>1, EndsIsStep DEF OutOfMemory, In, Causes
<1>5. CASE Accept(i)
  <2>1. Running(i)
    BY <1>5 DEF Accept, In, Running
  <2>2. /\ [worker[i] EXCEPT !.state = "reading"] \in Worker
        /\ Served([worker[i] EXCEPT !.state = "reading"])
        /\ [worker[i] EXCEPT !.state = "reading"].stop = worker[i].stop
    BY <1>0, <1>5 DEF Accept, In, Worker, Served, BodyFiles
  <2> QED BY <1>5, <2>1, <2>2, BecomesIsStep DEF Accept, In
<1>6. CASE AcceptFails(i)
  <2>1. Running(i)
    BY <1>6 DEF AcceptFails, In, Running
  <2> QED BY <1>6, <2>1, EndsIsStep DEF AcceptFails, In, Causes
<1>7. CASE Crash(i)
  BY <1>7, EndsIsStep DEF Crash, Causes
<1>8. CASE Signal(i)
  <2>1. worker' = [worker EXCEPT ![i] = [worker[i] EXCEPT !.stop = TRUE]]
    BY <1>8 DEF Signal, Signalled, Inv
  <2>2. /\ [worker[i] EXCEPT !.stop = TRUE] \in Worker
        /\ Served([worker[i] EXCEPT !.stop = TRUE]) /\ [worker[i] EXCEPT !.stop = TRUE].stop
    BY <1>0, ToldServes
  <2> QED BY <1>8, <2>1, <2>2 DEF Signal, StepOf, Inv
<1> QED BY <1>1, <1>2, <1>3, <1>4, <1>5, <1>6, <1>7, <1>8 DEF Environment

(* The answer to a request is found.                                         *)
LEMMA Answers ==
    ASSUME Inv, NEW i \in Workers, AnswerItself(i) \/ AnswerStatic(i) \/ AnswerByHandler(i)
    PROVE  StepOf(i)
<1>0. /\ worker[i] \in Worker /\ Served(worker[i])
      /\ worker[i].state = "called" /\ worker[i].files = worker[i].lost
      /\ Running(i) /\ KeepSupervisor
  <2>1. worker[i].state = "called" /\ KeepSupervisor
    BY DEF AnswerItself, AnswerStatic, AnswerByHandler, In
  <2>2. worker[i] \in Worker /\ Served(worker[i])
    BY DEF Inv
  <2>3. worker[i].files = worker[i].lost
    BY <2>1, <2>2 DEF Worker, Served, BodyFiles
  <2> QED BY <2>1, <2>2, <2>3 DEF Running
<1> DEFINE Ran(s, t) == [worker[i] EXCEPT !.streams = s, !.temporaries = t]
<1>1. ASSUME NEW s \in 0..1, NEW t \in 0..1
      PROVE  /\ Ran(s, t) \in Worker /\ Served(Ran(s, t)) /\ Ran(s, t).state = "called"
             /\ Ran(s, t).stop = worker[i].stop
  <2>1. s \in {0, 1} /\ t \in {0, 1}
    BY <1>1
  <2> DEFINE r == Ran(s, t)
  <2>2. /\ r \in Worker /\ r.state = "called" /\ r.files = worker[i].files
        /\ r.lost = worker[i].lost /\ r.body = worker[i].body /\ r.sent = worker[i].sent
        /\ r.left = worker[i].left /\ r.failed = worker[i].failed /\ r.stop = worker[i].stop
    BY <1>0, <2>1 DEF Worker
  <2> HIDE DEF r
  <2>3. Served(r)
    BY <1>0, <2>2 DEF Worker, Served, BodyFiles
  <2> QED BY <2>2, <2>3 DEF r
<1>2. CASE AnswerItself(i)
  <2>1. /\ Answering(worker[i], "bytes", 0) \in Worker
        /\ Served(Answering(worker[i], "bytes", 0))
        /\ Answering(worker[i], "bytes", 0).stop = worker[i].stop
    BY <1>0, AnswerEffect
  <2> QED BY <1>0, <1>2, <2>1, BecomesIsStep DEF AnswerItself
<1>3. CASE AnswerStatic(i)
  <2>1. /\ Answering(worker[i], "bytes", 0) \in Worker
        /\ Served(Answering(worker[i], "bytes", 0))
        /\ Answering(worker[i], "bytes", 0).stop = worker[i].stop
        /\ ServerError(worker[i], TRUE) \in Worker
        /\ Served(ServerError(worker[i], TRUE)) /\ ServerError(worker[i], TRUE).stop = worker[i].stop
    BY <1>0, AnswerEffect
  <2>2. worker[i].files < MaxFiles =>
           /\ [Answering(worker[i], "file", Chunks) EXCEPT !.files = @ + 1] \in Worker
           /\ Served([Answering(worker[i], "file", Chunks) EXCEPT !.files = @ + 1])
           /\ [Answering(worker[i], "file", Chunks) EXCEPT !.files = @ + 1].stop = worker[i].stop
    BY <1>0, AnswerEffect, WebAssumption
  <2> QED BY <1>0, <1>3, <2>1, <2>2, BecomesIsStep DEF AnswerStatic
<1>4. CASE AnswerByHandler(i)
  <2>1. PICK s \in 0..1, t \in 0..1 :
           \/ Becomes(i, Answering(Ran(s, t), "bytes", 0))
           \/ Becomes(i, ServerError(Ran(s, t), FALSE))
           \/ Becomes(i, Answering(Ran(s, t), "stream", Chunks))
    BY <1>4, Zenon DEF AnswerByHandler
  <2>2. /\ Ran(s, t) \in Worker /\ Served(Ran(s, t)) /\ Ran(s, t).state = "called"
        /\ Ran(s, t).stop = worker[i].stop
    BY <1>1
  <2> HIDE DEF Ran
  <2>3. /\ Answering(Ran(s, t), "bytes", 0) \in Worker
        /\ Served(Answering(Ran(s, t), "bytes", 0))
        /\ Answering(Ran(s, t), "stream", Chunks) \in Worker
        /\ Served(Answering(Ran(s, t), "stream", Chunks))
        /\ ServerError(Ran(s, t), FALSE) \in Worker
        /\ Served(ServerError(Ran(s, t), FALSE))
        /\ Answering(Ran(s, t), "bytes", 0).stop = worker[i].stop
        /\ Answering(Ran(s, t), "stream", Chunks).stop = worker[i].stop
        /\ ServerError(Ran(s, t), FALSE).stop = worker[i].stop
    BY <2>2, AnswerEffect, WebAssumption
  <2> QED BY <1>0, <2>1, <2>3, BecomesIsStep
<1> QED BY <1>2, <1>3, <1>4

(* What is sent, and the end of the request.                                 *)
LEMMA Responds ==
    ASSUME Inv, NEW i \in Workers, Respond(i)
    PROVE  StepOf(i)
<1>0. worker[i] \in Worker /\ Served(worker[i]) /\ Running(i) /\ KeepSupervisor
  BY DEF Inv, Respond, SendHead, SendHeadFails, EmptyChunk, SendChunk, SendChunkFails,
         SendEnd, StreamFails, Finish, In, Running
<1>1. CASE SendHead(i)
  <2> DEFINE w == IF worker[i].body = "bytes"
                  THEN [worker[i] EXCEPT !.state = "finish", !.sent = "end"]
                  ELSE [worker[i] EXCEPT !.state = "sending", !.sent = "head"]
  <2>1. w \in Worker /\ Served(w) /\ w.stop = worker[i].stop
    BY <1>0, <1>1 DEF In, Worker, Served, BodyFiles, SendHead
  <2> HIDE DEF w
  <2> QED BY <1>0, <1>1, <2>1, BecomesIsStep DEF w, SendHead
<1>2. CASE SendHeadFails(i)
  <2> DEFINE l == IF worker[i].body = "file" THEN worker[i].lost + 1 ELSE worker[i].lost
             w == [worker[i] EXCEPT !.state = "finish", !.sent = "cut", !.lost = l]
  <2>0. worker[i].state = "head" /\ worker[i].files = worker[i].lost + BodyFiles(worker[i])
    BY <1>0, <1>2 DEF In, Served, SendHeadFails
  <2>1. l \in Nat /\ worker[i].files = l
    BY <1>0, <2>0 DEF Worker, BodyFiles
  <2> HIDE DEF l
  <2>3. /\ w \in Worker /\ w.state = "finish" /\ w.sent = "cut" /\ w.files = w.lost
        /\ w.stop = worker[i].stop
    BY <1>0, <2>1 DEF Worker
  <2> HIDE DEF w
  <2>2. Served(w)
    BY <2>3 DEF Worker, Served, BodyFiles
  <2> QED BY <1>0, <1>2, <2>3, <2>2, BecomesIsStep DEF w, l, SendHeadFails
<1>3. CASE EmptyChunk(i) \/ SendChunk(i)
  <2> DEFINE w == [worker[i] EXCEPT !.left = @ - 1]
  <2>1. w \in Worker /\ Served(w) /\ w.stop = worker[i].stop
    BY <1>0, <1>3 DEF In, Worker, Served, BodyFiles, EmptyChunk, SendChunk
  <2> HIDE DEF w
  <2> QED BY <1>0, <1>3, <2>1, BecomesIsStep DEF w, EmptyChunk, SendChunk
<1>4. CASE SendChunkFails(i)
  <2> DEFINE c == ClosedBody(worker[i])
             w == [c EXCEPT !.state = "finish", !.sent = "cut"]
  <2>1. worker[i].state = "sending"
    BY <1>4 DEF SendChunkFails, In
  <2>2. c \in Worker /\ c.files = c.lost /\ c.stop = worker[i].stop /\ ~c.failed
    BY <1>0, <2>1, ClosedBodyEffect
  <2> HIDE DEF c
  <2>3. /\ w \in Worker /\ w.state = "finish" /\ w.files = w.lost /\ w.sent = "cut"
        /\ w.stop = worker[i].stop
    BY <2>2 DEF Worker
  <2> HIDE DEF w
  <2>5. Served(w)
    BY <2>3 DEF Worker, Served, BodyFiles
  <2> QED BY <1>0, <1>4, <2>3, <2>5, BecomesIsStep DEF c, w, SendChunkFails
<1>5. CASE SendEnd(i)
  <2> DEFINE c == ClosedBody(worker[i])
             w == [c EXCEPT !.state = "finish", !.sent = "end"]
  <2>1. worker[i].state = "sending"
    BY <1>5 DEF SendEnd, In
  <2>2. c \in Worker /\ c.files = c.lost /\ c.stop = worker[i].stop /\ ~c.failed
    BY <1>0, <2>1, ClosedBodyEffect
  <2> HIDE DEF c
  <2>3. /\ w \in Worker /\ w.state = "finish" /\ w.files = w.lost /\ w.left = c.left /\ w.body = c.body
        /\ w.stop = worker[i].stop
    BY <2>2 DEF Worker
  <2>4. c.body = "stream" => c.left = 0
    BY <1>0, <1>5, <2>1, ClosedBodyEffect DEF c, SendEnd
  <2> HIDE DEF w
  <2>5. Served(w)
    BY <2>3, <2>4 DEF Worker, Served, BodyFiles
  <2> QED BY <1>0, <1>5, <2>3, <2>5, BecomesIsStep DEF c, w, SendEnd
<1>6. CASE StreamFails(i)
  <2> DEFINE c == ClosedBody(worker[i])
             w == [c EXCEPT !.state = "finish", !.failed = TRUE, !.sent = "end"]
  <2>1. worker[i].state = "sending"
    BY <1>6 DEF StreamFails, In
  <2>2. c \in Worker /\ c.files = c.lost /\ c.stop = worker[i].stop /\ ~c.failed
    BY <1>0, <2>1, ClosedBodyEffect
  <2> HIDE DEF c
  <2>3. /\ w \in Worker /\ w.state = "finish" /\ w.files = w.lost /\ w.failed
        /\ w.stop = worker[i].stop
    BY <2>2 DEF Worker
  <2> HIDE DEF w
  <2>5. Served(w)
    BY <2>3 DEF Worker, Served, BodyFiles
  <2> QED BY <1>0, <1>6, <2>3, <2>5, BecomesIsStep DEF c, w, StreamFails
<1>7. CASE Finish(i)
  <2> DEFINE w == [FreshRun(worker[i]) EXCEPT !.state = "idle", !.failed = worker[i].failed,
                      !.streams = 0, !.temporaries = 0, !.scope = FALSE]
  <2>1. w \in Worker /\ Served(w) /\ w.stop = worker[i].stop
    BY <1>0, <1>7 DEF In, Worker, Served, BodyFiles, Finish, FreshRun
  <2> HIDE DEF w
  <2> QED BY <1>0, <1>7, <2>1, BecomesIsStep DEF w, Finish
<1> QED BY <1>1, <1>2, <1>3, <1>4, <1>5, <1>6, <1>7 DEF Respond

-----------------------------------------------------------------------------
(* What the supervisor does.                                                 *)

LEMMA SupervisePreserves == ASSUME Inv, Supervise PROVE Inv'
<1> USE DEF Inv
<1>0. count \in Nat \ {0} /\ at \in 1..count + 1 /\ stop \in BOOLEAN
  BY WebAssumption DEF SupervisorType
<1>f. Forked \in Worker /\ Served(Forked)
  BY <1>0, ForkedServes
<1>1. CASE Start
  <2>1. worker' = [worker EXCEPT ![at] = Forked] /\ count' = count
    BY <1>1 DEF Start
  <2>2. worker' \in [Workers' -> Worker] /\ cause' \in [Workers' -> Causes]
    BY <1>1, <2>1, <1>f DEF Start, Workers
  <2>3. \A i \in Workers' : Served(worker'[i])
    BY <1>1, <2>1, <1>f DEF Start, Workers
  <2>4. SupervisorType'
    BY <1>0, <1>1, <2>2 DEF Start, SupervisorType, Workers
  <2>5. Supervised'
    BY <1>1 DEF Start, Supervised, ReapedOrTold
  <2> QED BY <2>2, <2>3, <2>4, <2>5
<1>2. CASE StartFails \/ (Again /\ stop)
  <2>1. /\ Kill /\ count' = count /\ UNCHANGED <<stop, cause, unwaited>> /\ error' \in BOOLEAN
        /\ Workers' = Workers
    BY <1>2 DEF StartFails, Again, SupervisorType, Workers
  <2>2. /\ worker' \in [Workers' -> Worker]
        /\ \A i \in Workers' :
              /\ Served(worker'[i]) /\ worker'[i].state = worker[i].state
              /\ Running(i) => worker'[i].stop
    BY <2>1, SignalledServes DEF Kill
  <2>3. cause' \in [Workers' -> Causes]
    BY <2>1 DEF Workers
  <2>4. SupervisorType'
    BY <1>0, <2>1, <2>2, <2>3 DEF Kill, SupervisorType, Workers
  <2>5. Supervised'
    <3>1. phase' = "waiting" /\ at' = 1
      BY <2>1 DEF Kill
    <3>2. ASSUME NEW i \in Workers PROVE Waited(i)'
      BY <2>1, <2>2, <3>1 DEF Waited, Running, Workers
    <3> QED BY <2>1, <3>1, <3>2 DEF Supervised, ReapedOrTold
  <2> QED BY <2>1, <2>2, <2>3, <2>4, <2>5
<1>3. CASE Restart
  <2>1. worker' = [worker EXCEPT ![at] = Forked] /\ count' = count
    BY <1>3 DEF Restart
  <2>2. worker' \in [Workers' -> Worker] /\ cause' \in [Workers' -> Causes]
    BY <1>3, <2>1, <1>f DEF Restart, Workers, Causes
  <2>3. \A i \in Workers' : Served(worker'[i])
    BY <1>3, <2>1, <1>f DEF Restart, Workers
  <2>4. SupervisorType'
    <3>1. at' \in 1..count + 1
      <4>1. at \in Workers /\ at' = at + 1
        BY <1>3 DEF Restart
      <4> QED BY <1>0, <4>1 DEF Workers
    <3> QED BY <1>3, <3>1 DEF Restart, SupervisorType, Workers
  <2>5. Supervised'
    BY <1>3 DEF Restart, Supervised, ReapedOrTold
  <2> QED BY <2>2, <2>3, <2>4, <2>5
<1>4. CASE RestartFails
  <2>1. count' = count /\ Workers' = Workers
    BY <1>4 DEF RestartFails, Workers
  <2>2. \A i \in Workers' : worker'[i] \in Worker /\ Served(worker'[i])
    BY <1>4, <2>1, NoneServes, ToldServes DEF RestartFails
  <2>3. worker' \in [Workers' -> Worker] /\ cause' \in [Workers' -> Causes]
    BY <1>4, <2>1, <2>2 DEF RestartFails, Causes
  <2>4. SupervisorType'
    <3>1. at' \in 1..count + 1
      <4>1. at' = 1
        BY <1>4 DEF RestartFails
      <4> QED BY <1>0, <4>1
    <3> QED BY <1>4, <3>1 DEF RestartFails, SupervisorType, Workers
  <2>5. Supervised'
    <3>1. phase' = "waiting" /\ at' = 1
      BY <1>4 DEF RestartFails
    <3>2. ASSUME NEW i \in Workers PROVE Waited(i)'
      <4>1. ~(i < at')
        BY <3>1 DEF Workers
      <4>2. worker'[i].state \in {"none", "ended"} \/ worker'[i].stop
        BY <1>4, <3>2, NoneServes, ToldServes DEF RestartFails, Running
      <4> QED BY <4>1, <4>2 DEF Waited, Running
    <3> QED BY <2>1, <3>1, <3>2 DEF Supervised, ReapedOrTold
  <2> QED BY <2>2, <2>3, <2>4, <2>5
<1>5. CASE Pass \/ (Again /\ ~stop) \/ Done
  <2>1. UNCHANGED <<count, stop, error, worker, cause, unwaited>>
    BY <1>5 DEF Pass, Again, Done
  <2>2. SupervisorType'
    <3>1. phase' \in {"waiting", "watching", "done"} /\ at' \in 1..count + 1
      BY <1>0, <1>5 DEF Pass, Again, Done, SupervisorType, Workers
    <3> QED BY <2>1, <3>1 DEF SupervisorType, Workers
  <2>3. Supervised'
    <3>1. CASE phase' = "watching"
      BY <3>1 DEF Supervised, ReapedOrTold
    <3>2. CASE Done
      <4>1. phase' = "done" /\ Workers' = Workers
        BY <2>1, <3>2 DEF Done, Workers
      <4>2. ASSUME phase = "waiting", at \notin Workers, NEW i \in Workers
            PROVE  \/ worker[i].state = "none"
                   \/ i \in unwaited /\ (Running(i) => worker[i].stop)
        <5>1. i < at
          BY <1>0, <4>2 DEF Workers
        <5> QED BY <4>2, <5>1 DEF Supervised, Waited
      <4>3. count' = count /\ (phase = "serving" => count = 1)
        BY <2>1 DEF Supervised
      <4> QED BY <2>1, <3>2, <4>1, <4>2, <4>3 DEF Done, Supervised, ReapedOrTold, Running
    <3> QED BY <1>5, <3>1, <3>2 DEF Pass, Again
  <2> QED BY <2>1, <2>2, <2>3 DEF Workers
<1>6. CASE Reap
  <2>1. worker' = [worker EXCEPT ![at] = None] /\ count' = count
    BY <1>6 DEF Reap
  <2>2. worker' \in [Workers' -> Worker] /\ cause' \in [Workers' -> Causes]
    BY <1>6, <2>1, NoneServes DEF Reap, Workers
  <2>3. \A i \in Workers' : Served(worker'[i])
    BY <1>6, <2>1, NoneServes DEF Reap, Workers
  <2>4. SupervisorType'
    BY <1>0, <1>6, <2>2 DEF Reap, SupervisorType, Workers
  <2>5. Supervised'
    <3>1. /\ phase = "waiting" /\ phase' = phase /\ at \in Workers /\ at' = at + 1
          /\ unwaited' = unwaited /\ Workers' = Workers
      BY <1>6 DEF Reap, Workers
    <3>2. ASSUME NEW i \in Workers PROVE Waited(i)'
      <4>1. CASE i = at
        BY <2>1, <4>1, NoneServes DEF Waited, Running
      <4>2. CASE i # at
        <5>1. i < at' => i < at
          BY <1>0, <3>1, <4>2 DEF Workers
        <5>2. worker'[i] = worker[i] /\ Waited(i)
          BY <2>1, <3>1, <4>2 DEF Supervised
        <5> QED BY <3>1, <5>1, <5>2 DEF Waited, Running
      <4> QED BY <4>1, <4>2
    <3> QED BY <3>1, <3>2 DEF Supervised, ReapedOrTold
  <2> QED BY <2>2, <2>3, <2>4, <2>5
<1> QED BY <1>1, <1>2, <1>3, <1>4, <1>5, <1>6 DEF Supervise

(* A signal to the group reaches the workers; one to the supervisor does not,*)
(* but may cut its wait short.                                               *)
LEMMA InterruptPreserves == ASSUME Inv, Interrupt PROVE Inv'
<1>1. /\ count' = count /\ UNCHANGED <<phase, error, cause>> /\ stop' = TRUE
      /\ Workers' = Workers
  BY DEF Interrupt, Workers
<1>2. /\ worker' \in [Workers' -> Worker]
      /\ \A i \in Workers' : /\ Served(worker'[i]) /\ worker'[i].state = worker[i].state
                             /\ worker[i].stop => worker'[i].stop
  BY <1>1, SignalledServes DEF Interrupt, Inv
<1>3. UNCHANGED <<at, unwaited>> \/ WaitCut
  BY DEF Interrupt
<1>4. SupervisorType'
  <2>1. at' \in 1..count + 1 /\ unwaited' \subseteq Workers
    <3>1. CASE UNCHANGED <<at, unwaited>>
      BY <3>1 DEF Inv, SupervisorType
    <3>2. CASE WaitCut
      <4>1. count \in Nat
        BY WebAssumption DEF Inv, SupervisorType
      <4> QED BY <3>2, <4>1 DEF Inv, SupervisorType, WaitCut, Workers
    <3> QED BY <1>3, <3>1, <3>2
  <2> QED BY <1>1, <2>1 DEF Inv, SupervisorType
<1>5. ASSUME NEW i \in Workers, phase = "waiting", Waited(i)
      PROVE  Waited(i)'
  <2>1. (Running(i) => worker[i].stop)'
    BY <1>1, <1>2, <1>5 DEF Waited, Running
  <2>2. i < at' => i < at \/ i \in unwaited'
    <3>1. CASE UNCHANGED <<at, unwaited>>
      BY <3>1
    <3>2. CASE WaitCut
      <4>1. count \in Nat
        BY WebAssumption DEF Inv, SupervisorType
      <4> QED BY <3>2, <4>1 DEF WaitCut, Workers
    <3> QED BY <1>3, <3>1, <3>2
  <2>3. unwaited \subseteq unwaited'
    BY <1>3 DEF WaitCut
  <2> QED BY <1>1, <1>2, <1>5, <2>1, <2>2, <2>3 DEF Waited
<1>6. Supervised'
  BY <1>1, <1>5 DEF Inv, Supervised, ReapedOrTold, Interrupt
<1> QED BY <1>1, <1>2, <1>4, <1>6 DEF Inv

LEMMA Inductive == ASSUME Inv, [Next]_vars PROVE Inv'
<1>1. ASSUME NEW i \in Workers, Serve(i) \/ Environment(i)
      PROVE  Inv'
  <2>1. StepOf(i)
    BY <1>1, BetweenRequests, Answers, Responds DEF Serve, Answer
  <2> QED BY <2>1, StepPreserves
<1>2. CASE UNCHANGED vars
  BY <1>2 DEF vars, Inv, SupervisorType, Supervised, Waited, ReapedOrTold, Running, Workers
<1> QED BY <1>1, <1>2, SupervisePreserves, InterruptPreserves DEF Next

LEMMA Invariance == Spec => []Inv
<1> QED BY InitInv, Inductive, PTL DEF Spec

-----------------------------------------------------------------------------
(* Whatever fails on the way, a worker counts as open exactly the file of    *)
(* the body it sends and those of bodies whose head could not be sent,       *)
(* between requests it holds no stream, temporary file or extension scope,   *)
(* and no request begins with an earlier one's error (web_server.c:160-170,  *)
(* 266-272; runtime.c:5824-5842).                                            *)
THEOREM RequestsLeaveWorkersClean == Spec => []CleanBetweenRequests
<1>1. Inv => TypeOK
  <2>1. Inv => count \in Nat /\ at \in 0..count + 1
    BY WebAssumption DEF Inv, SupervisorType
  <2>2. ASSUME Inv, NEW i \in Workers
        PROVE  worker[i] \in Worker /\ cause[i] \in Causes
    BY <2>2 DEF Inv
  <2> QED BY <2>1, <2>2 DEF Inv, SupervisorType, Worker, Causes, TypeOK
<1>2. Inv => RequestsLeaveNothing
  BY DEF Inv, Worker, Served, BodyFiles, RequestsLeaveNothing
<1> QED BY <1>1, <1>2, Invariance, PTL DEF CleanBetweenRequests

(* A streamed body that ends short is the last its worker sends: the stream  *)
(* has failed or was cancelled, and the worker with its error takes no other *)
(* client (web_server.c:176-188, runtime.c:5707).                            *)
THEOREM ShortEndsAreLast == Spec => []ShortEndIsLast
<1>1. Inv => ShortEndIsLast
  BY DEF Inv, Served, ShortEndIsLast
<1> QED BY <1>1, Invariance, PTL

(* No number of workers that end, restart, are stopped and signalled in any  *)
(* order lets the server return before each is reaped, but for those whose   *)
(* wait a signal cut short, and these are told to stop                       *)
(* (web_server.c:337-376).                                                   *)
THEOREM WorkersAreReapedOrTold == Spec => []ReapedOrTold
<1>1. Inv => ReapedOrTold
  BY DEF Inv, Supervised
<1> QED BY <1>1, Invariance, PTL
=============================================================================
