---------------------------------- MODULE Web ----------------------------------
(***************************************************************************)
(* The web server (src/web_server.c) with the request handling of the      *)
(* runtime (src/runtime.c): a supervisor that forks its workers, forks     *)
(* ended ones again and stops them all; and workers, each a process with   *)
(* a runtime of its own, that serve one client at a time.                  *)
(***************************************************************************)
EXTENDS Integers, Sequences

CONSTANTS
    Most,       \* options->workers, when it is not 1: one serves in the process itself
    MaxFiles,   \* RuntimeLimits.max_open_files
    Chunks      \* bound: chunks of a streamed body

ASSUME WebAssumption ==
    Most \in 1..64 /\ MaxFiles \in Nat /\ Chunks \in Nat

VARIABLES
    count,      \* of workers
    phase, at,  \* of the supervisor, and the worker it has come to
    stop,       \* should_stop in the supervisor: a signal, or a changed source
    error,      \* *error is set
    worker,     \* its processes
    cause,      \* auxiliary: why each worker has ended
    unwaited    \* auxiliary: workers whose wait a signal has cut short

vars == <<count, phase, at, stop, error, worker, cause, unwaited>>

Workers == 1..count

None == [state |-> "none", stop |-> FALSE, failed |-> FALSE, scope |-> FALSE,
         streams |-> 0, temporaries |-> 0, files |-> 0, lost |-> 0,
         body |-> "none", left |-> 0, sent |-> "nothing"]

(* The reader of a static file is open from the answer until its last chunk. *)
BodyFiles(w) == IF w.state \in {"head", "sending"} /\ w.body = "file" THEN 1 ELSE 0

(* fork: the child has the flag its parent has.                              *)
Forked == [None EXCEPT !.state = "idle", !.stop = stop]

TypeOK ==
    /\ count \in {1, Most} /\ at \in 0..count + 1
    /\ phase \in {"starting", "watching", "waiting", "serving", "done"}
    /\ stop \in BOOLEAN /\ error \in BOOLEAN /\ unwaited \subseteq Workers
    /\ \A i \in Workers :
          /\ worker[i].state \in {"none", "idle", "reading", "called", "head", "sending", "finish", "ended"}
          /\ worker[i].sent \in {"nothing", "head", "end", "cut"}
          /\ worker[i].files \in 0..MaxFiles
          /\ cause[i] \in {"", "stopped", "crash", "accept", "failed", "memory"}

Init ==
    /\ count \in {1, Most}
    /\ phase = (IF count = 1 THEN "serving" ELSE "starting")
    /\ at = 1 /\ stop = FALSE /\ error = FALSE
    /\ worker = [i \in Workers |-> IF count = 1 THEN Forked ELSE None]
    /\ cause = [i \in Workers |-> ""] /\ unwaited = {}

KeepSupervisor == UNCHANGED <<count, phase, at, stop, error, unwaited>>

-----------------------------------------------------------------------------
(* The supervisor: hhy_web_server_run.                                       *)

Running(i) == worker[i].state \notin {"none", "ended"}

Signalled(S) ==
    worker' = [i \in Workers |-> IF i \in S /\ Running(i) THEN [worker[i] EXCEPT !.stop = TRUE]
                                 ELSE worker[i]]


(* All workers are told, then each is waited for.                            *)
Kill == Signalled(Workers) /\ phase' = "waiting" /\ at' = 1

Start ==
    /\ phase = "starting" /\ at \in Workers
    /\ worker' = [worker EXCEPT ![at] = Forked]
    /\ at' = (IF at = count THEN 1 ELSE at + 1)
    /\ phase' = (IF at = count THEN "watching" ELSE phase)
    /\ UNCHANGED <<count, stop, error, cause, unwaited>>

StartFails ==
    /\ phase = "starting" /\ at \in Workers
    /\ error' = TRUE /\ Kill
    /\ UNCHANGED <<count, stop, cause, unwaited>>

(* An ended worker is reaped and replaced.                                   *)
Restart ==
    /\ phase = "watching" /\ at \in Workers /\ worker[at].state = "ended"
    /\ worker' = [worker EXCEPT ![at] = Forked]
    /\ cause' = [cause EXCEPT ![at] = ""]
    /\ at' = at + 1
    /\ UNCHANGED <<count, phase, stop, error, unwaited>>

RestartFails ==
    /\ phase = "watching" /\ at \in Workers /\ worker[at].state = "ended"
    /\ error' = TRUE /\ phase' = "waiting" /\ at' = 1
    /\ worker' = [i \in Workers |-> IF i = at THEN None
                                    ELSE IF Running(i) THEN [worker[i] EXCEPT !.stop = TRUE] ELSE worker[i]]
    /\ cause' = [cause EXCEPT ![at] = ""]
    /\ UNCHANGED <<count, stop, unwaited>>

Pass ==
    /\ phase = "watching" /\ at \in Workers /\ worker[at].state # "ended"
    /\ at' = at + 1
    /\ UNCHANGED <<count, phase, stop, error, worker, cause, unwaited>>

(* The head of the loop, after a pause of 0.2 s.                             *)
Again ==
    /\ phase = "watching" /\ at \notin Workers
    /\ IF stop THEN Kill ELSE at' = 1 /\ UNCHANGED <<phase, worker>>
    /\ UNCHANGED <<count, stop, error, cause, unwaited>>

(* A wait that does not wait.                                               *)
ReapMutant ==
    /\ phase = "waiting" /\ at \in Workers
    /\ worker' = [worker EXCEPT ![at] = IF @.state = "ended" THEN None ELSE @]
    /\ at' = at + 1
    /\ UNCHANGED <<count, phase, stop, error, cause, unwaited>>

(* waitpid waits for the worker it is given, if there is one, unless a       *)
(* signal comes first: see Interrupt.                                        *)
Reap ==
    /\ phase = "waiting" /\ at \in Workers /\ worker[at].state \in {"none", "ended"}
    /\ worker' = [worker EXCEPT ![at] = None]
    /\ at' = at + 1
    /\ UNCHANGED <<count, phase, stop, error, cause, unwaited>>

Done ==
    /\ \/ phase = "waiting" /\ at \notin Workers
       \/ phase = "serving" /\ worker[1].state = "ended"
    /\ phase' = "done"
    /\ UNCHANGED <<count, at, stop, error, worker, cause, unwaited>>

(* The handlers are installed without SA_RESTART (runtime.c:8766-8771), and  *)
(* the result of waitpid is not looked at: a signal that finds the           *)
(* supervisor waiting for a worker that still runs makes it go on to the     *)
(* next one.                                                                 *)
WaitCut ==
    /\ phase = "waiting" /\ at \in Workers /\ Running(at)
    /\ at' = at + 1
    /\ unwaited' = unwaited \cup {at}

(* SIGINT, SIGTERM, as often as they come, or a changed source: to the       *)
(* supervisor alone or to the whole group.                                   *)
Interrupt ==
    /\ phase # "done"
    /\ stop' = TRUE
    /\ (count > 1 /\ UNCHANGED worker) \/ Signalled(Workers)
    /\ UNCHANGED <<at, unwaited>> \/ WaitCut
    /\ UNCHANGED <<count, phase, error, cause>>

(* A worker is signalled alone.                                              *)
Signal(i) ==
    /\ count > 1 /\ Running(i) /\ ~worker[i].stop
    /\ Signalled({i})
    /\ KeepSupervisor /\ UNCHANGED cause

Supervise == Start \/ StartFails \/ Restart \/ RestartFails \/ Pass \/ Again \/ Reap \/ Done

-----------------------------------------------------------------------------
(* A worker: serve_listener and handle_client.                               *)

In(i, state) == worker[i].state = state /\ KeepSupervisor

Becomes(i, w) == worker' = [worker EXCEPT ![i] = w] /\ UNCHANGED cause

EndsWorker(i, why) ==
    /\ worker' = [worker EXCEPT ![i] = [None EXCEPT !.state = "ended"]]
    /\ cause' = [cause EXCEPT ![i] = why]

(* should_stop: the runtime is interrupted, or still failed.                 *)
Leave(i) ==
    /\ In(i, "idle")
    /\ worker[i].stop \/ worker[i].failed
    /\ EndsWorker(i, IF worker[i].stop THEN "stopped" ELSE "failed")

AcceptFails(i) == In(i, "idle") /\ EndsWorker(i, "accept")

Crash(i) ==
    /\ Running(i) /\ EndsWorker(i, "crash") /\ KeepSupervisor

Accept(i) ==
    /\ In(i, "idle") /\ ~worker[i].stop /\ ~worker[i].failed
    /\ Becomes(i, [worker[i] EXCEPT !.state = "reading"])

(* The request is refused: too slow, too large, or not HTTP/1.1 (400, 408,   *)
(* 413), or there is no memory to read it (503).                             *)
RefuseRequest(i) ==
    /\ In(i, "reading")
    /\ Becomes(i, [worker[i] EXCEPT !.state = "idle"])

ReadRequest(i) ==
    /\ In(i, "reading")
    /\ Becomes(i, [worker[i] EXCEPT !.state = "called", !.scope = TRUE])

-----------------------------------------------------------------------------
(* web_handle_request.  The runtime starts afresh with each request.         *)

FreshRun(w) == [w EXCEPT !.failed = FALSE, !.body = "none", !.left = 0, !.sent = "nothing"]

Answering(w, body, left) == [FreshRun(w) EXCEPT !.state = "head", !.body = body, !.left = left]

(* web_handle_request has returned false: 500.                               *)
ServerError(w, failed) ==
    [FreshRun(w) EXCEPT !.state = "finish", !.failed = failed, !.sent = "end"]

(* Metrics, health, no such route, a preflight.                              *)
AnswerItself(i) ==
    /\ In(i, "called")
    /\ Becomes(i, Answering(worker[i], "bytes", 0))

(* A static file: not there, unchanged, or short and read at once; long, and *)
(* kept open while it is sent; or one file too many.                         *)
AnswerStatic(i) ==
    /\ In(i, "called")
    /\ \/ Becomes(i, Answering(worker[i], "bytes", 0))
       \/ /\ worker[i].files < MaxFiles
          /\ Becomes(i, [Answering(worker[i], "file", Chunks) EXCEPT !.files = @ + 1])
       \/ /\ worker[i].files = MaxFiles
          /\ Becomes(i, ServerError(worker[i], TRUE))

(* Middleware and the handler: they may leave streams open and uploads on    *)
(* disk, answer with a text or with a stream, or fail.                       *)
AnswerByHandler(i) ==
    /\ In(i, "called")
    /\ \E streams, temporaries \in 0..1 :
          LET ran == [worker[i] EXCEPT !.streams = streams, !.temporaries = temporaries]
          IN \/ Becomes(i, Answering(ran, "bytes", 0))
             \/ Becomes(i, ServerError(ran, FALSE))
             \/ streams = 1 /\ Becomes(i, Answering(ran, "stream", Chunks))

(* An allocation beyond max_memory jumps out of the server.                  *)
OutOfMemory(i) == In(i, "called") /\ EndsWorker(i, "memory")

-----------------------------------------------------------------------------
(* write_response.                                                           *)

SendHead(i) ==
    /\ In(i, "head")
    /\ Becomes(i, IF worker[i].body = "bytes" THEN [worker[i] EXCEPT !.state = "finish", !.sent = "end"]
                  ELSE [worker[i] EXCEPT !.state = "sending", !.sent = "head"])

(* The client is gone before the body: the stream of the body is not closed. *)
SendHeadFails(i) ==
    /\ In(i, "head")
    /\ Becomes(i, [worker[i] EXCEPT !.state = "finish", !.sent = "cut",
                      !.lost = IF worker[i].body = "file" THEN @ + 1 ELSE @])

(* close_stream.                                                             *)
ClosedBody(w) == IF w.body = "file" THEN [w EXCEPT !.files = @ - 1] ELSE [w EXCEPT !.streams = 0]

(* An empty chunk that is sent like the others.                             *)
EmptyChunkMutant(i) ==
    /\ In(i, "sending") /\ worker[i].left > 0 /\ worker[i].body = "stream" /\ ~worker[i].stop
    /\ Becomes(i, [worker[i] EXCEPT !.left = @ - 1, !.sent = "end"])

(* An empty chunk would end the body: it is passed over.                     *)
EmptyChunk(i) ==
    /\ In(i, "sending") /\ worker[i].left > 0 /\ worker[i].body = "stream" /\ ~worker[i].stop
    /\ Becomes(i, [worker[i] EXCEPT !.left = @ - 1])

SendChunk(i) ==
    /\ In(i, "sending") /\ worker[i].left > 0
    /\ worker[i].body = "stream" => ~worker[i].stop
    /\ Becomes(i, [worker[i] EXCEPT !.left = @ - 1])

SendChunkFails(i) ==
    /\ In(i, "sending") /\ worker[i].left > 0
    /\ Becomes(i, [ClosedBody(worker[i]) EXCEPT !.state = "finish", !.sent = "cut"])

(* The last chunk, whether the stream has ended or a file was cut short.     *)
SendEnd(i) ==
    /\ In(i, "sending")
    /\ worker[i].left = 0 \/ worker[i].body = "file"
    /\ Becomes(i, [ClosedBody(worker[i]) EXCEPT !.state = "finish", !.sent = "end"])

(* The stream fails, or is cancelled: its error stays with the runtime.  The *)
(* last chunk is sent all the same.                                          *)
StreamFails(i) ==
    /\ In(i, "sending") /\ worker[i].body = "stream"
    /\ Becomes(i, [ClosedBody(worker[i]) EXCEPT !.state = "finish", !.failed = TRUE,
                      !.sent = "end"])

(* A request that leaves its temporary files.                               *)
FinishMutant(i) ==
    /\ In(i, "finish")
    /\ Becomes(i, [FreshRun(worker[i]) EXCEPT !.state = "idle", !.failed = worker[i].failed,
                      !.streams = 0, !.scope = FALSE])

(* web_request_finished, the end of the extension scope, and the close.      *)
Finish(i) ==
    /\ In(i, "finish")
    /\ Becomes(i, [FreshRun(worker[i]) EXCEPT !.state = "idle", !.failed = worker[i].failed,
                      !.streams = 0, !.temporaries = 0, !.scope = FALSE])

-----------------------------------------------------------------------------
Answer(i) == AnswerItself(i) \/ AnswerStatic(i) \/ AnswerByHandler(i) \/ OutOfMemory(i)

Respond(i) ==
    \/ SendHead(i) \/ SendHeadFails(i) \/ EmptyChunk(i) \/ SendChunk(i) \/ SendChunkFails(i)
    \/ SendEnd(i) \/ StreamFails(i) \/ Finish(i)

(* What a worker does of itself; recv and send have a time limit, and a      *)
(* handler is asked at its safepoints whether it is cancelled.               *)
Serve(i) == Leave(i) \/ RefuseRequest(i) \/ ReadRequest(i) \/ Answer(i) \/ Respond(i)

Environment(i) == Accept(i) \/ AcceptFails(i) \/ Crash(i) \/ Signal(i)

Next == Supervise \/ Interrupt \/ \E i \in Workers : Serve(i) \/ Environment(i)

Spec == Init /\ [][Next]_vars

(* The supervisor and each worker are processes the system schedules.        *)
FairSpec ==
    /\ Spec /\ WF_vars(Supervise)
    /\ \A i \in 1..Most : WF_vars(i \in Workers /\ Serve(i))

-----------------------------------------------------------------------------
(* In every state the files a worker counts as open are those of the body it *)
(* sends and of earlier static bodies whose head could not be sent; a worker *)
(* that waits for a client or reads a request holds no stream and no         *)
(* temporary file of an earlier one, and no extension scope is open; and no  *)
(* request begins while the error of an earlier one is set                   *)
(* (web_server.c:160-170, 266-272; runtime.c:5824-5842).                     *)
RequestsLeaveNothing ==
    \A i \in Workers :
        /\ worker[i].files = worker[i].lost + BodyFiles(worker[i])
        /\ worker[i].state \in {"idle", "reading"} =>
              worker[i].streams = 0 /\ worker[i].temporaries = 0 /\ ~worker[i].scope
        /\ worker[i].state \in {"reading", "called"} => ~worker[i].failed

(* Requests leave a well-typed server with nothing held but those files.     *)
CleanBetweenRequests == TypeOK /\ RequestsLeaveNothing

(* A streamed body that ends with items of its stream left is the last that  *)
(* its worker sends: the stream has failed or was cancelled, the runtime     *)
(* keeps the error, and a worker with an error finishes that request and     *)
(* takes no other (web_server.c:176-188, runtime.c:5707).                    *)
ShortEndIsLast ==
    \A i \in Workers :
        /\ worker[i].body = "stream" /\ worker[i].sent = "end" =>
              worker[i].left = 0 \/ worker[i].failed
        /\ worker[i].failed => worker[i].state \in {"finish", "idle"}

(* When the server returns, each of its workers has been waited for, unless  *)
(* a signal cut that wait short, and a worker that still runs then has been  *)
(* told to stop, however start, restart, stop and signals meet               *)
(* (web_server.c:337-376).                                                   *)
ReapedOrTold ==
    phase = "done" /\ count > 1 => \A i \in Workers :
        \/ worker[i].state = "none"
        \/ i \in unwaited /\ (Running(i) => worker[i].stop)

(* A worker that has ended is replaced, or the server stops.                 *)
EndedIsReplaced ==
    \A i \in 1..Most : (i \in Workers /\ worker[i].state = "ended")
        ~> (phase = "done" \/ (i \in Workers /\ Running(i)))

(* A server that is asked to stop, or that cannot fork, returns, and all its *)
(* workers end, those it did not wait for too.                               *)
StopEnds == (stop \/ error) ~> (phase = "done" /\ \A i \in Workers : ~Running(i))


(* docs/WEB_RUNTIME.md:51-52: a handler error produces a 500 response and the   *)
(* worker continues serving later requests: no worker ends by an error of    *)
(* one request.                                                              *)
WorkerServesOn == \A i \in Workers : cause[i] # "failed"
=============================================================================
