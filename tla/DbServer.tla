------------------------------- MODULE DbServer -------------------------------
(***************************************************************************)
(* The process of the database extension (extensions/database/src/main.c): *)
(* a reader thread takes the host's messages from a pipe and puts calls    *)
(* into a ring; worker threads take them out, run them on the session pool *)
(* and write the answers to another pipe.                                  *)
(*                                                                         *)
(* The module has the process and its two pipes.  DbService puts a host    *)
(* that may do anything the protocol allows in front of it, ExtCalls the   *)
(* host of src/extensions.c.                                               *)
(*                                                                         *)
(* The pool is seen through what DbPool shows of it: a call ends in an     *)
(* answer and may leave a resource of its scope behind (open); a cancelled *)
(* call ends without the database's help.                                  *)
(***************************************************************************)
EXTENDS Naturals, Sequences, FiniteSets

CONSTANTS
    Threads,    \* THREADS, the worker threads
    Queue,      \* QUEUE, the entries of the ring
    Scopes,     \* request scopes of the host
    None        \* no scope

ASSUME ServerAssumption ==
    /\ IsFiniteSet(Threads) /\ Threads # {}
    /\ Queue \in Nat \ {0} /\ None \notin Scopes

VARIABLES
    inbox,      \* the pipe to the process
    outbox,     \* the pipe from it
    ring,       \* queue[], a popped entry keeps its stale contents
    head, tail, queued,
    thread,     \* where a worker is in its loop
    job,        \* the call it took
    flag,       \* cancelled, in the call's operation slot
    reader,     \* the main thread: reading, joining the workers, exited
    stopping,
    open        \* scopes that own a resource no call is using

ringVars == <<ring, head, tail, queued>>
workerVars == <<thread, job, flag>>
serverVars == <<inbox, outbox, ringVars, workerVars, reader, stopping, open>>

Entry == [id : Nat, scope : Scopes \cup {None}, cancelled : BOOLEAN]

NoEntry == [id |-> 0, scope |-> None, cancelled |-> FALSE]

Message ==
    [type : {"call", "scope_end"}, id : Nat, scope : Scopes \cup {None}]
        \cup [type : {"cancel"}, target : Nat]
        \cup [type : {"end"}]

CallOf(id, scope) == [type |-> "call", id |-> id, scope |-> scope]
CancelOf(id) == [type |-> "cancel", target |-> id]
ScopeEndOf(scope) == [type |-> "scope_end", id |-> 0, scope |-> scope]

(* A shutdown message, the end of the pipe, or a message that is none.       *)
EndOf == [type |-> "end"]

Reply == [type : {"answer", "refused", "scope_ended"}, id : Nat]

ReplyOf(type, id) == [type |-> type, id |-> id]

ServerType ==
    /\ inbox \in Seq(Message)
    /\ outbox \in Seq(Reply)
    /\ ring \in [0..Queue - 1 -> Entry]
    /\ head \in 0..Queue - 1
    /\ tail \in 0..Queue - 1
    /\ queued \in 0..Queue
    /\ thread \in [Threads -> {"awake", "asleep", "running", "done", "gone"}]
    /\ job \in [Threads -> Entry]
    /\ flag \in [Threads -> BOOLEAN]
    /\ reader \in {"reading", "joining", "exited"}
    /\ stopping \in BOOLEAN
    /\ open \subseteq Scopes

(* A process that has just answered the handshake.                           *)
ServerInit ==
    /\ inbox = <<>> /\ outbox = <<>>
    /\ ring = [k \in 0..Queue - 1 |-> NoEntry]
    /\ head = 0 /\ tail = 0 /\ queued = 0
    /\ thread = [w \in Threads |-> "awake"]
    /\ job = [w \in Threads |-> NoEntry]
    /\ flag = [w \in Threads |-> FALSE]
    /\ stopping = FALSE
    /\ open = {}

Occupied == {(head + k) % Queue : k \in 0..queued - 1}

Busy(w) == thread[w] = "running"

-----------------------------------------------------------------------------
(* The reader.                                                               *)

Reading(type) == reader = "reading" /\ inbox # <<>> /\ Head(inbox).type = type

Consume == inbox' = Tail(inbox)

Say(r) == outbox' = Append(outbox, r)

Asleep == {w \in Threads : thread[w] = "asleep"}

(* An enqueue that wakes nobody.                                             *)
SignalMutant == thread' = thread

(* pthread_cond_signal wakes one sleeping worker, if there is one.           *)
Signal ==
    IF Asleep = {} THEN thread' = thread
    ELSE \E w \in Asleep : thread' = [thread EXCEPT ![w] = "awake"]

(* pthread_cond_broadcast                                                    *)
Woken == [w \in Threads |-> IF thread[w] = "asleep" THEN "awake" ELSE thread[w]]

(* An index that does not wrap with the ring.                                *)
SuccMutant(k) == IF k + 1 < Queue THEN k + 1 ELSE k

Succ(k) == (k + 1) % Queue

(* An enqueue that leaves the mark of the entry's last call.                 *)
EnqueueStaleMutant ==
    /\ Reading("call") /\ queued < Queue
    /\ Consume
    /\ ring' = [ring EXCEPT ![tail].id = Head(inbox).id, ![tail].scope = Head(inbox).scope]
    /\ tail' = Succ(tail)
    /\ queued' = queued + 1
    /\ Signal
    /\ UNCHANGED <<head, job, flag, outbox, reader, stopping, open>>

Enqueue ==
    /\ Reading("call") /\ queued < Queue
    /\ Consume
    /\ ring' = [ring EXCEPT ![tail] =
                   [id |-> Head(inbox).id, scope |-> Head(inbox).scope, cancelled |-> FALSE]]
    /\ tail' = Succ(tail)
    /\ queued' = queued + 1
    /\ Signal
    /\ UNCHANGED <<head, job, flag, outbox, reader, stopping, open>>

(* DB_QUEUE_FULL                                                             *)
RefuseCall ==
    /\ Reading("call") /\ queued = Queue
    /\ Consume
    /\ Say(ReplyOf("refused", Head(inbox).id))
    /\ UNCHANGED <<ringVars, workerVars, reader, stopping, open>>

(* The flag of running calls and the mark of queued ones, for a set of ids.  *)
Marked(Ids) ==
    /\ ring' = [k \in 0..Queue - 1 |->
                   IF k \in Occupied /\ ring[k].id \in Ids
                   THEN [ring[k] EXCEPT !.cancelled = TRUE] ELSE ring[k]]
    /\ flag' = [w \in Threads |-> flag[w] \/ (Busy(w) /\ job[w].id \in Ids)]

(* A cancel that db_cancel alone handles.                                    *)
CancelCallMutant ==
    /\ Reading("cancel")
    /\ Consume
    /\ flag' = [w \in Threads |-> flag[w] \/ (Busy(w) /\ job[w].id = Head(inbox).target)]
    /\ UNCHANGED <<ringVars, thread, job, outbox, reader, stopping, open>>

CancelCall ==
    /\ Reading("cancel")
    /\ Consume
    /\ Marked({Head(inbox).target})
    /\ UNCHANGED <<head, tail, queued, thread, job, outbox, reader, stopping, open>>

(* db_scope_end drops the resources no call is using.                        *)
EndScope ==
    /\ Reading("scope_end")
    /\ Consume
    /\ open' = open \ {Head(inbox).scope}
    /\ Say(ReplyOf("scope_ended", Head(inbox).id))
    /\ UNCHANGED <<ringVars, workerVars, reader, stopping>>

(* A stop that leaves the calls in the ring alone.                           *)
StopMutant ==
    /\ Reading("end")
    /\ Consume
    /\ flag' = [w \in Threads |-> flag[w] \/ Busy(w)]
    /\ stopping' = TRUE
    /\ thread' = Woken
    /\ reader' = "joining"
    /\ UNCHANGED <<ringVars, job, outbox, open>>

Stop ==
    /\ Reading("end")
    /\ Consume
    /\ Marked(Nat)
    /\ stopping' = TRUE
    /\ thread' = Woken
    /\ reader' = "joining"
    /\ UNCHANGED <<head, tail, queued, job, outbox, open>>

(* db_shutdown, when every worker was joined.                                *)
Exit ==
    /\ reader = "joining"
    /\ \A w \in Threads : thread[w] = "gone"
    /\ reader' = "exited"
    /\ open' = {}
    /\ UNCHANGED <<inbox, outbox, ringVars, workerVars, stopping>>

-----------------------------------------------------------------------------
(* A worker.                                                                 *)

Sleep(w) ==
    /\ thread[w] = "awake" /\ queued = 0 /\ ~stopping
    /\ thread' = [thread EXCEPT ![w] = "asleep"]
    /\ UNCHANGED <<inbox, outbox, ringVars, job, flag, reader, stopping, open>>

(* Popping the call and db_operation_begin are one critical section.         *)
TakeCall(w) ==
    /\ thread[w] = "awake" /\ queued > 0
    /\ thread' = [thread EXCEPT ![w] = "running"]
    /\ job' = [job EXCEPT ![w] = ring[head]]
    /\ flag' = [flag EXCEPT ![w] = FALSE]
    /\ head' = Succ(head)
    /\ queued' = queued - 1
    /\ UNCHANGED <<inbox, outbox, ring, tail, reader, stopping, open>>

(* A call marked in the ring is answered DB_CANCELLED and never dispatched.  *)
(* The others leave, or release, resources of their scope.                   *)
AnswerCall(w) ==
    /\ Busy(w)
    /\ \/ open' = open
       \/ ~job[w].cancelled /\ open' \in {open \cup {job[w].scope}, open \ {job[w].scope}}
    /\ Say(ReplyOf("answer", job[w].id))
    /\ thread' = [thread EXCEPT ![w] = "done"]
    /\ UNCHANGED <<inbox, ringVars, job, flag, reader, stopping>>

(* The end of the loop's body broadcasts.                                    *)
EndJob(w) ==
    /\ thread[w] = "done"
    /\ thread' = [Woken EXCEPT ![w] = "awake"]
    /\ job' = [job EXCEPT ![w] = NoEntry]
    /\ flag' = [flag EXCEPT ![w] = FALSE]
    /\ UNCHANGED <<inbox, outbox, ringVars, reader, stopping, open>>

(* A worker that leaves as soon as it sees the stop.                         *)
LeaveMutant(w) ==
    /\ thread[w] = "awake" /\ stopping
    /\ thread' = [thread EXCEPT ![w] = "gone"]
    /\ UNCHANGED <<inbox, outbox, ringVars, job, flag, reader, stopping, open>>

Leave(w) ==
    /\ thread[w] = "awake" /\ queued = 0 /\ stopping
    /\ thread' = [thread EXCEPT ![w] = "gone"]
    /\ UNCHANGED <<inbox, outbox, ringVars, job, flag, reader, stopping, open>>

-----------------------------------------------------------------------------
Read == Enqueue \/ RefuseCall \/ CancelCall \/ EndScope \/ Stop \/ Exit

Work(w) == Sleep(w) \/ TakeCall(w) \/ EndJob(w) \/ Leave(w)

ServerNext ==
    /\ reader # "exited"
    /\ \/ Read
       \/ \E w \in Threads : Work(w) \/ AnswerCall(w)

(* A call that is cancelled ends by itself (DbPool, CancelEnds).             *)
AnswerCancelled(w) == (flag[w] \/ job[w].cancelled) /\ AnswerCall(w)
=============================================================================
