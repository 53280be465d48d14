------------------------------- MODULE DbService -------------------------------
(***************************************************************************)
(* The process of DbServer with a host that may pipeline calls, cancel     *)
(* them at any time, end scopes and close the pipe.  Calls carry the ids   *)
(* 1, 2, ...                                                               *)
(***************************************************************************)
EXTENDS DbServer

CONSTANTS
    MaxSent,    \* bound: calls the host makes
    MaxPiped    \* bound: messages in the two pipes when the host sends one more

ASSUME ServiceAssumption == MaxSent \in Nat /\ MaxPiped \in Nat

VARIABLES
    sent,       \* calls sent so far
    cancels,    \* auxiliary: ids the host has sent a cancel for
    closed,     \* the host has sent its last message
    replied     \* auxiliary: ids whose answer the host has read

clientVars == <<sent, cancels, closed, replied>>
allVars == <<serverVars, clientVars>>

Ids == 1..MaxSent

ServiceType ==
    /\ ServerType
    /\ sent \in 0..MaxSent
    /\ cancels \subseteq Ids
    /\ closed \in BOOLEAN
    /\ replied \subseteq Ids

ServiceInit ==
    /\ ServerInit
    /\ reader = "reading"
    /\ sent = 0
    /\ cancels = {}
    /\ closed = FALSE
    /\ replied = {}

Submit(m) ==
    /\ ~closed /\ Len(inbox) + Len(outbox) < MaxPiped
    /\ inbox' = Append(inbox, m)
    /\ UNCHANGED <<outbox, ringVars, workerVars, reader, stopping, open>>

SubmitCall ==
    /\ sent < MaxSent
    /\ \E scope \in Scopes : Submit(CallOf(sent + 1, scope))
    /\ sent' = sent + 1
    /\ UNCHANGED <<cancels, closed, replied>>

SubmitCancel ==
    \E id \in 1..sent \ cancels :
        /\ Submit(CancelOf(id))
        /\ cancels' = cancels \cup {id}
        /\ UNCHANGED <<sent, closed, replied>>

SubmitScopeEnd ==
    /\ \E scope \in Scopes : Submit(ScopeEndOf(scope))
    /\ UNCHANGED clientVars

Close ==
    /\ Submit(EndOf)
    /\ closed' = TRUE
    /\ UNCHANGED <<sent, cancels, replied>>

TakeReply ==
    /\ outbox # <<>>
    /\ outbox' = Tail(outbox)
    /\ replied' = IF Head(outbox).type = "scope_ended" THEN replied
                  ELSE replied \cup {Head(outbox).id}
    /\ UNCHANGED <<inbox, ringVars, workerVars, reader, stopping, open, sent, cancels, closed>>

ServerTurn == ServerNext /\ UNCHANGED clientVars

ServiceNext == SubmitCall \/ SubmitCancel \/ SubmitScopeEnd \/ Close \/ TakeReply \/ ServerTurn

ServiceSpec == ServiceInit /\ [][ServiceNext]_allVars

-----------------------------------------------------------------------------
(* Fairness.  The reader and the workers are threads of their own, waiting   *)
(* only for each other's critical sections; the host reads what it is sent.  *)
(* A cancelled call ends without the database's help (DbPool, CancelEnds).   *)
FairService ==
    /\ ServiceSpec
    /\ WF_allVars(reader # "exited" /\ Read /\ UNCHANGED clientVars)
    /\ \A w \in Threads : WF_allVars(reader # "exited" /\ Work(w) /\ UNCHANGED clientVars)
    /\ WF_allVars(TakeReply)
    /\ \A w \in Threads : WF_allVars(reader # "exited" /\ AnswerCancelled(w) /\ UNCHANGED clientVars)

(* A call on the database ends with its deadline (DbPool, CallEnds).         *)
DatabasesReply ==
    \A w \in Threads : WF_allVars(reader # "exited" /\ AnswerCall(w) /\ UNCHANGED clientVars)

-----------------------------------------------------------------------------
(* Refinement.                                                               *)

InRing == {ring[k].id : k \in Occupied}
Running == {job[w].id : w \in {v \in Threads : Busy(v)}}
Answers == {outbox[k].id : k \in {j \in 1..Len(outbox) : outbox[j].type # "scope_ended"}}

Promise == INSTANCE CallQueue WITH
    Ids      <- Ids,
    Capacity <- Queue,
    waiting  <- [k \in 1..queued |-> ring[(head + k - 1) % Queue].id],
    running  <- Running,
    answered <- Answers \cup replied,
    gone     <- reader = "exited"

(* The ring and the threads implement a bounded first-in first-out queue     *)
(* whose calls are each answered exactly once, and the process does not      *)
(* exit before the last of them.                                             *)
KeepsPromise == Promise!Spec

-----------------------------------------------------------------------------
(* Invariants.                                                               *)

(* No worker sleeps while a call waits that nobody was woken for, although a *)
(* signal that finds no sleeper is lost (main.c, pthread_cond_signal).       *)
NoSleepingWork ==
    Asleep # {} => Cardinality({w \in Threads : thread[w] = "awake"}) >= queued

MarkedInRing(id) == \E k \in Occupied : ring[k].id = id /\ ring[k].cancelled
MarkedRunning(id) == \E w \in Threads : Busy(w) /\ job[w].id = id /\ (flag[w] \/ job[w].cancelled)

(* The process is well typed and its workers are not asleep over work.       *)
AtWork == ServiceType /\ NoSleepingWork

(* A cancel the reader has handled is not forgotten: wherever the call it    *)
(* names is then, in the ring or with a worker, it is marked until it is     *)
(* answered (popping a call clears the flag of its operation slot).          *)
CancelSticks ==
    \A id \in cancels :
        (\A k \in 1..Len(inbox) : inbox[k].type = "cancel" => inbox[k].target # id)
        => /\ id \in InRing => MarkedInRing(id)
           /\ id \in Running => MarkedRunning(id)

(* From the stop on every call the process still owes an answer is marked.   *)
StopReachesAll ==
    stopping => /\ \A id \in InRing : MarkedInRing(id)
                /\ \A id \in Running : MarkedRunning(id)

-----------------------------------------------------------------------------
(* Liveness.                                                                 *)

(* A call that was sent is answered, also when the pipe is closed behind it, *)
(* as long as database calls end.                                            *)
CallsAnswered == DatabasesReply => \A id \in Ids : sent >= id ~> (id \in replied)

(* Closing the pipe ends the process, whatever the databases do.             *)
CloseEnds == closed ~> reader = "exited"

(* Nobody who talks to the process waits for ever: neither the caller nor    *)
(* the host that closes the pipe.                                            *)
EveryoneServed == CallsAnswered /\ CloseEnds
=============================================================================
