-------------------------------- MODULE ExtCalls --------------------------------
(***************************************************************************)
(* The host's side of a scoped process extension (src/extensions.c) with   *)
(* the process of the database extension (DbServer) behind its pipes.      *)
(*                                                                         *)
(* A thread of the host holds transport_mutex for a whole call, or for the *)
(* end of a scope: it starts the process when there is none it can use,    *)
(* sends one message and waits for its answer.  While it waits for a call  *)
(* it may send a cancel, once, and goes on waiting.  What goes wrong on    *)
(* the way marks the extension broken; the next call replaces it.          *)
(***************************************************************************)
EXTENDS DbServer

CONSTANTS
    Hosts,      \* threads of the host process
    MaxCalls,   \* bound: calls sent to one process
    MaxStarts   \* bound: processes started

ASSUME HostAssumption ==
    MaxCalls \in Nat /\ MaxStarts \in Nat /\ None \notin Hosts

VARIABLES
    host,       \* what each thread is doing
    lock,       \* transport_mutex
    ext,        \* the Extension record: there is none, it is this process's
                \* own, or it was inherited over a fork
    broken,     \* its broken flag
    next,       \* its next_request
    starts,     \* processes started so far
    ended       \* auxiliary: scopes that have ended

hostVars == <<host, lock, ext, broken, next, starts, ended>>
vars == <<serverVars, hostVars>>

Thread == [phase : {"idle", "calling", "ready", "waiting", "leaving", "ack"},
           scope : Scopes \cup {None}, id : Nat,
           cancel : {"no", "wanted", "sent"}]

NoThread == [phase |-> "idle", scope |-> None, id |-> 0, cancel |-> "no"]

TypeOK ==
    /\ ServerType
    /\ host \in [Hosts -> Thread]
    /\ lock \in Hosts \cup {None}
    /\ ext \in {"none", "own", "inherited"}
    /\ broken \in BOOLEAN
    /\ next \in Nat
    /\ starts \in 0..MaxStarts
    /\ ended \subseteq Scopes

Init ==
    /\ ServerInit
    /\ reader = "exited"
    /\ host = [h \in Hosts |-> NoThread]
    /\ lock = None
    /\ ext \in {"none", "inherited"}
    /\ broken = FALSE
    /\ next = 1
    /\ starts = 0
    /\ ended = {}

Alive == reader # "exited"

-----------------------------------------------------------------------------
(* The process.                                                              *)

(* Whatever it was doing stops: killed with SIGTERM, crashed, or started     *)
(* anew.  The databases roll back and free what its sessions held; what it   *)
(* has written can still be read.                                            *)
Reset(left) ==
    /\ inbox' = <<>> /\ outbox' = left
    /\ ring' = [k \in 0..Queue - 1 |-> NoEntry]
    /\ head' = 0 /\ tail' = 0 /\ queued' = 0
    /\ thread' = [w \in Threads |-> "awake"]
    /\ job' = [w \in Threads |-> NoEntry]
    /\ flag' = [w \in Threads |-> FALSE]
    /\ stopping' = FALSE
    /\ open' = {}

Crash ==
    /\ Alive
    /\ Reset(outbox)
    /\ reader' = "exited"
    /\ UNCHANGED hostVars

Serve == ServerNext /\ UNCHANGED hostVars

-----------------------------------------------------------------------------
(* Scopes and the lock.                                                      *)

Phase(h, phase) == host' = [host EXCEPT ![h].phase = phase]

(* hhy_extensions_scope_begin: a number no scope had before.                 *)
ScopeBegin(h) ==
    /\ host[h].phase = "idle" /\ host[h].scope = None
    /\ \E scope \in Scopes \ (ended \cup {host[g].scope : g \in Hosts}) :
          host' = [host EXCEPT ![h].scope = scope]
    /\ UNCHANGED <<serverVars, lock, ext, broken, next, starts, ended>>

Enter(h, phase) ==
    /\ host[h].phase = "idle" /\ host[h].scope # None
    /\ lock = None
    /\ lock' = h
    /\ Phase(h, phase)
    /\ UNCHANGED <<serverVars, ext, broken, next, starts, ended>>

(* hhy_extension_call_checked                                                *)
CallBegin(h) == Enter(h, "calling")

(* hhy_extensions_scope_end                                                  *)
ScopeEnd(h) == Enter(h, "leaving")

(* The call returns to the program.                                          *)
Return(h) ==
    /\ host' = [host EXCEPT ![h] = [NoThread EXCEPT !.scope = host[h].scope]]
    /\ lock' = None

(* The program is cancelled, or its Web client has gone.                     *)
Cancel(h) ==
    /\ host[h].phase \in {"calling", "ready", "waiting"}
    /\ host[h].cancel = "no"
    /\ host' = [host EXCEPT ![h].cancel = "wanted"]
    /\ UNCHANGED <<serverVars, lock, ext, broken, next, starts, ended>>

-----------------------------------------------------------------------------
(* extension_call.                                                           *)

(* A check that trusts the process as long as it lives.                      *)
UsableMutant == ext = "own" /\ Alive

Usable == ext = "own" /\ ~broken /\ Alive

Reuse(h) ==
    /\ host[h].phase = "calling" /\ Usable
    /\ Phase(h, "ready")
    /\ UNCHANGED <<serverVars, lock, ext, broken, next, starts, ended>>

(* The old process is killed if it is ours and lives, a new one started.     *)
Start(h) ==
    /\ host[h].phase = "calling" /\ ~Usable
    /\ starts < MaxStarts
    /\ Reset(<<>>)
    /\ reader' = "reading"
    /\ ext' = "own" /\ broken' = FALSE /\ next' = 1
    /\ starts' = starts + 1
    /\ Phase(h, "ready")
    /\ UNCHANGED <<lock, ended>>

(* It does not start, or not answer the handshake, or the call is cancelled  *)
(* before it has: the record is gone, and with it the old process.           *)
StartFails(h) ==
    /\ host[h].phase = "calling" /\ ~Usable
    /\ Reset(<<>>)
    /\ reader' = "exited"
    /\ ext' = "none" /\ broken' = FALSE
    /\ Return(h)
    /\ UNCHANGED <<next, starts, ended>>

(* hhy_extension_prepare_namespace: an import starts the process.            *)
Import ==
    /\ lock = None /\ ext = "none"
    /\ starts < MaxStarts
    /\ Reset(<<>>)
    /\ reader' = "reading"
    /\ ext' = "own" /\ broken' = FALSE /\ next' = 1
    /\ starts' = starts + 1
    /\ UNCHANGED <<host, lock, ended>>

(* A message goes into the pipe.                                             *)
Write(m) ==
    /\ Alive
    /\ inbox' = Append(inbox, m)
    /\ UNCHANGED <<outbox, ringVars, workerVars, reader, stopping, open>>

(* A number past the bound is not counted on.                                *)
NextId == IF next > MaxCalls THEN next ELSE next + 1

Send(h) ==
    /\ host[h].phase = "ready" /\ next <= MaxCalls
    /\ Write(CallOf(next, host[h].scope))
    /\ next' = NextId
    /\ host' = [host EXCEPT ![h].phase = "waiting", ![h].id = next]
    /\ UNCHANGED <<lock, ext, broken, starts, ended>>

(* The message is longer than 1 MiB and not written, or the process is dead. *)
SendFails(h) ==
    /\ host[h].phase = "ready"
    /\ broken' = TRUE
    /\ next' = NextId
    /\ Return(h)
    /\ UNCHANGED <<serverVars, ext, starts, ended>>

-----------------------------------------------------------------------------
(* receive_message.                                                          *)

Told(h) == host[h].phase = "waiting" /\ outbox # <<>>

Mine(h, r) == r.type # "scope_ended" /\ r.id = host[h].id

Receive(h) ==
    /\ Told(h) /\ Mine(h, Head(outbox))
    /\ outbox' = Tail(outbox)
    /\ Return(h)
    /\ UNCHANGED <<inbox, ringVars, workerVars, reader, stopping, open>>
    /\ UNCHANGED <<ext, broken, next, starts, ended>>

(* A reader that does not look for the end of the pipe.                      *)
ReceiveFailsMutant(h) ==
    /\ Told(h) /\ ~Mine(h, Head(outbox))
    /\ outbox' = Tail(outbox)
    /\ broken' = TRUE
    /\ Return(h)
    /\ UNCHANGED <<inbox, ringVars, workerVars, reader, stopping, open>>
    /\ UNCHANGED <<ext, next, starts, ended>>

(* The identity of the response is wrong, or the process has gone.           *)
ReceiveFails(h) ==
    /\ host[h].phase = "waiting"
    /\ \/ Told(h) /\ ~Mine(h, Head(outbox)) /\ outbox' = Tail(outbox)
       \/ ~Alive /\ outbox = <<>> /\ UNCHANGED outbox
    /\ broken' = TRUE
    /\ Return(h)
    /\ UNCHANGED <<inbox, ringVars, workerVars, reader, stopping, open>>
    /\ UNCHANGED <<ext, next, starts, ended>>

(* Whether the cancel could be written does not matter.                      *)
SendCancel(h) ==
    /\ host[h].phase = "waiting" /\ host[h].cancel = "wanted"
    /\ IF Alive THEN Write(CancelOf(host[h].id)) ELSE UNCHANGED serverVars
    /\ host' = [host EXCEPT ![h].cancel = "sent"]
    /\ UNCHANGED <<lock, ext, broken, next, starts, ended>>

(* The protocol deadline of 310 s: the process is killed.                    *)
Deadline(h) ==
    /\ host[h].phase \in {"waiting", "ack"}
    /\ Reset(<<>>)
    /\ reader' = "exited"
    /\ broken' = TRUE
    /\ IF host[h].phase = "waiting" THEN Return(h) /\ UNCHANGED ended
       ELSE /\ host' = [host EXCEPT ![h] = NoThread] /\ lock' = None
            /\ ended' = ended \cup {host[h].scope}
    /\ UNCHANGED <<ext, next, starts>>

-----------------------------------------------------------------------------
(* hhy_extensions_scope_end, with the lock.                                  *)

ScopeEnded(h) ==
    /\ host' = [host EXCEPT ![h] = NoThread]
    /\ lock' = None
    /\ ended' = ended \cup {host[h].scope}

SendScopeEnd(h) ==
    /\ host[h].phase = "leaving" /\ ext = "own" /\ ~broken
    /\ Write(ScopeEndOf(host[h].scope))
    /\ Phase(h, "ack")
    /\ UNCHANGED <<lock, ext, broken, next, starts, ended>>

(* An extension that is broken or inherited is told nothing; one that cannot *)
(* be told is broken.                                                        *)
SkipScopeEnd(h) ==
    /\ host[h].phase = "leaving"
    /\ ext # "own" \/ broken \/ ~Alive
    /\ broken' = (broken \/ ext = "own")
    /\ ScopeEnded(h)
    /\ UNCHANGED <<serverVars, ext, next, starts>>

(* Any message will do; none at all breaks the extension.                    *)
ScopeEndAck(h) ==
    /\ host[h].phase = "ack"
    /\ \/ outbox # <<>> /\ outbox' = Tail(outbox) /\ UNCHANGED broken
       \/ ~Alive /\ outbox = <<>> /\ broken' = TRUE /\ UNCHANGED outbox
    /\ ScopeEnded(h)
    /\ UNCHANGED <<inbox, ringVars, workerVars, reader, stopping, open>>
    /\ UNCHANGED <<ext, next, starts>>

(* hhy_extensions_shutdown: the process is told, and killed when it has not  *)
(* gone at once.                                                             *)
Shutdown ==
    /\ lock = None /\ ext # "none"
    /\ Reset(<<>>)
    /\ reader' = "exited"
    /\ ext' = "none" /\ broken' = FALSE
    /\ UNCHANGED <<host, lock, next, starts, ended>>

-----------------------------------------------------------------------------
Transport(h) ==
    \/ Reuse(h) \/ Start(h) \/ StartFails(h)
    \/ Send(h) \/ SendFails(h) \/ SendCancel(h)
    \/ Receive(h) \/ ReceiveFails(h)
    \/ SendScopeEnd(h) \/ SkipScopeEnd(h) \/ ScopeEndAck(h)

Next ==
    \/ \E h \in Hosts :
          \/ ScopeBegin(h) \/ CallBegin(h) \/ ScopeEnd(h) \/ Cancel(h)
          \/ Transport(h) \/ Deadline(h)
    \/ Import
    \/ Serve
    \/ Crash
    \/ Shutdown

Spec == Init /\ [][Next]_vars

-----------------------------------------------------------------------------
(* Fairness: a thread that holds the lock and can go on does so, and so do   *)
(* the threads of the process.  A cancelled database call ends by itself.    *)
(* Nothing relies on the protocol deadline.                                  *)
FairSpec ==
    /\ Spec
    /\ \A h \in Hosts : WF_vars(Transport(h))
    /\ WF_vars(Alive /\ Read /\ UNCHANGED hostVars)
    /\ \A w \in Threads : WF_vars(Alive /\ Work(w) /\ UNCHANGED hostVars)
    /\ \A w \in Threads : WF_vars(Alive /\ AnswerCancelled(w) /\ UNCHANGED hostVars)

(* A call on the database ends with its deadline (DbPool, CallEnds).         *)
DatabasesAnswer == \A w \in Threads : WF_vars(Alive /\ AnswerCall(w) /\ UNCHANGED hostVars)

-----------------------------------------------------------------------------
(* Invariants.                                                               *)

Answering == {w \in Threads : Busy(w)}

Outstanding ==
    Cardinality({k \in 1..Len(inbox) : inbox[k].type # "cancel"})
        + queued + Cardinality(Answering) + Len(outbox)

Awaited == IF lock # None /\ host[lock].phase \in {"waiting", "ack"} THEN 1 ELSE 0

(* Host and process stay in step: while the extension counts as sound, the   *)
(* pipes and the process hold exactly the one message the holder of the lock *)
(* waits for, whatever was cancelled, refused, or timed out before.  So an   *)
(* answer is never read by a later call, and DB_QUEUE_FULL is never answered.*)
InStep ==
    /\ ext = "own" /\ ~broken /\ Alive => Outstanding = Awaited
    /\ ext = "own" /\ ~broken => Outstanding <= Awaited

(* A cancel that arrives after the answer it crossed does no harm to the     *)
(* calls that follow: what is marked as cancelled in the process is the call *)
(* of the thread that wanted it.                                             *)
CancelHitsItsCall ==
    Alive /\ ~broken =>
        /\ \A w \in Answering :
              flag[w] \/ job[w].cancelled =>
                 lock # None /\ host[lock].id = job[w].id /\ host[lock].cancel = "sent"
        /\ \A k \in Occupied :
              ring[k].cancelled =>
                 lock # None /\ host[lock].id = ring[k].id /\ host[lock].cancel = "sent"

(* Host and process agree on what is under way and on what was cancelled.    *)
Agreed == TypeOK /\ InStep /\ CancelHitsItsCall

(* "Host sends this after consuming every response in that scope" (main.c):  *)
(* a scope end never meets a call of its scope, whose session db_scope_end   *)
(* would pass over because it is busy.                                       *)
ScopeEndIsLast ==
    Reading("scope_end") =>
        /\ \A w \in Answering : job[w].scope # Head(inbox).scope
        /\ \A k \in Occupied : ring[k].scope # Head(inbox).scope

(* Once a scope has ended only an extension that is broken, and that no call *)
(* will use again, can hold a resource of it.                                *)
OnlyBrokenHoldsEnded == open \cap ended # {} => broken

(* A call is never sent to a process that holds a resource of an ended scope.*)
CallsMeetNoEnded ==
    \A h \in Hosts : host[h].phase = "waiting" => open \cap ended = {}

(* The end of a scope comes when it may, and what it leaves is out of reach. *)
ScopesEnd == ScopeEndIsLast /\ OnlyBrokenHoldsEnded /\ CallsMeetNoEnded

(* Web requests and embedded calls close leaked resources on both success    *)
(* and failure (README of the extension): an ended scope holds nothing.      *)
EndedScopeReleased == open \cap ended = {}

-----------------------------------------------------------------------------
(* Liveness.                                                                 *)

(* The lock is given back: a call, or the end of a scope, returns whatever   *)
(* the process does, also when it dies, as long as database calls end.       *)
CallReturns ==
    DatabasesAnswer => \A h \in Hosts : host[h].phase # "idle" ~> host[h].phase = "idle"

(* A cancelled call returns although the database does not answer and no     *)
(* deadline has passed.                                                      *)
CancelReturns == \A h \in Hosts : host[h].cancel # "no" ~> host[h].cancel = "no"

(* No thread of the host waits for ever, cancelled or not.                   *)
HostsReturn == CallReturns /\ CancelReturns
=============================================================================
