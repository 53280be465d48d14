-------------------------------- MODULE DbPool --------------------------------
(***************************************************************************)
(* The session pool of the database extension                              *)
(* (extensions/database/src/pool.c) with the calls that use it             *)
(* (db_dispatch of database.c).                                            *)
(*                                                                         *)
(* A worker thread runs one call at a time.  The call acquires a session   *)
(* of a data source (a key), or the one session a handle names, uses it    *)
(* outside the pool's mutex, and releases it.  Every action below is one   *)
(* critical section of the mutex, or one step of a thread on the session   *)
(* it owns.  Time only passes in Tick; a clock value is kept as the ticks  *)
(* that are left (deadlines) or have passed (ages, which saturate one past *)
(* the limit they are compared with).                                      *)
(***************************************************************************)
EXTENDS DbSession, Integers, FiniteSets

CONSTANTS
    MaxSessions,     \* DB_MAX_SESSIONS, the entries of the session table
    Workers,         \* worker threads; each runs one call at a time
    Keys,            \* data sources: hashes of a configuration
    PgKeys,          \* those that are PostgreSQL
    Scopes,          \* request scopes of the host
    Tokens,          \* values a resource handle can take
    None,            \* no key, scope, handle or request
    MaxOpen,         \* max_open of every data source
    MaxIdle,         \* max_idle
    IdleLimit,       \* idle_ms, in ticks
    Lifetime,        \* lifetime_ms, in ticks
    OpTimeout,       \* timeout_ms, in ticks
    AcquireLimit,    \* acquire_ms, in ticks
    Ops,             \* the operations the host's programs call
    Timed            \* whether time passes

Slots == 1..MaxSessions

OpNames == {"connection", "prepare", "run", "begin", "commit", "rollback",
            "savepoint", "cursor", "fetch", "next_result", "close_result",
            "close", "batch"}

(* db_config accepts 1 <= max_open and max_idle <= max_open.  A handle is    *)
(* random: it differs from every configuration and from every other handle.  *)
ASSUME PoolAssumption ==
    /\ MaxSessions \in Nat \ {0}
    /\ MaxOpen \in Nat \ {0}
    /\ MaxIdle \in 0..MaxOpen
    /\ PgKeys \subseteq Keys
    /\ Ops \subseteq OpNames
    /\ Keys \cap Tokens = {}
    /\ None \notin Keys \cup Tokens \cup Scopes \cup Workers

ASSUME TimeAssumption ==
    /\ IdleLimit \in Nat
    /\ Lifetime \in Nat
    /\ OpTimeout \in Nat
    /\ AcquireLimit \in Nat
    /\ Timed \in BOOLEAN

VARIABLES
    slot,      \* the table: who uses an entry and whom it belongs to
    conn,      \* the connection of an entry (DbSession)
    timer,     \* the clock values of an entry
    call,      \* the call each worker runs, with its operation slot
    ended      \* auxiliary: scopes that have ended and not begun again

vars == <<slot, conn, timer, call, ended>>

Slot == [used : BOOLEAN, busy : BOOLEAN, key : Keys \cup {None},
         scope : Scopes \cup {None}, handle : Tokens \cup {None},
         request : Workers \cup {None}, cancelled : BOOLEAN]

EmptySlot == [used |-> FALSE, busy |-> FALSE, key |-> None, scope |-> None,
              handle |-> None, request |-> None, cancelled |-> FALSE]

(* granted is auxiliary: what a lease would be had no transaction cut it.    *)
Timer == [deadline : Nat, lease : Nat, granted : Nat, idle : Nat, age : Nat]

NoTimer == [deadline |-> 0, lease |-> 0, granted |-> 0, idle |-> 0, age |-> 0]

Call == [phase : {"idle", "waiting", "connecting", "working", "releasing"},
         target : Keys \cup Tokens \cup {None}, scope : Scopes \cup {None},
         wait : Nat, slot : 0..MaxSessions, cancelled : BOOLEAN,
         reply : {"none", "ok", "committed", "error"}]

NoCall == [phase |-> "idle", target |-> None, scope |-> None, wait |-> 0,
           slot |-> 0, cancelled |-> FALSE, reply |-> "none"]

TypeOK ==
    /\ slot \in [Slots -> Slot]
    /\ conn \in [Slots -> Connection]
    /\ timer \in [Slots -> Timer]
    /\ call \in [Workers -> Call]
    /\ ended \subseteq Scopes

Init ==
    /\ slot = [i \in Slots |-> EmptySlot]
    /\ conn = [i \in Slots |-> Fresh]
    /\ timer = [i \in Slots |-> NoTimer]
    /\ call = [w \in Workers |-> NoCall]
    /\ ended = {}

-----------------------------------------------------------------------------
(* Sessions of the table.                                                    *)

Pinned(i) == slot[i].handle # None

Idle(i) == slot[i].used /\ ~slot[i].busy

Holds(w, i) ==
    /\ call[w].phase \in {"connecting", "working", "releasing"}
    /\ call[w].slot = i

(* A session the scan of db_acquire destroys when it comes across it.        *)
Expired(i) ==
    /\ Idle(i)
    /\ IF Pinned(i) THEN timer[i].lease = 0
       ELSE conn[i].broken \/ timer[i].idle > IdleLimit \/ timer[i].age > Lifetime

(* A handle lookup that does not compare the scope.                          *)
NamedMutant(w) ==
    {i \in Slots : Idle(i) /\ ~Expired(i) /\ slot[i].handle = call[w].target}

(* The session a handle names, if its caller's scope owns it.                *)
Named(w) ==
    {i \in Slots : /\ Idle(i) /\ ~Expired(i)
                   /\ slot[i].handle = call[w].target
                   /\ slot[i].scope = call[w].scope}

ByHandle(w) == call[w].target \in Tokens

(* The scan of a handle lookup stops at the session it finds.                *)
Swept(w) ==
    {i \in Slots : Expired(i) /\ \A n \in Named(w) : ByHandle(w) => i < n}

(* The scan takes the first entry it can use.                                *)
First(i, S) == i \in S /\ \A j \in S : i <= j

Destroyed(f, S, zero) == [i \in Slots |-> IF i \in S THEN zero ELSE f[i]]

(* A scan that takes a session without looking at its busy flag.             *)
ReusableMutant(w) ==
    {i \in Slots : slot[i].used /\ ~Expired(i) /\ ~Pinned(i) /\ slot[i].key = call[w].target}

(* What the scan of a lookup by key has found when it ends.                  *)
Reusable(w) ==
    {i \in Slots : Idle(i) /\ ~Expired(i) /\ ~Pinned(i) /\ slot[i].key = call[w].target}

(* A scan that does not see the entry it has just freed.                     *)
FreeMutant(w) == {i \in Slots : ~slot[i].used}

Free(w) == {i \in Slots : ~slot[i].used \/ i \in Swept(w)}

(* A scan that skips busy sessions before it counts them.                    *)
OpenOfMutant(w, k) == {i \in Slots \ Swept(w) : Idle(i) /\ slot[i].key = k}

OpenOf(w, k) == {i \in Slots \ Swept(w) : slot[i].used /\ slot[i].key = k}

MayOpen(w) ==
    /\ ~ByHandle(w)
    /\ Free(w) # {}
    /\ Cardinality(OpenOf(w, call[w].target)) < MaxOpen

-----------------------------------------------------------------------------
(* db_operation_begin and the entry of db_acquire.                           *)
Begin(w) ==
    /\ call[w].phase = "idle"
    /\ \E target \in Keys \cup Tokens, scope \in Scopes :
        /\ call' = [call EXCEPT ![w] =
                       [NoCall EXCEPT !.phase = "waiting", !.target = target,
                                      !.scope = scope,
                                      !.wait = IF target \in Keys THEN AcquireLimit ELSE 0]]
        /\ ended' = ended \ {scope}
    /\ UNCHANGED <<slot, conn, timer>>

(* One round of the loop of db_acquire ends in one of the next actions.      *)

Return(w) == call' = [call EXCEPT ![w] = NoCall]

AcquireCancelled(w) ==
    /\ call[w].phase = "waiting"
    /\ call[w].cancelled
    /\ Return(w)
    /\ UNCHANGED <<slot, conn, timer, ended>>

(* A loop that does not look at the flag of its operation slot.              *)
LookingMutant(w) == call[w].phase = "waiting"

Looking(w) == call[w].phase = "waiting" /\ ~call[w].cancelled

Sweep(w) ==
    /\ slot' = Destroyed(slot, Swept(w), EmptySlot)
    /\ conn' = Destroyed(conn, Swept(w), Fresh)
    /\ timer' = Destroyed(timer, Swept(w), NoTimer)
    /\ UNCHANGED ended

(* The session is marked busy under the mutex; a pinned one keeps its scope  *)
(* and its lease bounds the deadline of the call.                            *)
Take(w, i, s, c, t) ==
    /\ slot' = [Destroyed(slot, Swept(w), EmptySlot) EXCEPT ![i] =
                   [s EXCEPT !.busy = TRUE, !.request = w, !.cancelled = FALSE,
                             !.scope = IF s.handle = None THEN call[w].scope ELSE @]]
    /\ conn' = [Destroyed(conn, Swept(w), Fresh) EXCEPT ![i] = c]
    /\ timer' = [Destroyed(timer, Swept(w), NoTimer) EXCEPT ![i] =
                    [t EXCEPT !.idle = 0,
                              !.deadline = IF s.handle # None /\ t.lease < OpTimeout
                                           THEN t.lease ELSE OpTimeout]]
    /\ UNCHANGED ended

Hold(w, i, phase) ==
    call' = [call EXCEPT ![w].phase = phase, ![w].slot = i, ![w].wait = 0]

AcquireNamed(w) ==
    /\ Looking(w) /\ ByHandle(w)
    /\ \E i \in Named(w) :
        /\ Take(w, i, slot[i], conn[i], timer[i])
        /\ Hold(w, i, "working")

(* DB_RESOURCE: closed, expired, busy, or of another scope.                  *)
AcquireMissing(w) ==
    /\ Looking(w) /\ ByHandle(w)
    /\ Named(w) = {}
    /\ Sweep(w)
    /\ Return(w)

AcquireIdle(w) ==
    /\ Looking(w) /\ ~ByHandle(w)
    /\ \E i \in Slots :
        /\ First(i, Reusable(w))
        /\ Take(w, i, slot[i], conn[i], timer[i])
        /\ Hold(w, i, "working")

AcquireNew(w) ==
    /\ Looking(w)
    /\ Reusable(w) = {}
    /\ MayOpen(w)
    /\ \E i \in Slots :
        /\ First(i, Free(w))
        /\ Take(w, i, [EmptySlot EXCEPT !.used = TRUE, !.key = call[w].target],
                Fresh, NoTimer)
        /\ Hold(w, i, "connecting")

Saturated(w) == Looking(w) /\ ~ByHandle(w) /\ Reusable(w) = {} /\ ~MayOpen(w)

(* The wait is a timed one: the loop comes round again without a signal.     *)
AcquireWait(w) ==
    /\ Saturated(w)
    /\ call[w].wait > 0
    /\ Sweep(w)
    /\ UNCHANGED call

(* DB_POOL_TIMEOUT                                                           *)
AcquireTimeout(w) ==
    /\ Saturated(w)
    /\ call[w].wait = 0
    /\ Sweep(w)
    /\ Return(w)

Acquire(w) ==
    \/ AcquireCancelled(w)
    \/ AcquireNamed(w) \/ AcquireMissing(w)
    \/ AcquireIdle(w) \/ AcquireNew(w)
    \/ AcquireWait(w) \/ AcquireTimeout(w)

-----------------------------------------------------------------------------
(* The entry a worker was given is connected outside the mutex; when that    *)
(* fails db_discard destroys it.                                             *)
Destroy(i) ==
    /\ slot' = [slot EXCEPT ![i] = EmptySlot]
    /\ conn' = [conn EXCEPT ![i] = Fresh]
    /\ timer' = [timer EXCEPT ![i] = NoTimer]

ConnectOk(w) ==
    /\ call[w].phase = "connecting"
    /\ call' = [call EXCEPT ![w].phase = "working"]
    /\ UNCHANGED <<slot, conn, timer, ended>>

ConnectFailed(w) ==
    /\ call[w].phase = "connecting"
    /\ Destroy(call[w].slot)
    /\ Return(w)
    /\ UNCHANGED ended

-----------------------------------------------------------------------------
(* db_dispatch: what a call does with its session before it releases it.     *)

Mine(w) == conn[call[w].slot]

Postgres(w) == slot[call[w].slot].key \in PgKeys

(* The call leaves connection c and the handle h, and is answered r.         *)
Finish(w, c, h, t, r) ==
    /\ call[w].phase = "working"
    /\ conn' = [conn EXCEPT ![call[w].slot] =
                   IF h = None THEN [c EXCEPT !.origin = "none"] ELSE c]
    /\ slot' = [slot EXCEPT ![call[w].slot].handle = h]
    /\ timer' = [timer EXCEPT ![call[w].slot] = t]
    /\ call' = [call EXCEPT ![w].phase = "releasing", ![w].reply = r]
    /\ UNCHANGED ended

Leave(w, c, r) == Finish(w, c, slot[call[w].slot].handle, timer[call[w].slot], r)

Drop(w, c, r) ==
    Finish(w, c, None, [timer[call[w].slot] EXCEPT !.lease = 0, !.granted = 0], r)

(* A tx_begin that leaves the lease of a dedicated connection alone.         *)
CutLeaseMutant(w) == timer[call[w].slot]

(* tx_begin cuts the lease of a session that has one to the deadline.        *)
CutLease(w) ==
    LET t == timer[call[w].slot]
    IN IF Pinned(call[w].slot) /\ t.lease > t.deadline
       THEN [t EXCEPT !.lease = t.deadline] ELSE t

LeaveCut(w, c, r) == Finish(w, c, slot[call[w].slot].handle, CutLease(w), r)

(* db_pin: a session that has a handle keeps it; a new handle's lease is the *)
(* deadline of the call that opens a transaction or a result, else the       *)
(* lifetime.                                                                 *)
Pin(w, c, op) ==
    IF Pinned(call[w].slot) THEN Leave(w, c, "ok")
    ELSE \E token \in Tokens \ {slot[i].handle : i \in Slots} :
            LET t == timer[call[w].slot]
                lease == IF c.transaction \/ HasResult(c) THEN t.deadline ELSE Lifetime
            IN Finish(w, [c EXCEPT !.origin = op], token,
                      [t EXCEPT !.lease = lease, !.granted = lease], "ok")

(* connection                                                                *)
DoConnection(w) ==
    \/ Pin(w, [Mine(w) EXCEPT !.dedicated = TRUE], "connection")
    \/ Leave(w, Mine(w), "error")

(* prepare                                                                   *)
DoPrepare(w) ==
    LET c == Mine(w)
    IN \/ /\ c.prepared = "no" /\ ~HasResult(c) /\ ~c.transaction
          /\ Pin(w, [c EXCEPT !.prepared = "sql"], "prepare")
       \/ Leave(w, c, "error")

(* query, execute, ping, query_prepared, execute_prepared                    *)
DoRun(w) ==
    \/ \E c \in RunOk(Mine(w)) : Leave(w, c, "ok")
    \/ \E c \in RunFailed(Mine(w), Postgres(w)) : Leave(w, c, "error")

(* begin                                                                     *)
DoBegin(w) ==
    \/ /\ Begins(Mine(w), Postgres(w))
       /\ IF Pinned(call[w].slot) THEN LeaveCut(w, Begun(Mine(w)), "ok")
                                  ELSE Pin(w, Begun(Mine(w)), "begin")
    \/ \E c \in BeginFailed(Mine(w), Postgres(w)) : Leave(w, c, "error")

(* commit and rollback; only their success invalidates an ordinary handle.   *)
TxFinished(w, r) ==
    /\ CanEnd(Mine(w))
    /\ IF Mine(w).dedicated THEN Leave(w, TxEnded(Mine(w)), r)
                            ELSE Drop(w, TxEnded(Mine(w)), r)

DoCommit(w) ==
    \/ TxFinished(w, "committed")
    \/ \E c \in EndFailed(Mine(w)) : Leave(w, c, "error")

DoRollback(w) ==
    \/ TxFinished(w, "ok")
    \/ \E c \in EndFailed(Mine(w)) : Leave(w, c, "error")

(* savepoint, release_savepoint and rollback_to, which alone is obeyed in a  *)
(* transaction the server has aborted, and opens it again.                   *)
DoSavepoint(w) ==
    LET c == Mine(w)
    IN \/ /\ c.transaction
          /\ c.server = "open" \/ (c.server = "idle" /\ ~Postgres(w))
          /\ Leave(w, c, "ok")
       \/ /\ c.transaction /\ c.server = "aborted"
          /\ Leave(w, [c EXCEPT !.server = "open"], "ok")
       \/ /\ c.transaction
          /\ \E d \in Rejected(c, Postgres(w)) \cup {Lost} : Leave(w, d, "error")
       \/ Leave(w, c, "error")

(* cursor                                                                    *)
DoCursor(w) ==
    \/ \E c \in CursorOk(Mine(w)) : Pin(w, c, "cursor")
    \/ \E c \in StartFailed(Mine(w), Postgres(w)) : Leave(w, c, "error")

(* fetch                                                                     *)
DoFetch(w) ==
    \/ \E c \in FetchOk(Mine(w)) : Leave(w, c, "ok")
    \/ \E c \in FetchFailed(Mine(w)) : Leave(w, c, "error")

(* next_result                                                               *)
DoNextResult(w) ==
    \/ \E c \in NextResultOk(Mine(w), Postgres(w)) : Leave(w, c, "ok")
    \/ \E c \in NextResultFailed(Mine(w), Postgres(w)) : Leave(w, c, "error")

(* close_result                                                              *)
DoCloseResult(w) ==
    LET c == ResultClosed(Mine(w))
    IN \/ IF OutlivesResult(c) THEN Leave(w, c, "ok") ELSE Drop(w, c, "ok")
       \/ Leave(w, Mine(w), "error")

(* close                                                                     *)
DoClose(w) ==
    \/ \E c \in CloseOk(Mine(w)) : Drop(w, c, "ok")
    \/ Leave(w, Mine(w), "error")

(* transaction and execute_many                                              *)
DoBatch(w) ==
    \/ \E c \in BatchOk(Mine(w), Postgres(w)) : LeaveCut(w, c, "committed")
    \/ \E c \in BeginFailed(Mine(w), Postgres(w)) : Leave(w, c, "error")
    \/ \E c \in BatchFailed(Mine(w), Postgres(w)) : LeaveCut(w, c, "error")

(* A call that is only ended by cancelling it.                               *)
GiveUpMutant(w) ==
    /\ call[w].phase = "working"
    /\ slot[call[w].slot].cancelled
    /\ Leave(w, Lost, "error")

(* PostgreSQL: ready() ends a call whose answer does not come when its       *)
(* deadline passes or it is cancelled.  MySQL: the guard thread kills the    *)
(* query; should that fail the socket's read timeout ends it.  Either way    *)
(* the session is lost.                                                      *)
GiveUp(w) ==
    /\ call[w].phase = "working"
    /\ slot[call[w].slot].cancelled \/ timer[call[w].slot].deadline = 0
    /\ Leave(w, Lost, "error")

Dispatch(w) ==
    /\ call[w].phase = "working"
    /\ \/ "connection" \in Ops /\ DoConnection(w)
       \/ "prepare" \in Ops /\ DoPrepare(w)
       \/ "run" \in Ops /\ DoRun(w)
       \/ "begin" \in Ops /\ DoBegin(w)
       \/ "commit" \in Ops /\ DoCommit(w)
       \/ "rollback" \in Ops /\ DoRollback(w)
       \/ "savepoint" \in Ops /\ DoSavepoint(w)
       \/ "cursor" \in Ops /\ DoCursor(w)
       \/ "fetch" \in Ops /\ DoFetch(w)
       \/ "next_result" \in Ops /\ DoNextResult(w)
       \/ "close_result" \in Ops /\ DoCloseResult(w)
       \/ "close" \in Ops /\ DoClose(w)
       \/ "batch" \in Ops /\ DoBatch(w)

-----------------------------------------------------------------------------
(* db_release.  A session without a handle is reset first; it is kept when   *)
(* the reset succeeds and the data source has room for another idle session. *)
(* (What the next db_acquire overwrites is put back to its zero value.)      *)

IdleOf(k) == {i \in Slots : Idle(i) /\ slot[i].key = k}

Release(w) ==
    LET i == call[w].slot
        keep == Pinned(i)
        idle == IdleOf(slot[i].key)
    IN /\ call[w].phase = "releasing"
       /\ \E c \in IF keep \/ conn[i].broken THEN {conn[i]}
                   ELSE {Reset(conn[i]), Lost} :
            IF c.broken \/ (~keep /\ Cardinality(idle) >= MaxIdle)
            THEN Destroy(i)
            ELSE /\ slot' = [slot EXCEPT ![i].busy = FALSE, ![i].request = None,
                                         ![i].cancelled = FALSE,
                                         ![i].scope = IF keep THEN @ ELSE None]
                 /\ conn' = [conn EXCEPT ![i] = c]
                 /\ timer' = [timer EXCEPT ![i].deadline = 0, ![i].idle = 0]
       /\ Return(w)
       /\ UNCHANGED ended

(* A db_cancel that only sets the flag of the operation slot.                *)
CancelMutant(w) ==
    /\ call[w].phase # "idle"
    /\ call' = [call EXCEPT ![w].cancelled = TRUE]
    /\ UNCHANGED <<slot, conn, timer, ended>>

(* db_cancel: the operation slot and every busy session of the request.      *)
Cancel(w) ==
    /\ call[w].phase # "idle"
    /\ call' = [call EXCEPT ![w].cancelled = TRUE]
    /\ slot' = [i \in Slots |->
                   IF slot[i].used /\ slot[i].busy /\ slot[i].request = w
                   THEN [slot[i] EXCEPT !.cancelled = TRUE] ELSE slot[i]]
    /\ UNCHANGED <<conn, timer, ended>>

(* A scope end that only looks for open transactions.                        *)
OwnedMutant(scope) ==
    {i \in Slots : /\ Idle(i) /\ Pinned(i) /\ slot[i].scope = scope
                   /\ conn[i].transaction}

Owned(scope) == {i \in Slots : Idle(i) /\ Pinned(i) /\ slot[i].scope = scope}

(* db_scope_end.  The host sends it after it has consumed every response of  *)
(* the scope (comment in main.c).                                            *)
ScopeEnd(scope) ==
    /\ \A w \in Workers : call[w].scope # scope
    /\ slot' = Destroyed(slot, Owned(scope), EmptySlot)
    /\ conn' = Destroyed(conn, Owned(scope), Fresh)
    /\ timer' = Destroyed(timer, Owned(scope), NoTimer)
    /\ ended' = ended \cup {scope}
    /\ UNCHANGED call

(* A countdown that does not stop at zero.                                   *)
DownMutant(n) == n - 1

Down(n) == IF n = 0 THEN 0 ELSE n - 1

Up(n, limit) == IF n > limit THEN n ELSE n + 1

(* Clock values that mean nothing in a session's state stay 0.               *)
Tick ==
    /\ Timed
    /\ timer' = [i \in Slots |->
                    [deadline |-> Down(timer[i].deadline),
                     lease    |-> Down(timer[i].lease),
                     granted  |-> Down(timer[i].granted),
                     idle     |-> IF Idle(i) /\ ~Pinned(i)
                                  THEN Up(timer[i].idle, IdleLimit) ELSE timer[i].idle,
                     age      |-> IF slot[i].used
                                  THEN Up(timer[i].age, Lifetime) ELSE timer[i].age]]
    /\ call' = [w \in Workers |-> [call[w] EXCEPT !.wait = Down(@)]]
    /\ UNCHANGED <<slot, conn, ended>>

Next ==
    \/ \E w \in Workers :
          \/ Begin(w) \/ Acquire(w) \/ ConnectOk(w) \/ ConnectFailed(w)
          \/ Dispatch(w) \/ GiveUp(w) \/ Release(w) \/ Cancel(w)
    \/ \E scope \in Scopes : ScopeEnd(scope)
    \/ Tick

Spec == Init /\ [][Next]_vars

-----------------------------------------------------------------------------
(* Fairness.  A thread in a critical section of the pool, in a connect (it   *)
(* has connect_ms) or in a release gets on with it; a call whose deadline    *)
(* has passed or that is cancelled is given up.  That a server answers, or   *)
(* that time passes, is not assumed.                                         *)
FairSpec ==
    /\ Spec
    /\ \A w \in Workers :
          /\ WF_vars(Acquire(w))
          /\ WF_vars(ConnectOk(w) \/ ConnectFailed(w))
          /\ WF_vars(GiveUp(w))
          /\ WF_vars(Release(w))

-----------------------------------------------------------------------------
(* Invariants.                                                               *)

(* A session is busy exactly while one call owns it: no two threads touch a  *)
(* connection, and no session stays marked busy when its call is over, which *)
(* would shrink the pool for good (db_acquire, db_release, db_discard).      *)
ExclusiveUse ==
    /\ \A w \in Workers, i \in Slots :
          Holds(w, i) => slot[i].used /\ slot[i].busy /\ slot[i].request = w
    /\ \A i \in Slots : slot[i].busy => \E w \in Workers : Holds(w, i)

(* No interleaving of the scans opens more sessions for a data source than   *)
(* its max_open, connecting and pinned ones included.                        *)
OpenWithinMax ==
    \A k \in Keys : Cardinality({i \in Slots : slot[i].used /\ slot[i].key = k}) <= MaxOpen

(* However many calls release at once, a data source keeps at most max_idle  *)
(* reusable idle sessions.                                                   *)
IdleWithinMax ==
    \A k \in Keys :
        Cardinality({i \in Slots : Idle(i) /\ ~Pinned(i) /\ slot[i].key = k}) <= MaxIdle

(* The limits of a data source hold for open and for idle sessions.          *)
WithinMax == OpenWithinMax /\ IdleWithinMax

(* A session any caller may be given is sound and carries nothing of its     *)
(* last user on the server: no transaction, no unread result; and a broken   *)
(* session is never idle, not even for the owner of its handle.              *)
IdleClean ==
    \A i \in Slots : Idle(i) =>
        /\ ~conn[i].broken
        /\ ~Pinned(i) => conn[i].server = "idle" /\ conn[i].result = "none"

(* A cancellation that arrives at any moment of a call is seen: a call that  *)
(* was cancelled never holds a session whose own flag is clear (db_cancel    *)
(* sets two flags, db_acquire reads one and clears the other).               *)
CancelReaches ==
    \A w \in Workers, i \in Slots : Holds(w, i) /\ call[w].cancelled => slot[i].cancelled

(* A resource is only ever used by calls of the scope that opened it.        *)
ScopeConfined ==
    \A w \in Workers, i \in Slots : Holds(w, i) => slot[i].scope = call[w].scope

(* Once a scope has ended none of its resources is left, not even one that a *)
(* call of the scope released at the last moment.                            *)
EndedScopeHoldsNothing ==
    \A i \in Slots : Pinned(i) => slot[i].scope \notin ended

(* A transaction lives no longer than one operation's budget, also when it   *)
(* was begun on a connection whose own lease is much longer (README of the   *)
(* extension: transaction leases retain their initial operation deadline).   *)
TransactionLease ==
    \A i \in Slots : Pinned(i) /\ conn[i].transaction => timer[i].lease <= OpTimeout

-----------------------------------------------------------------------------
(* Action properties.                                                        *)

(* DB_POOL_TIMEOUT is only answered when the pool really had nothing to give *)
(* at that moment: no reusable session, and no entry or budget for a new one.*)
TimeoutOnlyWhenFull ==
    [][\A w \in Workers :
          /\ call[w].phase = "waiting" /\ call'[w].phase = "idle"
          /\ call[w].target \in Keys /\ ~call[w].cancelled
          => LET open == {i \in Slots : slot'[i].used /\ slot'[i].key = call[w].target}
             IN /\ \A i \in open : slot'[i].busy \/ slot'[i].handle # None
                /\ \/ Cardinality(open) >= MaxOpen
                   \/ \A i \in Slots : slot'[i].used]_vars

(* A commit that is answered with success was a commit for the server.       *)
CommitMeansCommitted ==
    [][\A w \in Workers :
          call[w].phase = "working" /\ call'[w].reply = "committed" /\ Mine(w).transaction
          => Mine(w).server = "open"]_vars

(* A successful commit invalidates the handle that begin issued.             *)
CommitInvalidatesHandle ==
    [][\A w \in Workers :
          /\ call[w].phase = "working" /\ call'[w].reply = "committed"
          /\ Mine(w).transaction /\ Mine(w).origin = "begin"
          => slot'[call[w].slot].handle = None]_vars

(* A statement that is obeyed inside a transaction does not end it: SQL that  *)
(* commits, also implicitly, is excluded from a transaction.                 *)
StatementKeepsTransaction ==
    [][\A w \in Workers :
          LET left == conn'[call[w].slot]
          IN call[w].phase = "working" /\ call'[w].reply = "ok" /\ left.transaction
             => (Mine(w).server = "open" => left.server = "open")]_vars

(* A session is reset before reuse: an idle one that anybody may be given    *)
(* holds no prepared statement of its last user.                             *)
IdleUnprepared ==
    \A i \in Slots : Idle(i) /\ ~Pinned(i) => conn[i].prepared = "no"

(* The lease of a dedicated connection is its lifetime again once its        *)
(* transaction is over.                                                      *)
ConnectionLease ==
    \A i \in Slots :
        /\ Idle(i) /\ Pinned(i) /\ conn[i].origin = "connection"
        /\ ~conn[i].transaction /\ ~HasResult(conn[i])
        => timer[i].lease = timer[i].granted

-----------------------------------------------------------------------------
(* Liveness.                                                                 *)

(* As long as time passes every call ends, even if no server ever answers    *)
(* and no session is ever given back: the wait for a session and the use of  *)
(* it are both bounded.                                                      *)
CallEnds ==
    WF_vars(Tick) => \A w \in Workers : call[w].phase # "idle" ~> call[w].phase = "idle"

(* Cancelling alone ends the wait for a session and the use of it, also when *)
(* no clock of the pool reaches a deadline (see GiveUp for what ends a       *)
(* statement; connect and reset have socket timeouts).                       *)
CancelEnds == \A w \in Workers : call[w].cancelled ~> call[w].phase = "idle"
=============================================================================
