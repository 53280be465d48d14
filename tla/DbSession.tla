------------------------------- MODULE DbSession -------------------------------
(***************************************************************************)
(* What one native database session goes through while a call of the       *)
(* database extension owns it (extensions/database/src/database.c and      *)
(* driver.c).  The module has no state: an operator takes the connection a *)
(* call was given and yields the set of connections it may leave behind,   *)
(* one for each way the statements it sends can end.  DbPool turns them    *)
(* into actions.                                                           *)
(*                                                                         *)
(* A statement can be obeyed, be refused before it is sent (an argument,   *)
(* the state of the resource, a guard thread that cannot be created), be   *)
(* answered with an SQL error, or be lost: connection lost, deadline       *)
(* passed, call cancelled.  Only the last one marks the session broken.    *)
(***************************************************************************)
EXTENDS Naturals

(* One connection:                                                           *)
(*   broken       the session must be destroyed, never reused                *)
(*   transaction  the flag by which database.c remembers a transaction       *)
(*   result       columns and result_end: no result, one with rows left to   *)
(*                read, one that is read to its end, or ("stuck") none but   *)
(*                with its statement still in the way of the next one        *)
(*   dedicated    the session was handed out by database.connection          *)
(*   prepared     prepared_sql and prepared_ready                            *)
(*   server       what the database server itself thinks: no transaction,    *)
(*                an open one, one it has aborted (PostgreSQL)               *)
(*   origin       auxiliary: the operation that issued the current handle    *)
Connection == [broken      : BOOLEAN,
               transaction : BOOLEAN,
               result      : {"none", "open", "ended", "stuck"},
               dedicated   : BOOLEAN,
               prepared    : {"no", "sql", "ready"},
               server      : {"idle", "open", "aborted"},
               origin      : {"none", "connection", "prepare", "begin", "cursor"}]

(* destroy() and the reservation of a free entry zero the whole struct.      *)
Fresh == [broken |-> FALSE, transaction |-> FALSE, result |-> "none",
          dedicated |-> FALSE, prepared |-> "no", server |-> "idle",
          origin |-> "none"]

(* A broken session is destroyed when its call releases it: nothing else of  *)
(* it is read again.                                                         *)
Lost == [Fresh EXCEPT !.broken = TRUE]

(* The server's reaction to a statement that fails: PostgreSQL aborts an     *)
(* open transaction; MySQL keeps it, or rolls it back (deadlock victim).     *)
Rejected(c, pg) ==
    IF c.server = "idle" THEN {c}
    ELSE IF pg THEN {[c EXCEPT !.server = "aborted"]}
    ELSE {c, [c EXCEPT !.server = "idle"]}

-----------------------------------------------------------------------------
(* Transaction control: tx_begin and tx_end.                                 *)

HasResult(c) == c.result \in {"open", "ended"}

CanBegin(c) == ~c.transaction /\ ~HasResult(c)

(* The server begins one too: MySQL refuses the isolation level inside a     *)
(* transaction of the caller's own, PostgreSQL only when it has aborted it.  *)
Begins(c, pg) == CanBegin(c) /\ (c.server = "idle" \/ (pg /\ c.server = "open"))

Begun(c) == [c EXCEPT !.transaction = TRUE, !.server = "open"]

BeginFailed(c, pg) == {c} \cup (IF CanBegin(c) THEN {Lost} \cup Rejected(c, pg) ELSE {})

CanEnd(c) == c.transaction /\ ~HasResult(c)

(* COMMIT or ROLLBACK answered with success.  For a transaction the server   *)
(* has aborted, PostgreSQL answers COMMIT with success too, and rolls back.  *)
TxEnded(c) == [c EXCEPT !.transaction = FALSE, !.server = "idle"]

(* tx_end forgets the transaction whatever became of the statement: it was   *)
(* not sent, the server rolled back and said so, or the answer was lost.     *)
EndFailed(c) ==
    LET forgotten == [c EXCEPT !.transaction = FALSE]
    IN IF CanEnd(c) THEN {forgotten, TxEnded(c), Lost} ELSE {c}

-----------------------------------------------------------------------------
(* Statements: db_start, db_fetch, db_next_result and run.                   *)

CanStart(c) == c.result = "none" \/ (c.result = "stuck" /\ c.prepared # "no")

(* The first execution prepares the statement.                               *)
Readied(c) == IF c.prepared = "sql" THEN [c EXCEPT !.prepared = "ready"] ELSE c

(* A statement the server obeys and whose result is read to its end; it may  *)
(* be a BEGIN or COMMIT of the caller's own, which no flag records.          *)
Unrestricted(c) ==
    {[Readied(c) EXCEPT !.result = "none", !.server = v] : v \in {"idle", "open"}}

(* run restricts the SQL of a transaction to what cannot end it.             *)
Obeyed(c) ==
    IF ~c.transaction THEN Unrestricted(c)
    ELSE IF c.server = "aborted" THEN {}
    ELSE {[Readied(c) EXCEPT !.result = "none"]}

(* db_start did not produce a result.                                        *)
StartFailed(c, pg) ==
    {c} \cup (IF CanStart(c)
              THEN {Lost} \cup Rejected(c, pg) \cup Rejected(Readied(c), pg)
              ELSE {})

Started(D) == {[d EXCEPT !.result = r] : d \in D, r \in {"open", "ended"}}

(* query, execute, ping and the prepared forms: start, fetch, finish.  A     *)
(* result that is not read to its end breaks the session, and is answered    *)
(* with success all the same.                                                *)
RunOk(c) == IF CanStart(c) THEN Obeyed(c) \cup {Lost} ELSE {}

(* A fetch that cannot start its guard leaves the result behind, unbroken.   *)
RunFailed(c, pg) ==
    StartFailed(c, pg)
        \cup (IF CanStart(c) THEN Started(Obeyed(c)) \cup {Lost} ELSE {})

(* cursor calls db_start itself: its SQL is not restricted.                  *)
CursorOk(c) == IF CanStart(c) THEN Started(Unrestricted(c)) ELSE {}

FetchOk(c) ==
    IF c.result = "open" THEN {c, [c EXCEPT !.result = "ended"]}
    ELSE IF c.result = "ended" THEN {c} ELSE {}

FetchFailed(c) == IF c.result = "open" THEN {c, Lost} ELSE {c}

CanAdvance(c, pg) == c.result = "ended" /\ ~pg

NextResultOk(c, pg) ==
    IF CanAdvance(c, pg) THEN {[c EXCEPT !.result = r] : r \in {"open", "ended"}} ELSE {}

NextResultFailed(c, pg) ==
    LET dropped == [c EXCEPT !.result = "stuck"]
    IN {c} \cup (IF CanAdvance(c, pg) THEN {dropped, Lost} ELSE {})

-----------------------------------------------------------------------------
(* Closing: close_result, close, and the reset before a session is reused.   *)

ResultClosed(c) == IF c.result = "open" THEN Lost ELSE [c EXCEPT !.result = "none"]

(* close_result keeps the handle of a resource that is more than a result.   *)
OutlivesResult(c) == c.transaction \/ c.prepared # "no" \/ c.dedicated

(* close rolls an outstanding transaction back; when that fails the session  *)
(* is broken.                                                                *)
CloseOk(c) ==
    LET closed == [ResultClosed(c) EXCEPT !.prepared = "no"]
    IN IF closed.transaction /\ ~closed.broken
       THEN {TxEnded(closed)} \cup {Lost}
       ELSE {closed}

(* A reset that forgets the ROLLBACK of an open transaction.                 *)
ResetMutant(c) == [c EXCEPT !.result = "none"]

(* db_reset: the result is dropped and the server's session state cleared.   *)
Reset(c) == [c EXCEPT !.result = "none", !.server = "idle"]

-----------------------------------------------------------------------------
(* transaction and execute_many: begin, a few statements, commit.            *)

BatchOk(c, pg) ==
    IF Begins(c, pg) THEN {TxEnded(d) : d \in Obeyed(Begun(c))} ELSE {}

(* The state in which a statement of the batch failed.                       *)
BatchStopped(c, pg) == RunFailed(Begun(c), pg)

(* After a failure the batch rolls back unless the session is broken, and    *)
(* ignores what becomes of the rollback.                                     *)
BatchUndone(d) ==
    IF d.broken THEN {d}
    ELSE (IF CanEnd(d) THEN {TxEnded(d)} ELSE {}) \cup EndFailed(d)

BatchFailed(c, pg) ==
    IF Begins(c, pg)
    THEN (UNION {BatchUndone(d) : d \in BatchStopped(c, pg)}) \cup EndFailed(Begun(c))
    ELSE {}
=============================================================================
