----------------------------- MODULE DbPoolProofs -----------------------------
(***************************************************************************)
(* Proofs about the session pool, for every number of threads, entries,    *)
(* scopes and handles.  The argument rests on one inductive invariant,     *)
(* Owned sessions: the busy flag, the request and the calls in progress    *)
(* say the same thing about who uses which entry of the table.  First,     *)
(* what every operation on a database session may leave behind, for all    *)
(* connections and both drivers: the proofs about the pool cite that       *)
(* instead of the definitions of the operations.                           *)
(***************************************************************************)
EXTENDS DbPool, FiniteSetTheorems, TLAPS

-----------------------------------------------------------------------------
(* Database sessions.                                                        *)

(* A connection an operation that does not begin a transaction may leave.    *)
Follows(c, d) == d \in Connection /\ (d.transaction => c.transaction)

(* The connection of an entry that was just reserved, and a broken one.      *)
LEMMA Constants ==
    /\ Fresh \in Connection /\ ~Fresh.transaction /\ ~Fresh.broken
    /\ Lost \in Connection /\ ~Lost.transaction /\ Lost.broken
BY DEF Fresh, Lost, Connection

(* A statement the server refuses leaves a connection that follows.          *)
LEMMA RejectedFollows ==
    ASSUME NEW c \in Connection, NEW pg \in BOOLEAN, NEW d \in Rejected(c, pg)
    PROVE  Follows(c, d)
BY DEF Rejected, Follows, Connection

(* So does the first execution of a prepared statement.                      *)
LEMMA ReadiedFollows ==
    ASSUME NEW c \in Connection
    PROVE  Follows(c, Readied(c))
BY DEF Readied, Follows, Connection

LEMMA FollowsTransitive ==
    ASSUME NEW c, NEW d, NEW e, Follows(c, d), Follows(d, e)
    PROVE  Follows(c, e)
BY DEF Follows

LEMMA LostFollows == ASSUME NEW c PROVE Follows(c, Lost)
BY Constants DEF Follows

(* Statements that are obeyed.                                               *)
LEMMA ObeyedFollows ==
    ASSUME NEW c \in Connection
    PROVE  /\ \A d \in Unrestricted(c) : Follows(c, d)
           /\ \A d \in Obeyed(c) : Follows(c, d)
<1>1. Follows(c, Readied(c))
  BY ReadiedFollows
<1>2. \A d \in Unrestricted(c) : Follows(c, d)
  <2>1. ASSUME NEW v \in {"idle", "open"}
        PROVE  Follows(c, [Readied(c) EXCEPT !.result = "none", !.server = v])
    BY <1>1 DEF Follows, Connection
  <2> QED BY <2>1 DEF Unrestricted
<1>3. \A d \in Obeyed(c) : Follows(c, d)
  BY <1>1, <1>2 DEF Obeyed, Follows, Connection
<1> QED BY <1>2, <1>3

LEMMA StartedFollows ==
    ASSUME NEW c, NEW D, \A d \in D : Follows(c, d)
    PROVE  \A d \in Started(D) : Follows(c, d)
BY DEF Started, Follows, Connection

(* Statements that fail, at whatever point.                                  *)
LEMMA StartFailedFollows ==
    ASSUME NEW c \in Connection, NEW pg \in BOOLEAN, NEW d \in StartFailed(c, pg)
    PROVE  Follows(c, d)
<1>1. Follows(c, c)
  BY DEF Follows
<1>2. CASE d = c
  BY <1>1, <1>2
<1>3. CASE d = Lost
  BY <1>3, LostFollows
<1>4. CASE d \in Rejected(c, pg)
  BY <1>4, RejectedFollows
<1>5. CASE d \in Rejected(Readied(c), pg)
  <2>1. Follows(c, Readied(c))
    BY ReadiedFollows
  <2>2. Follows(Readied(c), d)
    BY <1>5, <2>1, RejectedFollows DEF Follows
  <2> QED BY <2>1, <2>2, FollowsTransitive
<1> QED BY <1>2, <1>3, <1>4, <1>5 DEF StartFailed

(* query, execute, ping and the prepared forms.                              *)
LEMMA RunFollows ==
    ASSUME NEW c \in Connection, NEW pg \in BOOLEAN
    PROVE  /\ \A d \in RunOk(c) : Follows(c, d)
           /\ \A d \in RunFailed(c, pg) : Follows(c, d)
<1>1. \A d \in RunOk(c) : Follows(c, d)
  BY ObeyedFollows, LostFollows DEF RunOk
<1>2. \A d \in Started(Obeyed(c)) : Follows(c, d)
  BY ObeyedFollows, StartedFollows
<1>3. \A d \in RunFailed(c, pg) : Follows(c, d)
  BY <1>2, StartFailedFollows, LostFollows DEF RunFailed
<1> QED BY <1>1, <1>3

(* cursor, fetch and next_result.                                            *)
LEMMA CursorFollows ==
    ASSUME NEW c \in Connection, NEW pg \in BOOLEAN
    PROVE  /\ \A d \in CursorOk(c) : Follows(c, d)
           /\ \A d \in FetchOk(c) \cup FetchFailed(c) : Follows(c, d)
           /\ \A d \in NextResultOk(c, pg) \cup NextResultFailed(c, pg) : Follows(c, d)
<1>1. \A d \in CursorOk(c) : Follows(c, d)
  BY ObeyedFollows, StartedFollows DEF CursorOk
<1>2. \A d \in FetchOk(c) \cup FetchFailed(c) : Follows(c, d)
  BY LostFollows DEF FetchOk, FetchFailed, Follows, Connection
<1>3. \A d \in NextResultOk(c, pg) \cup NextResultFailed(c, pg) : Follows(c, d)
  BY LostFollows DEF NextResultOk, NextResultFailed, Follows, Connection
<1> QED BY <1>1, <1>2, <1>3

(* begin that fails, and the ways a transaction ends.                        *)
LEMMA TransactionFollows ==
    ASSUME NEW c \in Connection, NEW pg \in BOOLEAN
    PROVE  /\ \A d \in BeginFailed(c, pg) : Follows(c, d)
           /\ Begun(c) \in Connection
           /\ Follows(c, TxEnded(c)) /\ ~TxEnded(c).transaction
           /\ \A d \in EndFailed(c) : Follows(c, d)
<1>1. \A d \in BeginFailed(c, pg) : Follows(c, d)
  <2>1. Follows(c, c)
    BY DEF Follows
  <2> QED BY <2>1, RejectedFollows, LostFollows DEF BeginFailed
<1>2. Begun(c) \in Connection
  BY DEF Begun, Connection
<1>3. Follows(c, TxEnded(c)) /\ ~TxEnded(c).transaction
  BY DEF TxEnded, Follows, Connection
<1>4. \A d \in EndFailed(c) : Follows(c, d)
  <2>1. Follows(c, [c EXCEPT !.transaction = FALSE])
    BY DEF Follows, Connection
  <2> QED BY <1>3, <2>1, LostFollows DEF EndFailed, Follows
<1> QED BY <1>1, <1>2, <1>3, <1>4

(* close_result, close and the reset before reuse.                           *)
LEMMA CloseFollows ==
    ASSUME NEW c \in Connection
    PROVE  /\ Follows(c, ResultClosed(c))
           /\ \A d \in CloseOk(c) : Follows(c, d)
           /\ Follows(c, Reset(c)) /\ Reset(c).broken = c.broken
           /\ Reset(c).server = "idle" /\ Reset(c).result = "none"
<1>1. Follows(c, ResultClosed(c))
  BY LostFollows DEF ResultClosed, Follows, Connection
<1>2. \A d \in CloseOk(c) : Follows(c, d)
  <2> DEFINE closed == [ResultClosed(c) EXCEPT !.prepared = "no"]
  <2>1. Follows(c, closed)
    BY <1>1 DEF Follows, Connection
  <2>2. Follows(c, TxEnded(closed))
    <3>1. closed \in Connection
      BY <2>1 DEF Follows
    <3>2. Follows(closed, TxEnded(closed))
      BY <3>1, TransactionFollows
    <3> QED BY <2>1, <3>2, FollowsTransitive
  <2>3. CloseOk(c) \subseteq {closed, TxEnded(closed), Lost}
    BY DEF CloseOk
  <2> QED BY <2>1, <2>2, <2>3, LostFollows
<1>3. Follows(c, Reset(c)) /\ Reset(c).broken = c.broken
      /\ Reset(c).server = "idle" /\ Reset(c).result = "none"
  BY DEF Reset, Follows, Connection
<1> QED BY <1>1, <1>2, <1>3

(* transaction and execute_many may leave the transaction they began.        *)
LEMMA BatchTyped ==
    ASSUME NEW c \in Connection, NEW pg \in BOOLEAN
    PROVE  /\ \A d \in BatchOk(c, pg) : d \in Connection
           /\ \A d \in BatchFailed(c, pg) : d \in Connection
<1>1. Begun(c) \in Connection
  BY TransactionFollows
<1>2. \A d \in BatchOk(c, pg) : d \in Connection
  BY <1>1, ObeyedFollows, TransactionFollows DEF BatchOk, Follows
<1>3. ASSUME NEW d \in Connection, NEW e \in BatchUndone(d)
      PROVE  e \in Connection
  BY <1>3, TransactionFollows DEF BatchUndone, Follows
<1>4. \A d \in BatchStopped(c, pg) : d \in Connection
  BY <1>1, RunFollows DEF BatchStopped, Follows
<1>5. \A d \in EndFailed(Begun(c)) : d \in Connection
  BY <1>1, TransactionFollows DEF Follows
<1>6. \A d \in BatchFailed(c, pg) : d \in Connection
  <2>1. ASSUME NEW d \in BatchStopped(c, pg), NEW e \in BatchUndone(d)
        PROVE  e \in Connection
    BY <1>3, <1>4
  <2> QED BY <1>5, <2>1 DEF BatchFailed
<1> QED BY <1>2, <1>6

-----------------------------------------------------------------------------
(* Who owns which entry.                                                     *)

Replies == {"none", "ok", "committed", "error"}

Holding == {"connecting", "working", "releasing"}

(* Who owns an entry: a call that has one is its request, and a busy entry   *)
(* has a request that is such a call.                                        *)
Ownership ==
    /\ \A w \in Workers : call[w].phase \in Holding => call[w].slot \in Slots
    /\ \A w \in Workers : call[w].phase \in Holding =>
          LET s == slot[call[w].slot] IN s.used /\ s.busy /\ s.request = w
    /\ \A i \in Slots : slot[i].busy =>
          /\ slot[i].request \in Workers
          /\ call[slot[i].request].phase \in Holding
          /\ call[slot[i].request].slot = i

(* A session in a transaction does not outlive one operation's budget.       *)
LeaseBound ==
    /\ \A i \in Slots : timer[i].deadline <= OpTimeout
    /\ TransactionLease

-----------------------------------------------------------------------------
(* What a call does with its session, seen from the pool: whichever of the   *)
(* operations it is, it leaves some connection, handle and lease.            *)
Finishes(w) ==
    \E c \in Connection, h \in Tokens \cup {None}, t \in Timer, r \in Replies :
        /\ Finish(w, c, h, t, r)
        /\ t.deadline = timer[call[w].slot].deadline
        /\ LeaseBound => (c.transaction /\ h # None => t.lease <= OpTimeout)

(* The session of a call that works on it is well typed.                     *)
LEMMA MineTyped ==
    ASSUME TypeOK, Ownership, NEW w \in Workers, call[w].phase = "working"
    PROVE  /\ call[w].slot \in Slots
           /\ Mine(w) \in Connection
           /\ timer[call[w].slot] \in Timer
           /\ slot[call[w].slot] \in Slot
           /\ slot[call[w].slot].handle \in Tokens \cup {None}
           /\ Postgres(w) \in BOOLEAN
<1>1. call[w].slot \in Slots
  BY DEF Ownership, Holding
<1>2. slot[call[w].slot] \in Slot
  BY <1>1 DEF TypeOK
<1> QED BY <1>1, <1>2 DEF TypeOK, Mine, Postgres, Slot

(* A call that keeps its handle and its lease, and begins no transaction.    *)
LEMMA LeaveFinishes ==
    ASSUME TypeOK, Ownership, NEW w \in Workers, call[w].phase = "working",
           NEW c, Follows(Mine(w), c), NEW r \in Replies, Leave(w, c, r)
    PROVE  Finishes(w)
<1> DEFINE i == call[w].slot
<1>1. Finish(w, c, slot[i].handle, timer[i], r)
  BY DEF Leave
<1>2. LeaseBound => (c.transaction /\ slot[i].handle # None => timer[i].lease <= OpTimeout)
  BY MineTyped DEF LeaseBound, TransactionLease, Follows, Mine, Pinned
<1>3. c \in Connection
  BY DEF Follows
<1> QED BY <1>1, <1>2, <1>3, MineTyped DEF Finishes

(* A call that may have begun a transaction: the lease was cut.              *)
LEMMA LeaveCutFinishes ==
    ASSUME TypeOK, Ownership, NEW w \in Workers, call[w].phase = "working",
           NEW c \in Connection, NEW r \in Replies, LeaveCut(w, c, r)
    PROVE  Finishes(w)
<1> DEFINE i == call[w].slot
           t == CutLease(w)
<1>0. i \in Slots /\ timer[i] \in Timer /\ slot[i].handle \in Tokens \cup {None}
  BY MineTyped
<1>1. Finish(w, c, slot[i].handle, t, r)
  BY DEF LeaveCut
<1>2. t \in Timer /\ t.deadline = timer[i].deadline
  BY <1>0 DEF CutLease, Timer
<1>3. slot[i].handle # None => t.lease <= timer[i].deadline
  BY <1>0 DEF CutLease, Timer, Pinned
<1>4. LeaseBound => (c.transaction /\ slot[i].handle # None => t.lease <= OpTimeout)
  <2>1. LeaseBound => timer[i].deadline <= OpTimeout
    BY <1>0 DEF LeaseBound
  <2>2. t.lease \in Nat /\ timer[i].deadline \in Nat /\ OpTimeout \in Nat
    BY <1>0, <1>2, TimeAssumption DEF Timer
  <2> QED BY <1>3, <2>1, <2>2
<1> QED BY <1>0, <1>1, <1>2, <1>4 DEF Finishes

(* A call that gives its handle up.                                          *)
LEMMA DropFinishes ==
    ASSUME TypeOK, Ownership, NEW w \in Workers, call[w].phase = "working",
           NEW c \in Connection, NEW r \in Replies, Drop(w, c, r)
    PROVE  Finishes(w)
<1> DEFINE t == [timer[call[w].slot] EXCEPT !.lease = 0, !.granted = 0]
<1>1. Finish(w, c, None, t, r)
  BY DEF Drop
<1>2. t \in Timer /\ t.deadline = timer[call[w].slot].deadline
  BY MineTyped DEF Timer
<1> QED BY <1>1, <1>2 DEF Finishes

(* A call that is answered with a handle.                                    *)
LEMMA PinFinishes ==
    ASSUME TypeOK, Ownership, NEW w \in Workers, call[w].phase = "working",
           NEW c \in Connection, Pinned(call[w].slot) => Follows(Mine(w), c),
           NEW op \in {"connection", "prepare", "begin", "cursor"}, Pin(w, c, op)
    PROVE  Finishes(w)
<1> DEFINE i == call[w].slot
<1>1. CASE Pinned(i)
  BY <1>1, LeaveFinishes DEF Pin, Replies
<1>2. CASE ~Pinned(i)
  <2> DEFINE lease == IF c.transaction \/ HasResult(c) THEN timer[i].deadline ELSE Lifetime
             t == [timer[i] EXCEPT !.lease = lease, !.granted = lease]
             d == [c EXCEPT !.origin = op]
  <2>1. PICK token \in Tokens : Finish(w, d, token, t, "ok")
    BY <1>2 DEF Pin
  <2>2. i \in Slots /\ timer[i] \in Timer
    BY MineTyped
  <2>3. lease \in Nat
    BY <2>2, TimeAssumption DEF Timer
  <2>4. t \in Timer /\ t.deadline = timer[i].deadline /\ t.lease = lease
    BY <2>2, <2>3 DEF Timer
  <2>5. d \in Connection /\ d.transaction = c.transaction
    BY DEF Connection
  <2>6. LeaseBound => (d.transaction /\ token # None => t.lease <= OpTimeout)
    BY <2>2, <2>4, <2>5 DEF LeaseBound
  <2> QED BY <2>1, <2>4, <2>5, <2>6 DEF Finishes, Replies
<1> QED BY <1>1, <1>2

(* Every operation of db_dispatch, and a call that is given up.              *)
LEMMA DispatchFinishes ==
    ASSUME TypeOK, Ownership, NEW w \in Workers, Dispatch(w) \/ GiveUp(w)
    PROVE  Finishes(w)
<1>0. call[w].phase = "working"
  BY DEF Dispatch, GiveUp
<1> DEFINE c == Mine(w)
           pg == Postgres(w)
<1>1. c \in Connection /\ pg \in BOOLEAN
  BY <1>0, MineTyped
<1>2. Follows(c, c)
  BY <1>1 DEF Follows
<1>3. "ok" \in Replies /\ "error" \in Replies /\ "committed" \in Replies
  BY DEF Replies
<1>4. ASSUME NEW d, Follows(c, d), NEW r \in Replies, Leave(w, d, r)
      PROVE  Finishes(w)
  BY <1>0, <1>4, LeaveFinishes
<1>5. ASSUME NEW d, Follows(c, d), NEW r \in Replies, Drop(w, d, r)
      PROVE  Finishes(w)
  BY <1>0, <1>5, DropFinishes DEF Follows
<1>6. ASSUME NEW d, Follows(c, d),
             NEW op \in {"connection", "prepare", "begin", "cursor"}, Pin(w, d, op)
      PROVE  Finishes(w)
  BY <1>0, <1>6, PinFinishes DEF Follows
<1>7. ASSUME NEW d \in Connection, NEW r \in Replies, LeaveCut(w, d, r)
      PROVE  Finishes(w)
  BY <1>0, <1>7, LeaveCutFinishes
<1>8. CASE GiveUp(w)
  BY <1>3, <1>4, <1>8, LostFollows DEF GiveUp
<1>9. CASE DoConnection(w)
  <2>1. Follows(c, [c EXCEPT !.dedicated = TRUE])
    BY <1>1 DEF Follows, Connection
  <2> QED BY <1>2, <1>3, <1>4, <1>6, <1>9, <2>1 DEF DoConnection
<1>10. CASE DoPrepare(w)
  <2>1. Follows(c, [c EXCEPT !.prepared = "sql"])
    BY <1>1 DEF Follows, Connection
  <2> QED BY <1>2, <1>3, <1>4, <1>6, <1>10, <2>1 DEF DoPrepare
<1>11. CASE DoRun(w)
  BY <1>1, <1>3, <1>4, <1>11, RunFollows DEF DoRun
<1>12. CASE DoBegin(w)
  <2>1. Begun(c) \in Connection
    BY <1>1, TransactionFollows
  <2>2. CASE \E d \in BeginFailed(c, pg) : Leave(w, d, "error")
    BY <1>1, <1>3, <1>4, <2>2, TransactionFollows
  <2>3. CASE Pinned(call[w].slot) /\ LeaveCut(w, Begun(c), "ok")
    BY <1>3, <1>7, <2>1, <2>3
  <2>4. CASE ~Pinned(call[w].slot) /\ Pin(w, Begun(c), "begin")
    BY <1>0, <2>1, <2>4, PinFinishes
  <2> QED BY <1>12, <2>2, <2>3, <2>4 DEF DoBegin
<1>13. ASSUME NEW r \in Replies, TxFinished(w, r)
       PROVE  Finishes(w)
  <2>1. Follows(c, TxEnded(c))
    BY <1>1, TransactionFollows
  <2> QED BY <1>4, <1>5, <1>13, <2>1 DEF TxFinished
<1>14. ASSUME NEW d \in EndFailed(c), Leave(w, d, "error")
       PROVE  Finishes(w)
  BY <1>1, <1>3, <1>4, <1>14, TransactionFollows
<1>15. CASE DoCommit(w) \/ DoRollback(w)
  BY <1>3, <1>13, <1>14, <1>15 DEF DoCommit, DoRollback
<1>16. CASE DoSavepoint(w)
  <2>1. Follows(c, [c EXCEPT !.server = "open"])
    BY <1>1 DEF Follows, Connection
  <2>2. \A d \in Rejected(c, pg) \cup {Lost} : Follows(c, d)
    BY <1>1, RejectedFollows, LostFollows
  <2> QED BY <1>2, <1>3, <1>4, <1>16, <2>1, <2>2 DEF DoSavepoint
<1>17. CASE DoCursor(w)
  BY <1>1, <1>3, <1>4, <1>6, <1>17, CursorFollows, StartFailedFollows DEF DoCursor
<1>18. CASE DoFetch(w)
  BY <1>1, <1>3, <1>4, <1>18, CursorFollows DEF DoFetch
<1>19. CASE DoNextResult(w)
  BY <1>1, <1>3, <1>4, <1>19, CursorFollows DEF DoNextResult
<1>20. CASE DoCloseResult(w)
  BY <1>1, <1>2, <1>3, <1>4, <1>5, <1>20, CloseFollows DEF DoCloseResult
<1>21. CASE DoClose(w)
  BY <1>1, <1>2, <1>3, <1>4, <1>5, <1>21, CloseFollows DEF DoClose
<1>22. CASE DoBatch(w)
  <2>1. \A d \in BeginFailed(c, pg) : Follows(c, d)
    BY <1>1, TransactionFollows
  <2>2. \A d \in BatchOk(c, pg) \cup BatchFailed(c, pg) : d \in Connection
    BY <1>1, BatchTyped
  <2> QED BY <1>3, <1>4, <1>7, <1>22, <2>1, <2>2 DEF DoBatch
<1> QED BY <1>8, <1>9, <1>10, <1>11, <1>12, <1>15, <1>16, <1>17, <1>18, <1>19,
           <1>20, <1>21, <1>22 DEF Dispatch

-----------------------------------------------------------------------------
(* Ownership is inductive: one lemma per kind of step.                       *)

LEMMA NullsTyped ==
    /\ EmptySlot \in Slot
    /\ NoTimer \in Timer
    /\ NoCall \in Call
    /\ Fresh \in Connection
BY PoolAssumption, Constants DEF EmptySlot, Slot, NoTimer, Timer, NoCall, Call

(* Entries nobody uses can be destroyed without disturbing who owns what.    *)
LEMMA DestroyedTyped ==
    ASSUME NEW S, \A i \in S : ~slot[i].busy, TypeOK
    PROVE  /\ Destroyed(slot, S, EmptySlot) \in [Slots -> Slot]
           /\ Destroyed(conn, S, Fresh) \in [Slots -> Connection]
           /\ Destroyed(timer, S, NoTimer) \in [Slots -> Timer]
           /\ \A i \in Slots : slot[i].busy =>
                 Destroyed(slot, S, EmptySlot)[i] = slot[i]
           /\ \A i \in Slots : Destroyed(slot, S, EmptySlot)[i].busy => slot[i].busy
BY NullsTyped DEF Destroyed, TypeOK, EmptySlot

LEMMA SweptNotBusy == ASSUME NEW w PROVE \A i \in Swept(w) : i \in Slots /\ ~slot[i].busy
BY DEF Swept, Expired, Idle

LEMMA BeginStep ==
    ASSUME TypeOK, Ownership, NEW w \in Workers, Begin(w)
    PROVE  TypeOK' /\ Ownership'
<1>1. PICK target \in Keys \cup Tokens, scope \in Scopes :
         /\ call' = [call EXCEPT ![w] =
                       [NoCall EXCEPT !.phase = "waiting", !.target = target,
                                      !.scope = scope,
                                      !.wait = IF target \in Keys THEN AcquireLimit ELSE 0]]
         /\ ended' = ended \ {scope}
  BY DEF Begin
<1>2. /\ call[w].phase = "idle"
      /\ UNCHANGED <<slot, conn, timer>>
  BY DEF Begin
<1> DEFINE b == [NoCall EXCEPT !.phase = "waiting", !.target = target, !.scope = scope,
                               !.wait = IF target \in Keys THEN AcquireLimit ELSE 0]
<1>3. b \in Call /\ b.phase = "waiting"
  BY TimeAssumption, NullsTyped DEF Call
<1>4. TypeOK'
  BY <1>1, <1>2, <1>3 DEF TypeOK
<1>5. call'[w].phase = "waiting" /\ \A v \in Workers \ {w} : call'[v] = call[v]
  BY <1>1, <1>3 DEF TypeOK
<1>6. Ownership'
  BY <1>2, <1>5 DEF Ownership, Holding, Slots
<1> QED BY <1>4, <1>6

(* A call that holds nothing and returns, whatever idle entries it swept.    *)
LEMMA ReturnStep ==
    ASSUME TypeOK, Ownership, NEW w \in Workers, call[w].phase = "waiting",
           UNCHANGED <<slot, conn, timer, ended>> \/ Sweep(w),
           Return(w) \/ UNCHANGED call
    PROVE  TypeOK' /\ Ownership'
<1>1. /\ slot' \in [Slots -> Slot]
      /\ conn' \in [Slots -> Connection]
      /\ timer' \in [Slots -> Timer]
      /\ \A i \in Slots : slot[i].busy => slot'[i] = slot[i]
      /\ \A i \in Slots : slot'[i].busy => slot[i].busy
      /\ UNCHANGED ended
  BY DestroyedTyped, SweptNotBusy DEF Sweep, TypeOK
<1>2. call' \in [Workers -> Call]
  BY NullsTyped DEF Return, TypeOK
<1>3. TypeOK'
  BY <1>1, <1>2 DEF TypeOK
<1>4. call'[w].phase \in {"idle", "waiting"} /\ \A v \in Workers \ {w} : call'[v] = call[v]
  BY DEF Return, NoCall, TypeOK
<1>5. Ownership'
  BY <1>1, <1>4 DEF Ownership, Holding, Slots
<1> QED BY <1>3, <1>5

(* A call that takes an entry nobody uses.                                   *)
LEMMA TakeStep ==
    ASSUME TypeOK, Ownership, NEW w \in Workers, call[w].phase = "waiting",
           NEW i \in Slots, ~slot[i].busy,
           NEW s \in Slot, s.used, NEW c \in Connection, NEW t \in Timer,
           NEW phase \in {"connecting", "working"},
           Take(w, i, s, c, t), Hold(w, i, phase)
    PROVE  TypeOK' /\ Ownership'
<1> DEFINE taken == [s EXCEPT !.busy = TRUE, !.request = w, !.cancelled = FALSE,
                              !.scope = IF s.handle = None THEN call[w].scope ELSE @]
           timed == [t EXCEPT !.idle = 0,
                              !.deadline = IF s.handle # None /\ t.lease < OpTimeout
                                           THEN t.lease ELSE OpTimeout]
<1>1. call[w] \in Call
  BY DEF TypeOK
<1>2. taken \in Slot /\ taken.used /\ taken.busy /\ taken.request = w
  BY <1>1 DEF Slot, Call
<1>3. timed \in Timer
  BY TimeAssumption DEF Timer
<1>4. /\ slot' \in [Slots -> Slot]
      /\ slot'[i] = taken
      /\ \A j \in Slots \ {i} : slot[j].busy => slot'[j] = slot[j]
      /\ \A j \in Slots \ {i} : slot'[j].busy => slot[j].busy
  BY <1>2, DestroyedTyped, SweptNotBusy DEF Take
<1>5. conn' \in [Slots -> Connection] /\ timer' \in [Slots -> Timer] /\ UNCHANGED ended
  BY <1>3, DestroyedTyped, SweptNotBusy DEF Take
<1>6. /\ call' \in [Workers -> Call]
      /\ call'[w].phase = phase /\ call'[w].slot = i
      /\ \A v \in Workers \ {w} : call'[v] = call[v]
  <2> DEFINE held == [[[call[w] EXCEPT !.phase = phase] EXCEPT !.slot = i] EXCEPT !.wait = 0]
  <2>1. call' = [call EXCEPT ![w] = held]
    BY DEF Hold, TypeOK
  <2>2. i \in 0..MaxSessions
    BY PoolAssumption DEF Slots
  <2>3. held \in Call /\ held.phase = phase /\ held.slot = i
    BY <1>1, <2>2 DEF Call
  <2> QED BY <2>1, <2>3 DEF TypeOK
<1>7. TypeOK'
  BY <1>4, <1>5, <1>6 DEF TypeOK
<1>8. \A v \in Workers : call[v].phase \in Holding => call[v].slot # i
  BY DEF Ownership
<1>9. ASSUME NEW v \in Workers, call'[v].phase \in Holding
      PROVE  /\ call'[v].slot \in Slots
             /\ slot'[call'[v].slot].used
             /\ slot'[call'[v].slot].busy
             /\ slot'[call'[v].slot].request = v
  <2>1. CASE v = w
    BY <1>2, <1>4, <1>6, <2>1
  <2>2. CASE v # w
    <3>1. call'[v] = call[v]
      BY <1>6, <2>2
    <3>2. call[v].slot \in Slots \ {i} /\ slot[call[v].slot].busy
      BY <1>8, <1>9, <3>1 DEF Ownership
    <3>3. slot'[call[v].slot] = slot[call[v].slot]
      BY <1>4, <3>2
    <3> QED BY <1>9, <3>1, <3>2, <3>3 DEF Ownership
  <2> QED BY <2>1, <2>2
<1>10. \A j \in Slots : slot'[j].busy =>
         /\ slot'[j].request \in Workers
         /\ call'[slot'[j].request].phase \in Holding
         /\ call'[slot'[j].request].slot = j
  <2>1. slot'[i].request = w /\ phase \in Holding
    BY <1>2, <1>4 DEF Holding
  <2>2. ASSUME NEW j \in Slots \ {i}, slot'[j].busy
        PROVE  /\ slot'[j].request \in Workers \ {w}
               /\ call'[slot'[j].request] = call[slot[j].request]
               /\ call[slot[j].request].phase \in Holding
               /\ call[slot[j].request].slot = j
    <3>1. slot[j].busy /\ slot'[j] = slot[j]
      BY <1>4, <2>2
    <3>2. /\ slot[j].request \in Workers
          /\ call[slot[j].request].phase \in Holding
          /\ call[slot[j].request].slot = j
      BY <3>1 DEF Ownership
    <3>3. slot[j].request # w
      BY <3>2 DEF Holding
    <3> QED BY <1>6, <3>1, <3>2, <3>3
  <2> QED BY <1>6, <2>1, <2>2
<1>11. Ownership'
  BY <1>9, <1>10 DEF Ownership, Slots
<1> QED BY <1>7, <1>11

LEMMA ConnectedStep ==
    ASSUME TypeOK, Ownership, NEW w \in Workers, ConnectOk(w)
    PROVE  TypeOK' /\ Ownership'
<1> DEFINE b == [call[w] EXCEPT !.phase = "working"]
<1>1. /\ call[w].phase = "connecting"
      /\ call' = [call EXCEPT ![w] = b]
      /\ UNCHANGED <<slot, conn, timer, ended>>
  BY DEF ConnectOk, TypeOK
<1>2. b \in Call /\ b.phase = "working" /\ b.slot = call[w].slot
  BY DEF TypeOK, Call
<1>3. TypeOK'
  BY <1>1, <1>2 DEF TypeOK
<1>4. call'[w] = b /\ \A v \in Workers \ {w} : call'[v] = call[v]
  BY <1>1, <1>2 DEF TypeOK
<1>5. Ownership'
  BY <1>1, <1>2, <1>4 DEF Ownership, Holding, Slots
<1> QED BY <1>3, <1>5

(* Nothing but the handle of an entry, nothing but the phase and the reply   *)
(* of a call, differs in the next state.                                     *)
SameOwner(i) ==
    /\ slot'[i].used = slot[i].used
    /\ slot'[i].busy = slot[i].busy
    /\ slot'[i].key = slot[i].key
    /\ slot'[i].scope = slot[i].scope
    /\ slot'[i].request = slot[i].request
    /\ slot'[i].cancelled = slot[i].cancelled

SameCall(v) ==
    /\ call'[v].slot = call[v].slot
    /\ call'[v].scope = call[v].scope
    /\ call'[v].target = call[v].target
    /\ call'[v].cancelled = call[v].cancelled

(* What Finish changes of the table: the entry of the call and no other.     *)
LEMMA FinishChanges ==
    ASSUME TypeOK, Ownership, NEW w \in Workers,
           NEW c \in Connection, NEW h \in Tokens \cup {None}, NEW t \in Timer,
           NEW r \in Replies, Finish(w, c, h, t, r)
    PROVE  /\ TypeOK'
           /\ call[w].phase = "working" /\ call[w].slot \in Slots
           /\ call'[w].phase = "releasing"
           /\ \A v \in Workers : SameCall(v)
           /\ \A v \in Workers \ {w} : call'[v].phase = call[v].phase
           /\ \A j \in Slots : SameOwner(j)
           /\ slot'[call[w].slot].handle = h
           /\ \A j \in Slots \ {call[w].slot} :
                 slot'[j] = slot[j] /\ conn'[j] = conn[j] /\ timer'[j] = timer[j]
           /\ conn'[call[w].slot].transaction = c.transaction
           /\ timer'[call[w].slot] = t
           /\ UNCHANGED ended
<1> DEFINE i == call[w].slot
           d == IF h = None THEN [c EXCEPT !.origin = "none"] ELSE c
           b == [call[w] EXCEPT !.phase = "releasing", !.reply = r]
           e == [slot[i] EXCEPT !.handle = h]
<1>1. call[w].phase = "working"
  BY DEF Finish
<1>2. i \in Slots /\ slot[i] \in Slot /\ call[w] \in Call
  BY <1>1, MineTyped DEF TypeOK
<1>3. d \in Connection /\ d.transaction = c.transaction
  BY DEF Connection
<1>4. b \in Call
  BY <1>2 DEF Call, Replies
<1>5. e \in Slot
  BY <1>2 DEF Slot
<1>6. /\ conn' = [conn EXCEPT ![i] = d]
      /\ slot' = [slot EXCEPT ![i] = e]
      /\ timer' = [timer EXCEPT ![i] = t]
      /\ call' = [call EXCEPT ![w] = b]
      /\ UNCHANGED ended
  BY <1>2 DEF Finish, TypeOK
<1>7. TypeOK'
  BY <1>2, <1>3, <1>4, <1>5, <1>6 DEF TypeOK
<1>8. /\ call'[w] = b /\ slot'[i] = e /\ conn'[i] = d /\ timer'[i] = t
      /\ \A v \in Workers \ {w} : call'[v] = call[v]
      /\ \A j \in Slots \ {i} :
            slot'[j] = slot[j] /\ conn'[j] = conn[j] /\ timer'[j] = timer[j]
  BY <1>2, <1>6 DEF TypeOK
<1>9. /\ b.phase = "releasing" /\ b.slot = call[w].slot /\ b.scope = call[w].scope
      /\ b.target = call[w].target /\ b.cancelled = call[w].cancelled
  BY <1>2 DEF Call
<1>10. \A v \in Workers : SameCall(v)
  BY <1>8, <1>9 DEF SameCall
<1>11. /\ e.used = slot[i].used /\ e.busy = slot[i].busy /\ e.key = slot[i].key
       /\ e.scope = slot[i].scope /\ e.request = slot[i].request
       /\ e.cancelled = slot[i].cancelled /\ e.handle = h
  BY <1>2 DEF Slot
<1>12. \A j \in Slots : SameOwner(j)
  BY <1>8, <1>11 DEF SameOwner
<1>13. UNCHANGED ended
  BY <1>6
<1>14. /\ call'[w].phase = "releasing" /\ slot'[i].handle = h
       /\ conn'[i].transaction = c.transaction
       /\ \A v \in Workers \ {w} : call'[v].phase = call[v].phase
  BY <1>3, <1>8, <1>9, <1>11
<1> QED BY <1>1, <1>2, <1>7, <1>8, <1>10, <1>12, <1>13, <1>14

LEMMA FinishStep ==
    ASSUME TypeOK, Ownership, NEW w \in Workers, Finishes(w)
    PROVE  TypeOK' /\ Ownership'
<1>1. PICK c \in Connection, h \in Tokens \cup {None}, t \in Timer, r \in Replies :
         Finish(w, c, h, t, r)
  BY DEF Finishes
<1>2. /\ TypeOK' /\ call[w].phase = "working" /\ call'[w].phase = "releasing"
      /\ \A v \in Workers : SameCall(v)
      /\ \A v \in Workers \ {w} : call'[v].phase = call[v].phase
      /\ \A j \in Slots : SameOwner(j)
  BY <1>1, FinishChanges
<1>3. \A v \in Workers : call'[v].phase \in Holding <=> call[v].phase \in Holding
  BY <1>2 DEF Holding
<1>4. Ownership'
  BY <1>2, <1>3 DEF Ownership, SameCall, SameOwner, Slots
<1> QED BY <1>2, <1>4

(* A call that gives its entry back, kept or destroyed, and returns.         *)
LEMMA GiveBackStep ==
    ASSUME TypeOK, Ownership, NEW w \in Workers, call[w].phase \in Holding,
           slot' \in [Slots -> Slot], conn' \in [Slots -> Connection],
           timer' \in [Slots -> Timer], UNCHANGED ended, Return(w),
           ~slot'[call[w].slot].busy,
           \A j \in Slots \ {call[w].slot} : slot'[j] = slot[j]
    PROVE  TypeOK' /\ Ownership'
<1> DEFINE i == call[w].slot
<1>1. call' \in [Workers -> Call]
  BY NullsTyped DEF Return, TypeOK
<1>2. TypeOK'
  BY <1>1 DEF TypeOK
<1>3. call'[w].phase = "idle" /\ \A v \in Workers \ {w} : call'[v] = call[v]
  BY DEF Return, NoCall, TypeOK
<1>4. i \in Slots /\ slot[i].request = w
  BY DEF Ownership
<1>5. ASSUME NEW v \in Workers, call'[v].phase \in Holding
      PROVE  v # w /\ call[v].slot \in Slots \ {i} /\ call'[v] = call[v]
  BY <1>3, <1>4, <1>5 DEF Ownership, Holding
<1>6. ASSUME NEW j \in Slots, slot'[j].busy
      PROVE  j # i /\ slot'[j] = slot[j] /\ slot[j].request \in Workers \ {w}
  BY <1>4, <1>6 DEF Ownership
<1>7. Ownership'
  BY <1>3, <1>5, <1>6 DEF Ownership, Slots
<1> QED BY <1>2, <1>7

LEMMA DestroyTyped ==
    ASSUME TypeOK, NEW i \in Slots, Destroy(i)
    PROVE  /\ slot' \in [Slots -> Slot] /\ conn' \in [Slots -> Connection]
           /\ timer' \in [Slots -> Timer]
           /\ slot'[i] = EmptySlot
           /\ \A j \in Slots \ {i} : slot'[j] = slot[j] /\ conn'[j] = conn[j]
                                     /\ timer'[j] = timer[j]
BY NullsTyped DEF Destroy, TypeOK

LEMMA ConnectFailedStep ==
    ASSUME TypeOK, Ownership, NEW w \in Workers, ConnectFailed(w)
    PROVE  TypeOK' /\ Ownership'
<1>1. call[w].phase \in Holding /\ call[w].slot \in Slots
  BY DEF ConnectFailed, Ownership, Holding
<1>2. Destroy(call[w].slot) /\ Return(w) /\ UNCHANGED ended
  BY DEF ConnectFailed
<1> QED BY <1>1, <1>2, DestroyTyped, GiveBackStep DEF EmptySlot

(* What Release leaves: the entry destroyed, or idle with a connection that  *)
(* is not broken and, unless a handle keeps it, was reset.                   *)
LEMMA ReleaseChanges ==
    ASSUME TypeOK, Ownership, NEW w \in Workers, Release(w)
    PROVE  LET i == call[w].slot
           IN /\ call[w].phase = "releasing" /\ i \in Slots
              /\ slot' \in [Slots -> Slot] /\ conn' \in [Slots -> Connection]
              /\ timer' \in [Slots -> Timer]
              /\ \A j \in Slots \ {i} : slot'[j] = slot[j] /\ conn'[j] = conn[j]
                                        /\ timer'[j] = timer[j]
              /\ Return(w) /\ UNCHANGED ended
              /\ \/ slot'[i] = EmptySlot
                 \/ /\ slot'[i].used = slot[i].used /\ ~slot'[i].busy
                    /\ slot'[i].key = slot[i].key /\ slot'[i].handle = slot[i].handle
                    /\ Pinned(i) => slot'[i].scope = slot[i].scope
                    /\ ~conn'[i].broken
                    /\ Pinned(i) => conn'[i] = conn[i]
                    /\ ~Pinned(i) => /\ conn'[i].server = "idle" /\ conn'[i].result = "none"
                                     /\ Cardinality(IdleOf(slot[i].key)) < MaxIdle
                    /\ timer'[i].deadline = 0 /\ timer'[i].lease = timer[i].lease
<1> DEFINE i == call[w].slot
           e == [slot[i] EXCEPT !.busy = FALSE, !.request = None, !.cancelled = FALSE,
                                !.scope = IF Pinned(i) THEN @ ELSE None]
           t == [timer[i] EXCEPT !.deadline = 0, !.idle = 0]
<1>1. call[w].phase = "releasing" /\ Return(w) /\ UNCHANGED ended
  BY DEF Release
<1>2. i \in Slots
  BY <1>1 DEF Ownership, Holding
<1>3. slot[i] \in Slot /\ conn[i] \in Connection /\ timer[i] \in Timer
  BY <1>2 DEF TypeOK
<1>4. PICK c \in IF Pinned(i) \/ conn[i].broken THEN {conn[i]} ELSE {Reset(conn[i]), Lost} :
         IF c.broken \/ (~Pinned(i) /\ Cardinality(IdleOf(slot[i].key)) >= MaxIdle)
         THEN Destroy(i)
         ELSE /\ slot' = [slot EXCEPT ![i].busy = FALSE, ![i].request = None,
                                      ![i].cancelled = FALSE,
                                      ![i].scope = IF Pinned(i) THEN @ ELSE None]
              /\ conn' = [conn EXCEPT ![i] = c]
              /\ timer' = [timer EXCEPT ![i].deadline = 0, ![i].idle = 0]
  BY DEF Release
<1>5. CASE c.broken \/ (~Pinned(i) /\ Cardinality(IdleOf(slot[i].key)) >= MaxIdle)
  BY <1>1, <1>2, <1>4, <1>5, DestroyTyped
<1>6. CASE ~c.broken /\ ~(~Pinned(i) /\ Cardinality(IdleOf(slot[i].key)) >= MaxIdle)
  <2>1. /\ slot' = [slot EXCEPT ![i] = e]
        /\ conn' = [conn EXCEPT ![i] = c]
        /\ timer' = [timer EXCEPT ![i] = t]
    BY <1>2, <1>4, <1>6 DEF TypeOK
  <2>2. e \in Slot /\ t \in Timer
    BY <1>3 DEF Slot, Timer
  <2>3. c \in Connection /\ (Pinned(i) => c = conn[i])
        /\ (~Pinned(i) => c.server = "idle" /\ c.result = "none")
    BY <1>3, <1>4, <1>6, CloseFollows, Constants DEF Follows
  <2>4. ~Pinned(i) => Cardinality(IdleOf(slot[i].key)) < MaxIdle
    <3>1. IsFiniteSet(IdleOf(slot[i].key))
      <4>1. IsFiniteSet(Slots)
        BY PoolAssumption, FS_Interval DEF Slots
      <4> QED BY <4>1, FS_Subset DEF IdleOf
    <3>2. Cardinality(IdleOf(slot[i].key)) \in Nat /\ MaxIdle \in Nat
      BY <3>1, FS_CardinalityType, PoolAssumption
    <3> QED BY <1>6, <3>2
  <2>5. /\ slot' \in [Slots -> Slot] /\ conn' \in [Slots -> Connection]
        /\ timer' \in [Slots -> Timer]
        /\ slot'[i] = e /\ conn'[i] = c /\ timer'[i] = t
        /\ \A j \in Slots \ {i} : slot'[j] = slot[j] /\ conn'[j] = conn[j]
                                  /\ timer'[j] = timer[j]
    BY <1>2, <2>1, <2>2, <2>3 DEF TypeOK
  <2>6. /\ e.used = slot[i].used /\ ~e.busy /\ e.key = slot[i].key
        /\ e.handle = slot[i].handle /\ (Pinned(i) => e.scope = slot[i].scope)
        /\ t.deadline = 0 /\ t.lease = timer[i].lease
    BY <1>3 DEF Slot, Timer
  <2> QED BY <1>1, <1>2, <1>6, <2>3, <2>4, <2>5, <2>6
<1> QED BY <1>5, <1>6

LEMMA ReleaseStep ==
    ASSUME TypeOK, Ownership, NEW w \in Workers, Release(w)
    PROVE  TypeOK' /\ Ownership'
<1> DEFINE i == call[w].slot
<1>1. /\ call[w].phase \in Holding /\ i \in Slots
      /\ slot' \in [Slots -> Slot] /\ conn' \in [Slots -> Connection]
      /\ timer' \in [Slots -> Timer]
      /\ \A j \in Slots \ {i} : slot'[j] = slot[j]
      /\ Return(w) /\ UNCHANGED ended
  BY ReleaseChanges DEF Holding
<1>2. ~slot'[i].busy
  BY ReleaseChanges DEF EmptySlot
<1> QED BY <1>1, <1>2, GiveBackStep

LEMMA CancelStep ==
    ASSUME TypeOK, Ownership, NEW w \in Workers, Cancel(w)
    PROVE  TypeOK' /\ Ownership'
<1> DEFINE b == [call[w] EXCEPT !.cancelled = TRUE]
<1>1. b \in Call /\ call' = [call EXCEPT ![w] = b] /\ UNCHANGED <<conn, timer, ended>>
  BY DEF Cancel, TypeOK, Call
<1>2. /\ slot' \in [Slots -> Slot]
      /\ \A i \in Slots : /\ slot'[i].used = slot[i].used
                          /\ slot'[i].busy = slot[i].busy
                          /\ slot'[i].request = slot[i].request
  BY DEF Cancel, TypeOK, Slot
<1>3. \A v \in Workers : call'[v].phase = call[v].phase /\ call'[v].slot = call[v].slot
  BY <1>1 DEF TypeOK, Call
<1>4. TypeOK'
  BY <1>1, <1>2 DEF TypeOK
<1>5. Ownership'
  BY <1>2, <1>3 DEF Ownership, Slots
<1> QED BY <1>4, <1>5

LEMMA ScopeEndStep ==
    ASSUME TypeOK, Ownership, NEW scope \in Scopes, ScopeEnd(scope)
    PROVE  TypeOK' /\ Ownership'
<1>1. \A i \in Owned(scope) : ~slot[i].busy
  BY DEF Owned, Idle
<1>2. /\ slot' \in [Slots -> Slot] /\ conn' \in [Slots -> Connection]
      /\ timer' \in [Slots -> Timer]
      /\ \A i \in Slots : slot[i].busy => slot'[i] = slot[i]
      /\ \A i \in Slots : slot'[i].busy => slot[i].busy
      /\ UNCHANGED call
      /\ ended' \subseteq Scopes
  BY <1>1, DestroyedTyped DEF ScopeEnd, TypeOK
<1>3. TypeOK'
  BY <1>2 DEF TypeOK
<1>4. Ownership'
  BY <1>2 DEF Ownership, Slots
<1> QED BY <1>3, <1>4

LEMMA TickStep ==
    ASSUME TypeOK, Ownership, Tick
    PROVE  TypeOK' /\ Ownership'
<1>1. \A n \in Nat : Down(n) \in Nat
  BY DEF Down
<1>2. \A n \in Nat, limit \in Nat : Up(n, limit) \in Nat
  BY DEF Up
<1>3. timer' \in [Slots -> Timer]
  BY <1>1, <1>2, TimeAssumption DEF Tick, TypeOK, Timer
<1>4. /\ call' \in [Workers -> Call]
      /\ \A v \in Workers : call'[v].phase = call[v].phase /\ call'[v].slot = call[v].slot
  BY <1>1 DEF Tick, TypeOK, Call
<1>5. TypeOK'
  BY <1>3, <1>4 DEF Tick, TypeOK
<1>6. UNCHANGED slot
  BY DEF Tick
<1>7. Ownership'
  BY <1>4, <1>6 DEF Ownership, Slots
<1> QED BY <1>5, <1>7

(* The entries an acquisition may take are used by nobody.                   *)
LEMMA CandidatesNotBusy ==
    ASSUME TypeOK, Ownership, NEW w \in Workers
    PROVE  /\ \A i \in Named(w) : i \in Slots /\ ~slot[i].busy /\ slot[i].used
           /\ \A i \in Reusable(w) : i \in Slots /\ ~slot[i].busy /\ slot[i].used
           /\ \A i \in Free(w) : i \in Slots /\ ~slot[i].busy
<1>1. \A i \in Slots : slot[i].busy => slot[i].used
  BY DEF Ownership
<1> QED BY <1>1, SweptNotBusy DEF Named, Reusable, Free, Idle

LEMMA AcquireStep ==
    ASSUME TypeOK, Ownership, NEW w \in Workers, Acquire(w)
    PROVE  TypeOK' /\ Ownership'
<1>1. CASE AcquireCancelled(w)
  BY <1>1, ReturnStep DEF AcquireCancelled
<1>2. CASE AcquireNamed(w)
  <2>1. PICK i \in Named(w) : /\ Take(w, i, slot[i], conn[i], timer[i])
                              /\ Hold(w, i, "working")
    BY <1>2 DEF AcquireNamed
  <2>2. i \in Slots /\ ~slot[i].busy /\ slot[i].used
    BY <2>1, CandidatesNotBusy
  <2>3. slot[i] \in Slot /\ conn[i] \in Connection /\ timer[i] \in Timer
    BY <2>2 DEF TypeOK
  <2>4. call[w].phase = "waiting"
    BY <1>2 DEF AcquireNamed, Looking
  <2> QED BY <2>1, <2>2, <2>3, <2>4, TakeStep
<1>3. CASE AcquireMissing(w)
  BY <1>3, ReturnStep DEF AcquireMissing, Looking
<1>4. CASE AcquireIdle(w)
  <2>1. PICK i \in Slots : /\ i \in Reusable(w)
                           /\ Take(w, i, slot[i], conn[i], timer[i])
                           /\ Hold(w, i, "working")
    BY <1>4 DEF AcquireIdle, First
  <2>2. i \in Slots /\ ~slot[i].busy /\ slot[i].used
    BY <2>1, CandidatesNotBusy
  <2>3. slot[i] \in Slot /\ conn[i] \in Connection /\ timer[i] \in Timer
    BY <2>2 DEF TypeOK
  <2>4. call[w].phase = "waiting"
    BY <1>4 DEF AcquireIdle, Looking
  <2> QED BY <2>1, <2>2, <2>3, <2>4, TakeStep
<1>5. CASE AcquireNew(w)
  <2> DEFINE s == [EmptySlot EXCEPT !.used = TRUE, !.key = call[w].target]
  <2>1. PICK i \in Slots : /\ i \in Free(w)
                           /\ Take(w, i, s, Fresh, NoTimer)
                           /\ Hold(w, i, "connecting")
    BY <1>5 DEF AcquireNew, First
  <2>2. ~slot[i].busy
    BY <2>1, CandidatesNotBusy
  <2>3. call[w].phase = "waiting" /\ call[w].target \notin Tokens
    BY <1>5 DEF AcquireNew, Looking, MayOpen, ByHandle
  <2>4. call[w].target \in Keys \cup {None}
    BY <2>3 DEF TypeOK, Call
  <2>5. s \in Slot /\ s.used
    BY <2>4, NullsTyped DEF Slot, EmptySlot
  <2> QED BY <2>1, <2>2, <2>3, <2>5, NullsTyped, TakeStep
<1>6. CASE AcquireWait(w)
  BY <1>6, ReturnStep DEF AcquireWait, Saturated, Looking
<1>7. CASE AcquireTimeout(w)
  BY <1>7, ReturnStep DEF AcquireTimeout, Saturated, Looking
<1> QED BY <1>1, <1>2, <1>3, <1>4, <1>5, <1>6, <1>7 DEF Acquire

LEMMA OwnershipInductive ==
    ASSUME TypeOK, Ownership, [Next]_vars
    PROVE  TypeOK' /\ Ownership'
<1>1. ASSUME NEW w \in Workers, Begin(w) PROVE TypeOK' /\ Ownership'
  BY <1>1, BeginStep
<1>2. ASSUME NEW w \in Workers, Acquire(w) PROVE TypeOK' /\ Ownership'
  BY <1>2, AcquireStep
<1>3. ASSUME NEW w \in Workers, ConnectOk(w) PROVE TypeOK' /\ Ownership'
  BY <1>3, ConnectedStep
<1>4. ASSUME NEW w \in Workers, ConnectFailed(w) PROVE TypeOK' /\ Ownership'
  BY <1>4, ConnectFailedStep
<1>5. ASSUME NEW w \in Workers, Dispatch(w) \/ GiveUp(w) PROVE TypeOK' /\ Ownership'
  BY <1>5, DispatchFinishes, FinishStep
<1>6. ASSUME NEW w \in Workers, Release(w) PROVE TypeOK' /\ Ownership'
  BY <1>6, ReleaseStep
<1>7. ASSUME NEW w \in Workers, Cancel(w) PROVE TypeOK' /\ Ownership'
  BY <1>7, CancelStep
<1>8. ASSUME NEW scope \in Scopes, ScopeEnd(scope) PROVE TypeOK' /\ Ownership'
  BY <1>8, ScopeEndStep
<1>9. CASE Tick
  BY <1>9, TickStep
<1>10. CASE UNCHANGED vars
  BY <1>10 DEF vars, TypeOK, Ownership, Slots
<1> QED BY <1>1, <1>2, <1>3, <1>4, <1>5, <1>6, <1>7, <1>8, <1>9, <1>10 DEF Next

LEMMA InitOwned == Init => TypeOK /\ Ownership
<1> SUFFICES ASSUME Init PROVE TypeOK /\ Ownership
  OBVIOUS
<1>1. TypeOK
  BY NullsTyped DEF Init, TypeOK
<1>2. Ownership
  BY DEF Init, Ownership, NoCall, EmptySlot, Holding
<1> QED BY <1>1, <1>2

LEMMA AlwaysOwned == Spec => [](TypeOK /\ Ownership)
<1>1. Init => TypeOK /\ Ownership
  BY InitOwned
<1>2. TypeOK /\ Ownership /\ [Next]_vars => (TypeOK /\ Ownership)'
  BY OwnershipInductive
<1> QED BY <1>1, <1>2, PTL DEF Spec

-----------------------------------------------------------------------------
(* The table, the connections, the clocks and the calls stay within the      *)
(* values pool.c gives them, for any sizes and any operations.               *)
THEOREM TypeCorrect == Spec => []TypeOK
BY AlwaysOwned, PTL

(* No two threads ever touch one connection, and no session stays marked     *)
(* busy when the call that used it is over.                                  *)
THEOREM SessionsAreExclusive == Spec => []ExclusiveUse
<1>1. TypeOK /\ Ownership => ExclusiveUse
  BY DEF Ownership, ExclusiveUse, Holds, Holding
<1> QED BY <1>1, AlwaysOwned, PTL

-----------------------------------------------------------------------------
(* The safety properties that follow from who owns which entry: what is idle *)
(* is clean, cancelling reaches the session, resources stay within their     *)
(* scope; and the limits of a data source hold: max_open sessions, max_idle  *)
(* idle ones, one operation's budget for a transaction, and a pool timeout   *)
(* only when there is nothing left.                                          *)

(* Destroying a set of entries leaves the others as they are.                *)
LEMMA DestroyedEffect ==
    ASSUME NEW S, NEW i \in Slots, TypeOK
    PROVE  /\ i \in S => /\ Destroyed(slot, S, EmptySlot)[i] = EmptySlot
                         /\ Destroyed(timer, S, NoTimer)[i] = NoTimer
           /\ i \notin S => /\ Destroyed(slot, S, EmptySlot)[i] = slot[i]
                            /\ Destroyed(conn, S, Fresh)[i] = conn[i]
                            /\ Destroyed(timer, S, NoTimer)[i] = timer[i]
BY DEF Destroyed

(* What taking an entry does to it and to the rest of the table.             *)
LEMMA TakeEffect ==
    ASSUME TypeOK, NEW w \in Workers, NEW i \in Slots,
           NEW s \in Slot, NEW c \in Connection, NEW t \in Timer, Take(w, i, s, c, t)
    PROVE  /\ slot'[i].used = s.used /\ slot'[i].busy /\ slot'[i].request = w
           /\ slot'[i].key = s.key /\ slot'[i].handle = s.handle
           /\ s.handle = None => slot'[i].scope = call[w].scope
           /\ s.handle # None => slot'[i].scope = s.scope
           /\ conn'[i] = c /\ timer'[i].lease = t.lease
           /\ timer'[i].deadline <= OpTimeout
           /\ \A j \in Slots \ {i} :
                 \/ slot'[j] = EmptySlot /\ timer'[j] = NoTimer /\ j \in Swept(w)
                 \/ slot'[j] = slot[j] /\ conn'[j] = conn[j] /\ timer'[j] = timer[j]
                    /\ j \notin Swept(w)
           /\ UNCHANGED ended
<1> DEFINE taken == [s EXCEPT !.busy = TRUE, !.request = w, !.cancelled = FALSE,
                              !.scope = IF s.handle = None THEN call[w].scope ELSE @]
           timed == [t EXCEPT !.idle = 0,
                              !.deadline = IF s.handle # None /\ t.lease < OpTimeout
                                           THEN t.lease ELSE OpTimeout]
           S == Swept(w)
<1>1. /\ slot' = [Destroyed(slot, S, EmptySlot) EXCEPT ![i] = taken]
      /\ conn' = [Destroyed(conn, S, Fresh) EXCEPT ![i] = c]
      /\ timer' = [Destroyed(timer, S, NoTimer) EXCEPT ![i] = timed]
      /\ UNCHANGED ended
  BY DEF Take
<1>2. /\ slot'[i] = taken /\ conn'[i] = c /\ timer'[i] = timed
      /\ \A j \in Slots \ {i} : /\ slot'[j] = Destroyed(slot, S, EmptySlot)[j]
                                /\ conn'[j] = Destroyed(conn, S, Fresh)[j]
                                /\ timer'[j] = Destroyed(timer, S, NoTimer)[j]
  BY <1>1 DEF Destroyed
<1>3. /\ taken.used = s.used /\ taken.busy /\ taken.request = w
      /\ taken.key = s.key /\ taken.handle = s.handle
      /\ s.handle = None => taken.scope = call[w].scope
      /\ s.handle # None => taken.scope = s.scope
  BY DEF Slot
<1>4. timed.lease = t.lease /\ timed.deadline <= OpTimeout
  BY TimeAssumption DEF Timer
<1>5. \A j \in Slots \ {i} :
         \/ slot'[j] = EmptySlot /\ timer'[j] = NoTimer /\ j \in S
         \/ slot'[j] = slot[j] /\ conn'[j] = conn[j] /\ timer'[j] = timer[j]
            /\ j \notin S
  BY <1>2, DestroyedEffect
<1>6. UNCHANGED ended
  BY <1>1
<1> QED BY <1>2, <1>3, <1>4, <1>5, <1>6

(* The only step that gives an entry to a data source: AcquireNew.           *)
Opens(w, i) ==
    /\ call[w].phase = "waiting" /\ MayOpen(w)
    /\ slot'[i].used /\ slot'[i].busy /\ slot'[i].request = w
    /\ slot'[i].key = call[w].target /\ slot'[i].handle = None
    /\ slot'[i].scope = call[w].scope
    /\ call'[w].phase = "connecting"

(* A used entry is taken as it is: its handle, its key, its connection.      *)
Reuses(w, i) ==
    /\ call[w].phase = "waiting" /\ ~call[w].cancelled
    /\ slot[i].used /\ ~slot[i].busy
    /\ slot'[i].used /\ slot'[i].busy /\ slot'[i].request = w
    /\ slot'[i].key = slot[i].key /\ slot'[i].handle = slot[i].handle
    /\ conn'[i] = conn[i] /\ timer'[i].lease = timer[i].lease
    /\ slot'[i].scope = call[w].scope
    /\ slot[i].handle # None => slot[i].scope = call[w].scope
    /\ call'[w].phase = "working"

(* What an acquisition does: it leaves every call but its own alone, and of  *)
(* the table it takes at most one entry and destroys those it swept.         *)
LEMMA AcquireChanges ==
    ASSUME TypeOK, Ownership, NEW w \in Workers, Acquire(w)
    PROVE  /\ call[w].phase = "waiting"
           /\ \A v \in Workers \ {w} : call'[v] = call[v]
           /\ UNCHANGED ended
           /\ \/ /\ call'[w].phase \in {"idle", "waiting"}
                 /\ call'[w].scope \in {call[w].scope, None}
                 /\ \A j \in Slots :
                      \/ slot'[j] = EmptySlot /\ timer'[j] = NoTimer
                      \/ slot'[j] = slot[j] /\ conn'[j] = conn[j] /\ timer'[j] = timer[j]
              \/ /\ ~call[w].cancelled /\ ~call'[w].cancelled
                 /\ call'[w].scope = call[w].scope
                 /\ call'[w].slot \in Slots
                 /\ Opens(w, call'[w].slot) \/ Reuses(w, call'[w].slot)
                 /\ timer'[call'[w].slot].deadline <= OpTimeout
                 /\ \A j \in Slots \ {call'[w].slot} :
                      \/ slot'[j] = EmptySlot /\ timer'[j] = NoTimer /\ j \in Swept(w)
                      \/ slot'[j] = slot[j] /\ conn'[j] = conn[j] /\ timer'[j] = timer[j]
                         /\ j \notin Swept(w)
<1>0. call[w] \in Call
  BY DEF TypeOK
<1>1. ASSUME call[w].phase = "waiting",
             UNCHANGED <<slot, conn, timer, ended>> \/ Sweep(w), Return(w) \/ UNCHANGED call
      PROVE  /\ \A v \in Workers \ {w} : call'[v] = call[v]
             /\ UNCHANGED ended
             /\ call'[w].phase \in {"idle", "waiting"}
             /\ call'[w].scope \in {call[w].scope, None}
             /\ \A j \in Slots :
                  \/ slot'[j] = EmptySlot /\ timer'[j] = NoTimer
                  \/ slot'[j] = slot[j] /\ conn'[j] = conn[j] /\ timer'[j] = timer[j]
  <2>1. \A j \in Slots :
           \/ slot'[j] = EmptySlot /\ timer'[j] = NoTimer
           \/ slot'[j] = slot[j] /\ conn'[j] = conn[j] /\ timer'[j] = timer[j]
    BY <1>1, DestroyedEffect DEF Sweep
  <2>2. UNCHANGED ended
    BY <1>1 DEF Sweep
  <2>3. /\ \A v \in Workers \ {w} : call'[v] = call[v]
        /\ call'[w].phase \in {"idle", "waiting"}
        /\ call'[w].scope \in {call[w].scope, None}
    BY <1>1 DEF Return, NoCall, TypeOK
  <2> QED BY <2>1, <2>2, <2>3
<1>2. ASSUME NEW i \in Slots, NEW phase \in {"connecting", "working"}, Hold(w, i, phase)
      PROVE  /\ \A v \in Workers \ {w} : call'[v] = call[v]
             /\ call'[w].phase = phase /\ call'[w].slot = i
             /\ call'[w].scope = call[w].scope /\ call'[w].cancelled = call[w].cancelled
  <2> DEFINE held == [[[call[w] EXCEPT !.phase = phase] EXCEPT !.slot = i] EXCEPT !.wait = 0]
  <2>1. call' = [call EXCEPT ![w] = held]
    BY <1>2 DEF Hold, TypeOK
  <2>2. /\ held.phase = phase /\ held.slot = i /\ held.scope = call[w].scope
        /\ held.cancelled = call[w].cancelled
    BY <1>0 DEF Call
  <2>3. call'[w] = held /\ \A v \in Workers \ {w} : call'[v] = call[v]
    BY <2>1 DEF TypeOK
  <2> QED BY <2>2, <2>3
<1>3. ASSUME NEW i \in Slots, slot[i].used, ~slot[i].busy, Looking(w),
             slot[i].handle # None => slot[i].scope = call[w].scope,
             Take(w, i, slot[i], conn[i], timer[i]), Hold(w, i, "working")
      PROVE  /\ Reuses(w, i) /\ call'[w].slot = i
             /\ call'[w].scope = call[w].scope
             /\ ~call[w].cancelled /\ ~call'[w].cancelled
             /\ timer'[i].deadline <= OpTimeout
             /\ UNCHANGED ended
             /\ \A v \in Workers \ {w} : call'[v] = call[v]
             /\ \A j \in Slots \ {i} :
                  \/ slot'[j] = EmptySlot /\ timer'[j] = NoTimer /\ j \in Swept(w)
                  \/ slot'[j] = slot[j] /\ conn'[j] = conn[j] /\ timer'[j] = timer[j]
                     /\ j \notin Swept(w)
  <2>1. slot[i] \in Slot /\ conn[i] \in Connection /\ timer[i] \in Timer
    BY DEF TypeOK
  <2>2. call[w].phase = "waiting" /\ ~call[w].cancelled
    BY <1>3 DEF Looking
  <2> QED BY <1>2, <1>3, <2>1, <2>2, TakeEffect DEF Reuses
<1>4. CASE AcquireCancelled(w) \/ AcquireMissing(w) \/ AcquireWait(w) \/ AcquireTimeout(w)
  <2>1. /\ call[w].phase = "waiting"
        /\ UNCHANGED <<slot, conn, timer, ended>> \/ Sweep(w)
        /\ Return(w) \/ UNCHANGED call
    BY <1>4 DEF AcquireCancelled, AcquireMissing, AcquireWait, AcquireTimeout,
                Saturated, Looking
  <2> QED BY <1>1, <2>1
<1>5. CASE AcquireNamed(w)
  <2>1. PICK i \in Named(w) : /\ Take(w, i, slot[i], conn[i], timer[i])
                              /\ Hold(w, i, "working")
    BY <1>5 DEF AcquireNamed
  <2>2. /\ i \in Slots /\ slot[i].used /\ ~slot[i].busy /\ Looking(w)
        /\ slot[i].scope = call[w].scope
    BY <1>5, <2>1 DEF AcquireNamed, Named, Idle
  <2>3. call[w].phase = "waiting"
    BY <2>2 DEF Looking
  <2> QED BY <1>3, <2>1, <2>2, <2>3
<1>6. CASE AcquireIdle(w)
  <2>1. PICK i \in Slots : /\ i \in Reusable(w)
                           /\ Take(w, i, slot[i], conn[i], timer[i])
                           /\ Hold(w, i, "working")
    BY <1>6 DEF AcquireIdle, First
  <2>2. /\ i \in Slots /\ slot[i].used /\ ~slot[i].busy /\ Looking(w)
        /\ slot[i].handle = None
    BY <1>6, <2>1 DEF AcquireIdle, Reusable, Idle, Pinned
  <2>3. call[w].phase = "waiting"
    BY <2>2 DEF Looking
  <2> QED BY <1>3, <2>1, <2>2, <2>3
<1>7. CASE AcquireNew(w)
  <2>1. call[w].phase = "waiting" /\ ~call[w].cancelled /\ MayOpen(w)
    BY <1>7 DEF AcquireNew, Looking
  <2>2. call[w].target \in Keys \cup {None}
    BY <1>0, <2>1 DEF MayOpen, ByHandle, Call
  <2> DEFINE e == [EmptySlot EXCEPT !.used = TRUE, !.key = call[w].target]
  <2>3. e \in Slot /\ e.used /\ e.key = call[w].target /\ e.handle = None
    BY <2>2, NullsTyped DEF Slot, EmptySlot
  <2>4. PICK i \in Slots : Take(w, i, e, Fresh, NoTimer) /\ Hold(w, i, "connecting")
    BY <1>7 DEF AcquireNew
  <2>5. PICK s : s = e
    OBVIOUS
  <2> HIDE DEF e
  <2>6. s \in Slot /\ s.used /\ s.key = call[w].target /\ s.handle = None
    BY <2>3, <2>5
  <2>7. Take(w, i, s, Fresh, NoTimer)
    BY <2>4, <2>5
  <2>8. /\ slot'[i].used /\ slot'[i].busy /\ slot'[i].request = w
        /\ slot'[i].key = call[w].target /\ slot'[i].handle = None
    BY <2>6, <2>7, NullsTyped, TakeEffect
  <2>13. slot'[i].scope = call[w].scope
    BY <2>6, <2>7, NullsTyped, TakeEffect
  <2>9. timer'[i].deadline <= OpTimeout /\ UNCHANGED ended
    BY <2>6, <2>7, NullsTyped, TakeEffect
  <2>10. \A j \in Slots \ {i} :
            \/ slot'[j] = EmptySlot /\ timer'[j] = NoTimer /\ j \in Swept(w)
            \/ slot'[j] = slot[j] /\ conn'[j] = conn[j] /\ timer'[j] = timer[j]
               /\ j \notin Swept(w)
    BY <2>6, <2>7, NullsTyped, TakeEffect
  <2>11. /\ \A v \in Workers \ {w} : call'[v] = call[v]
         /\ call'[w].phase = "connecting" /\ call'[w].slot = i
         /\ call'[w].scope = call[w].scope /\ call'[w].cancelled = call[w].cancelled
    BY <1>2, <2>4
  <2>12. Opens(w, i)
    BY <2>1, <2>8, <2>11, <2>13 DEF Opens
  <2> QED BY <2>1, <2>9, <2>10, <2>11, <2>12
<1> QED BY <1>4, <1>5, <1>6, <1>7 DEF Acquire

-----------------------------------------------------------------------------
(* What the other steps do to the calls and the table.                       *)

LEMMA ConnectedChanges ==
    ASSUME TypeOK, Ownership, NEW w \in Workers, ConnectOk(w)
    PROVE  /\ call[w].phase = "connecting" /\ call'[w].phase = "working"
           /\ \A v \in Workers : SameCall(v)
           /\ \A v \in Workers \ {w} : call'[v] = call[v]
           /\ UNCHANGED <<slot, conn, timer, ended>>
<1> DEFINE b == [call[w] EXCEPT !.phase = "working"]
<1>1. call[w] \in Call
  BY DEF TypeOK
<1>2. call[w].phase = "connecting" /\ UNCHANGED <<slot, conn, timer, ended>>
  BY DEF ConnectOk
<1>3. call'[w] = b /\ \A v \in Workers \ {w} : call'[v] = call[v]
  BY DEF ConnectOk, TypeOK
<1>4. /\ b.phase = "working" /\ b.slot = call[w].slot /\ b.scope = call[w].scope
      /\ b.target = call[w].target /\ b.cancelled = call[w].cancelled
  BY <1>1 DEF Call
<1> QED BY <1>2, <1>3, <1>4 DEF SameCall

(* A call that gives its entry back.                                         *)
LEMMA GiveBackChanges ==
    ASSUME TypeOK, Ownership, NEW w \in Workers, ConnectFailed(w) \/ Release(w)
    PROVE  LET i == call[w].slot
           IN /\ i \in Slots /\ slot[i].busy /\ slot[i].used
              /\ call'[w] = NoCall
              /\ \A v \in Workers \ {w} : call'[v] = call[v]
              /\ \A j \in Slots \ {i} : slot'[j] = slot[j] /\ conn'[j] = conn[j]
                                        /\ timer'[j] = timer[j]
              /\ UNCHANGED ended
              /\ \/ slot'[i] = EmptySlot
                 \/ /\ Release(w)
                    /\ slot'[i].used = slot[i].used /\ ~slot'[i].busy
                    /\ slot'[i].key = slot[i].key /\ slot'[i].handle = slot[i].handle
                    /\ Pinned(i) => slot'[i].scope = slot[i].scope
                    /\ ~conn'[i].broken
                    /\ Pinned(i) => conn'[i] = conn[i]
                    /\ ~Pinned(i) => /\ conn'[i].server = "idle" /\ conn'[i].result = "none"
                                     /\ Cardinality(IdleOf(slot[i].key)) < MaxIdle
                    /\ timer'[i].deadline = 0 /\ timer'[i].lease = timer[i].lease
<1> DEFINE i == call[w].slot
<1>1. call[w].phase \in Holding /\ Return(w) /\ UNCHANGED ended
  BY DEF ConnectFailed, Release, Holding
<1>2. i \in Slots /\ slot[i].busy /\ slot[i].used
  BY <1>1 DEF Ownership
<1>3. call'[w] = NoCall /\ \A v \in Workers \ {w} : call'[v] = call[v]
  BY <1>1 DEF Return, TypeOK
<1>4. CASE ConnectFailed(w)
  <2>1. Destroy(i)
    BY <1>4 DEF ConnectFailed
  <2> QED BY <1>1, <1>2, <1>3, <2>1, DestroyTyped
<1>5. CASE Release(w)
  BY <1>1, <1>2, <1>3, <1>5, ReleaseChanges
<1> QED BY <1>4, <1>5

LEMMA CancelChanges ==
    ASSUME TypeOK, Ownership, NEW w \in Workers, Cancel(w)
    PROVE  /\ \A v \in Workers \ {w} : call'[v] = call[v]
           /\ call'[w].phase = call[w].phase /\ call'[w].slot = call[w].slot
           /\ call'[w].scope = call[w].scope
           /\ \A i \in Slots :
                 \/ slot'[i] = slot[i] /\ ~(slot[i].busy /\ slot[i].used /\ slot[i].request = w)
                 \/ /\ slot[i].busy /\ slot'[i].busy /\ slot'[i].cancelled
                    /\ slot'[i].used = slot[i].used /\ slot'[i].key = slot[i].key
                    /\ slot'[i].scope = slot[i].scope /\ slot'[i].handle = slot[i].handle
           /\ UNCHANGED <<conn, timer, ended>>
<1> DEFINE b == [call[w] EXCEPT !.cancelled = TRUE]
<1>1. call' = [call EXCEPT ![w] = b] /\ call[w] \in Call
  BY DEF Cancel, TypeOK
<1>2. b.phase = call[w].phase /\ b.slot = call[w].slot /\ b.scope = call[w].scope
  BY <1>1 DEF Call
<1>3. call'[w] = b /\ \A v \in Workers \ {w} : call'[v] = call[v]
  BY <1>1 DEF TypeOK
<1>4. ASSUME NEW i \in Slots
      PROVE  \/ slot'[i] = slot[i] /\ ~(slot[i].busy /\ slot[i].used /\ slot[i].request = w)
             \/ /\ slot[i].busy /\ slot'[i].busy /\ slot'[i].cancelled
                /\ slot'[i].used = slot[i].used /\ slot'[i].key = slot[i].key
                /\ slot'[i].scope = slot[i].scope /\ slot'[i].handle = slot[i].handle
  <2> DEFINE e == [slot[i] EXCEPT !.cancelled = TRUE]
  <2>1. slot[i] \in Slot
    BY DEF TypeOK
  <2>2. e.cancelled /\ e.busy = slot[i].busy /\ e.used = slot[i].used
        /\ e.key = slot[i].key /\ e.scope = slot[i].scope /\ e.handle = slot[i].handle
    BY <2>1 DEF Slot
  <2>3. slot'[i] = IF slot[i].used /\ slot[i].busy /\ slot[i].request = w THEN e ELSE slot[i]
    BY DEF Cancel
  <2>4. CASE slot[i].used /\ slot[i].busy /\ slot[i].request = w
    <3>1. slot'[i] = e
      BY <2>3, <2>4
    <3> QED BY <2>2, <2>4, <3>1
  <2>5. CASE ~(slot[i].used /\ slot[i].busy /\ slot[i].request = w)
    BY <2>3, <2>5
  <2> QED BY <2>4, <2>5
<1>5. UNCHANGED <<conn, timer, ended>>
  BY DEF Cancel
<1> QED BY <1>2, <1>3, <1>4, <1>5

LEMMA ScopeEndChanges ==
    ASSUME TypeOK, NEW scope \in Scopes, ScopeEnd(scope)
    PROVE  /\ UNCHANGED call /\ ended' = ended \cup {scope}
           /\ \A w \in Workers : call[w].scope # scope
           /\ \A i \in Slots :
                 \/ slot'[i] = EmptySlot /\ timer'[i] = NoTimer
                 \/ /\ slot'[i] = slot[i] /\ conn'[i] = conn[i] /\ timer'[i] = timer[i]
                    /\ i \notin Owned(scope)
BY DestroyedEffect DEF ScopeEnd

LEMMA TickChanges ==
    ASSUME TypeOK, Tick
    PROVE  /\ UNCHANGED <<slot, conn, ended>>
           /\ \A v \in Workers : SameCall(v) /\ call'[v].phase = call[v].phase
           /\ \A i \in Slots : /\ timer'[i].deadline <= timer[i].deadline
                               /\ timer'[i].lease <= timer[i].lease
<1>1. UNCHANGED <<slot, conn, ended>>
  BY DEF Tick
<1>2. \A v \in Workers : call[v] \in Call /\ call'[v] = [call[v] EXCEPT !.wait = Down(@)]
  BY DEF Tick, TypeOK
<1>3. \A v \in Workers : SameCall(v) /\ call'[v].phase = call[v].phase
  BY <1>2 DEF SameCall, Call
<1>4. \A n \in Nat : Down(n) <= n
  BY DEF Down
<1>5. \A i \in Slots : timer[i].deadline \in Nat /\ timer[i].lease \in Nat
  BY DEF TypeOK, Timer
<1>6. \A i \in Slots : /\ timer'[i].deadline = Down(timer[i].deadline)
                      /\ timer'[i].lease = Down(timer[i].lease)
  BY DEF Tick
<1> QED BY <1>1, <1>3, <1>4, <1>5, <1>6

-----------------------------------------------------------------------------
(* IdleClean: an entry becomes idle in Release only, which resets it first.  *)

LEMMA BusyIsWorking ==
    ASSUME TypeOK, Ownership, NEW w \in Workers, call[w].phase \in Holding
    PROVE  /\ call[w].slot \in Slots
           /\ slot[call[w].slot].used /\ slot[call[w].slot].busy
           /\ slot[call[w].slot].request = w
           /\ \A v \in Workers \ {w} : call[v].phase \in Holding => call[v].slot # call[w].slot
BY DEF Ownership

(* Every step leaves an entry empty, busy, as it was, or released.           *)
LEMMA EntryChanges ==
    ASSUME TypeOK, Ownership, [Next]_vars, NEW i \in Slots
    PROVE  \/ slot'[i] = EmptySlot
           \/ slot'[i].busy
           \/ slot'[i] = slot[i] /\ conn'[i] = conn[i]
           \/ /\ \E w \in Workers : Release(w) /\ i = call[w].slot
              /\ ~conn'[i].broken
              /\ slot'[i].handle = slot[i].handle
              /\ ~Pinned(i) => conn'[i].server = "idle" /\ conn'[i].result = "none"
<1>1. ASSUME NEW w \in Workers, Begin(w) PROVE slot'[i] = slot[i] /\ conn'[i] = conn[i]
  BY <1>1 DEF Begin
<1>2. ASSUME NEW w \in Workers, Acquire(w)
      PROVE  slot'[i] = EmptySlot \/ slot'[i].busy \/ (slot'[i] = slot[i] /\ conn'[i] = conn[i])
  BY <1>2, AcquireChanges DEF Opens, Reuses
<1>3. ASSUME NEW w \in Workers, ConnectOk(w) PROVE slot'[i] = slot[i] /\ conn'[i] = conn[i]
  BY <1>3 DEF ConnectOk
<1>4. ASSUME NEW w \in Workers, Dispatch(w) \/ GiveUp(w)
      PROVE  slot'[i].busy \/ (slot'[i] = slot[i] /\ conn'[i] = conn[i])
  <2>1. PICK c \in Connection, h \in Tokens \cup {None}, t \in Timer, r \in Replies :
           Finish(w, c, h, t, r)
    BY <1>4, DispatchFinishes DEF Finishes
  <2>2. /\ call[w].phase = "working" /\ SameOwner(i)
        /\ i # call[w].slot => slot'[i] = slot[i] /\ conn'[i] = conn[i]
    BY <2>1, FinishChanges
  <2>3. slot[call[w].slot].busy
    BY <2>2, BusyIsWorking DEF Holding
  <2> QED BY <2>2, <2>3 DEF SameOwner
<1>5. ASSUME NEW w \in Workers, ConnectFailed(w) \/ Release(w)
      PROVE  \/ slot'[i] = EmptySlot
             \/ slot'[i] = slot[i] /\ conn'[i] = conn[i]
             \/ /\ Release(w) /\ i = call[w].slot
                /\ ~conn'[i].broken
                /\ slot'[i].handle = slot[i].handle
                /\ ~Pinned(i) => conn'[i].server = "idle" /\ conn'[i].result = "none"
  BY <1>5, GiveBackChanges
<1>6. ASSUME NEW w \in Workers, Cancel(w)
      PROVE  slot'[i].busy \/ (slot'[i] = slot[i] /\ conn'[i] = conn[i])
  BY <1>6, CancelChanges
<1>7. ASSUME NEW scope \in Scopes, ScopeEnd(scope)
      PROVE  slot'[i] = EmptySlot \/ (slot'[i] = slot[i] /\ conn'[i] = conn[i])
  BY <1>7, ScopeEndChanges
<1>8. CASE Tick
  BY <1>8, TickChanges
<1>9. CASE UNCHANGED vars
  BY <1>9 DEF vars
<1> QED BY <1>1, <1>2, <1>3, <1>4, <1>5, <1>6, <1>7, <1>8, <1>9 DEF Next

LEMMA IdleCleanInductive ==
    ASSUME TypeOK, Ownership, IdleClean, [Next]_vars
    PROVE  IdleClean'
<1>1. ASSUME NEW i \in Slots, slot'[i].used, ~slot'[i].busy
      PROVE  /\ ~conn'[i].broken
             /\ slot'[i].handle = None => conn'[i].server = "idle" /\ conn'[i].result = "none"
  <2>1. slot'[i] # EmptySlot
    BY <1>1 DEF EmptySlot
  <2>2. CASE slot'[i] = slot[i] /\ conn'[i] = conn[i]
    BY <1>1, <2>2 DEF IdleClean, Idle, Pinned
  <2>3. CASE /\ ~conn'[i].broken
             /\ slot'[i].handle = slot[i].handle
             /\ ~Pinned(i) => conn'[i].server = "idle" /\ conn'[i].result = "none"
    BY <2>3 DEF Pinned
  <2> QED BY <1>1, <2>1, <2>2, <2>3, EntryChanges
<1> QED BY <1>1 DEF IdleClean, Idle, Pinned, Slots

(* A session anybody may be given is sound and carries no transaction and no *)
(* unread result of its last user; a broken session is never idle.           *)
THEOREM IdleSessionsAreClean == Spec => []IdleClean
<1>1. Init => IdleClean
  BY DEF Init, IdleClean, Idle, EmptySlot
<1>2. TypeOK /\ Ownership /\ IdleClean /\ [Next]_vars => IdleClean'
  BY IdleCleanInductive
<1> QED BY <1>1, <1>2, AlwaysOwned, PTL DEF Spec

-----------------------------------------------------------------------------
(* CancelReaches.                                                            *)

LEMMA CancelReachesInductive ==
    ASSUME TypeOK, Ownership, CancelReaches, [Next]_vars
    PROVE  CancelReaches'
<1>0. TypeOK' /\ Ownership'
  BY OwnershipInductive
<1> SUFFICES ASSUME NEW v \in Workers, call'[v].phase \in Holding, call'[v].cancelled
             PROVE  slot'[call'[v].slot].cancelled
  BY DEF CancelReaches, Holds, Holding, Slots
<1> DEFINE i == call'[v].slot
<1>1. i \in Slots /\ slot'[i].used /\ slot'[i].busy /\ slot'[i].request = v
  BY <1>0 DEF Ownership, Slots
<1>2. slot'[i] # EmptySlot
  BY <1>1 DEF EmptySlot
<1>3. call[v].phase \in Holding /\ call[v].cancelled /\ call[v].slot \in Slots
      => slot[call[v].slot].cancelled
  BY DEF CancelReaches, Holds, Holding
<1>4. ASSUME call[v].phase \in Holding, SameCall(v), slot'[i] = slot[i]
      PROVE  slot'[i].cancelled
  BY <1>1, <1>3, <1>4 DEF SameCall
<1>5. ASSUME call'[v] = call[v], slot'[i] = slot[i]
      PROVE  slot'[i].cancelled
  BY <1>1, <1>3, <1>5
<1>6. ASSUME NEW w \in Workers, Begin(w) PROVE slot'[i].cancelled
  <2>1. UNCHANGED slot /\ call'[w].phase = "waiting"
        /\ \A u \in Workers \ {w} : call'[u] = call[u]
    BY <1>6 DEF Begin, TypeOK, NoCall
  <2> QED BY <1>5, <2>1 DEF Holding
<1>7. ASSUME NEW w \in Workers, Acquire(w) PROVE slot'[i].cancelled
  <2>1. CASE v = w
    BY <1>7, <2>1, AcquireChanges DEF Holding
  <2>2. CASE v # w
    <3>1. call'[v] = call[v]
      BY <1>7, <2>2, AcquireChanges
    <3>2. slot[i].busy
      BY <3>1 DEF Ownership
    <3>3. slot'[i] = EmptySlot \/ slot'[i] = slot[i]
      BY <1>1, <1>7, <2>2, <3>2, AcquireChanges DEF Opens, Reuses
    <3> QED BY <1>2, <1>5, <3>1, <3>3
  <2> QED BY <2>1, <2>2
<1>8. ASSUME NEW w \in Workers, ConnectOk(w) PROVE slot'[i].cancelled
  <2>1. SameCall(v) /\ UNCHANGED slot
        /\ (call'[v] = call[v] \/ call[v].phase = "connecting")
    BY <1>8, ConnectedChanges
  <2> QED BY <1>4, <2>1 DEF Holding
<1>9. ASSUME NEW w \in Workers, ConnectFailed(w) \/ Release(w) PROVE slot'[i].cancelled
  <2>1. call'[w] = NoCall /\ \A u \in Workers \ {w} : call'[u] = call[u]
        /\ \A j \in Slots \ {call[w].slot} : slot'[j] = slot[j]
    BY <1>9, GiveBackChanges
  <2>2. v # w
    BY <2>1 DEF NoCall, Holding
  <2>3. call'[v] = call[v]
    BY <2>1, <2>2
  <2>4. call[w].phase \in Holding
    BY <1>9 DEF ConnectFailed, Release, Holding
  <2>5. call[v].slot # call[w].slot
    BY <2>2, <2>3, <2>4, BusyIsWorking
  <2>6. slot'[i] = slot[i]
    BY <1>1, <2>1, <2>3, <2>5
  <2> QED BY <1>5, <2>3, <2>6
<1>10. ASSUME NEW w \in Workers, Dispatch(w) \/ GiveUp(w) PROVE slot'[i].cancelled
  <2>1. PICK c \in Connection, h \in Tokens \cup {None}, t \in Timer, r \in Replies :
           Finish(w, c, h, t, r)
    BY <1>10, DispatchFinishes DEF Finishes
  <2>2. /\ call[w].phase = "working" /\ SameOwner(i) /\ SameCall(v)
        /\ v # w => call'[v].phase = call[v].phase
    BY <1>1, <2>1, FinishChanges
  <2>3. call[v].phase \in Holding
    BY <2>2 DEF Holding
  <2> QED BY <1>1, <1>3, <2>2, <2>3 DEF SameOwner, SameCall
<1>11. ASSUME NEW w \in Workers, Cancel(w) PROVE slot'[i].cancelled
  <2>1. call'[v].phase = call[v].phase /\ call'[v].slot = call[v].slot
        /\ (v # w => call'[v] = call[v])
    BY <1>11, CancelChanges
  <2>2. slot[i].used /\ slot[i].busy /\ slot[i].request = v
    BY <2>1, BusyIsWorking
  <2>3. slot'[i].cancelled \/ (slot'[i] = slot[i] /\ v # w)
    BY <1>1, <1>11, <2>2, CancelChanges
  <2> QED BY <1>5, <2>1, <2>3
<1>12. ASSUME NEW scope \in Scopes, ScopeEnd(scope) PROVE slot'[i].cancelled
  <2>1. UNCHANGED call /\ (slot'[i] = EmptySlot \/ slot'[i] = slot[i])
    BY <1>1, <1>12, ScopeEndChanges
  <2> QED BY <1>2, <1>5, <2>1
<1>13. CASE Tick
  BY <1>4, <1>13, TickChanges
<1>14. CASE UNCHANGED vars
  BY <1>5, <1>14 DEF vars
<1> QED BY <1>6, <1>7, <1>8, <1>9, <1>10, <1>11, <1>12, <1>13, <1>14 DEF Next

(* A cancellation that arrives at any moment of a call is seen by the        *)
(* session the call holds, or will hold: the flag it sets cannot be cleared  *)
(* between the two.                                                          *)
THEOREM CancellationReaches == Spec => []CancelReaches
<1>1. Init => CancelReaches
  BY DEF Init, CancelReaches, Holds, NoCall
<1>2. TypeOK /\ Ownership /\ CancelReaches /\ [Next]_vars => CancelReaches'
  BY CancelReachesInductive
<1> QED BY <1>1, <1>2, AlwaysOwned, PTL DEF Spec

-----------------------------------------------------------------------------
(* ScopeConfined and EndedScopeHoldsNothing.                                 *)

(* The scope of a call that runs has not ended, its session carries it, and  *)
(* only an entry in use has a handle.                                        *)
ScopeInv ==
    /\ \A w \in Workers : call[w].phase \in Holding =>
          slot[call[w].slot].scope = call[w].scope
    /\ \A w \in Workers : call[w].phase # "idle" => call[w].scope \notin ended
    /\ \A i \in Slots : Pinned(i) =>
          slot[i].used /\ slot[i].scope \notin ended

LEMMA ScopeInductive ==
    ASSUME TypeOK, Ownership, ScopeInv, [Next]_vars
    PROVE  ScopeInv'
<1>0. TypeOK' /\ Ownership'
  BY OwnershipInductive
<1>1. ASSUME NEW w \in Workers, Begin(w) PROVE ScopeInv'
  <2>1. PICK scope \in Scopes :
           /\ UNCHANGED slot /\ ended' = ended \ {scope}
           /\ call'[w].phase = "waiting" /\ call'[w].scope = scope
           /\ \A u \in Workers \ {w} : call'[u] = call[u]
    BY <1>1 DEF Begin, TypeOK, NoCall
  <2> QED BY <2>1 DEF ScopeInv, Holding, Pinned, Slots
<1>2. ASSUME NEW w \in Workers, Acquire(w) PROVE ScopeInv'
  <2>1. /\ \A u \in Workers \ {w} : call'[u] = call[u]
        /\ UNCHANGED ended /\ call[w].phase = "waiting"
    BY <1>2, AcquireChanges
  <2>2. call[w].scope \notin ended
    BY <2>1 DEF ScopeInv
  <2>3. \/ call'[w].phase = "idle"
        \/ call'[w].scope \in {call[w].scope, None}
    BY <1>2, AcquireChanges
  <2>4. call'[w].phase \in Holding => /\ call'[w].scope = call[w].scope
                                      /\ slot'[call'[w].slot].scope = call[w].scope
    BY <1>2, AcquireChanges DEF Holding, Opens, Reuses
  <2>5. ASSUME NEW u \in Workers \ {w}, call'[u].phase \in Holding
        PROVE  slot'[call'[u].slot].scope = call'[u].scope
    <3> DEFINE i == call[u].slot
    <3>1. call'[u] = call[u] /\ i \in Slots /\ slot[i].busy /\ slot'[i].used
      BY <1>0, <2>1, <2>5 DEF Ownership
    <3>2. slot'[i].request = u
      BY <1>0, <2>5, <3>1 DEF Ownership
    <3>3. slot'[i] = slot[i]
      BY <1>2, <3>1, <3>2, AcquireChanges DEF EmptySlot, Opens, Reuses
    <3> QED BY <2>5, <3>1, <3>3 DEF ScopeInv
  <2>6. None \notin ended
    BY PoolAssumption DEF TypeOK
  <2>7. \A u \in Workers : call'[u].phase # "idle" => call'[u].scope \notin ended'
    BY <2>1, <2>2, <2>3, <2>6 DEF ScopeInv
  <2>8. ASSUME NEW i \in Slots, slot'[i].handle # None
        PROVE  slot'[i].used /\ slot'[i].scope \notin ended'
    <3>1. slot'[i] # EmptySlot
      BY <2>8 DEF EmptySlot
    <3>2. \/ slot'[i] = slot[i]
          \/ Reuses(w, i)
          \/ Opens(w, i)
      BY <1>2, <3>1, AcquireChanges
    <3>3. CASE slot'[i] = slot[i]
      BY <2>1, <2>8, <3>3 DEF ScopeInv, Pinned
    <3>4. CASE Reuses(w, i)
      BY <2>1, <2>2, <3>4 DEF Reuses
    <3>5. CASE Opens(w, i)
      BY <2>8, <3>5 DEF Opens
    <3> QED BY <3>2, <3>3, <3>4, <3>5
  <2> QED BY <2>4, <2>5, <2>7, <2>8 DEF ScopeInv, Pinned, Slots
<1>3. ASSUME NEW w \in Workers, ConnectOk(w) PROVE ScopeInv'
  <2>1. /\ UNCHANGED <<slot, ended>> /\ call[w].phase = "connecting"
        /\ \A u \in Workers : SameCall(u)
        /\ \A u \in Workers \ {w} : call'[u] = call[u]
    BY <1>3, ConnectedChanges
  <2> QED BY <2>1 DEF ScopeInv, SameCall, Holding, Pinned, Slots
<1>4. ASSUME NEW w \in Workers, Dispatch(w) \/ GiveUp(w) PROVE ScopeInv'
  <2> DEFINE i == call[w].slot
  <2>1. PICK c \in Connection, h \in Tokens \cup {None}, t \in Timer, r \in Replies :
           Finish(w, c, h, t, r)
    BY <1>4, DispatchFinishes DEF Finishes
  <2>2. /\ call[w].phase = "working" /\ i \in Slots
        /\ \A u \in Workers : SameCall(u)
        /\ \A u \in Workers \ {w} : call'[u].phase = call[u].phase
        /\ \A j \in Slots : SameOwner(j)
        /\ \A j \in Slots \ {i} : slot'[j] = slot[j]
        /\ UNCHANGED ended
    BY <2>1, FinishChanges
  <2>3. slot[i].used /\ slot[i].scope = call[w].scope /\ call[w].scope \notin ended
    BY <2>2 DEF ScopeInv, Ownership, Holding
  <2>4. \A u \in Workers : /\ call'[u].phase \in Holding => call[u].phase \in Holding
                           /\ call'[u].phase # "idle" => call[u].phase # "idle"
    BY <2>2 DEF Holding
  <2>5. \A u \in Workers : call[u].phase \in Holding => call[u].slot \in Slots
    BY DEF Ownership
  <2>6. ASSUME NEW j \in Slots, slot'[j].handle # None
        PROVE  slot'[j].used /\ slot'[j].scope \notin ended'
    BY <2>2, <2>3, <2>6 DEF ScopeInv, Pinned, SameOwner
  <2> QED BY <2>2, <2>4, <2>5, <2>6 DEF ScopeInv, SameCall, SameOwner, Pinned, Slots
<1>5. ASSUME NEW w \in Workers, ConnectFailed(w) \/ Release(w) PROVE ScopeInv'
  <2> DEFINE i == call[w].slot
  <2>1. /\ call'[w].phase = "idle"
        /\ \A u \in Workers \ {w} : call'[u] = call[u]
        /\ \A j \in Slots \ {i} : slot'[j] = slot[j]
        /\ UNCHANGED ended
    BY <1>5, GiveBackChanges DEF NoCall
  <2>2. \/ slot'[i] = EmptySlot
        \/ /\ slot'[i].used = slot[i].used /\ slot'[i].handle = slot[i].handle
           /\ Pinned(i) => slot'[i].scope = slot[i].scope
    BY <1>5, GiveBackChanges
  <2>3. call[w].phase \in Holding
    BY <1>5 DEF ConnectFailed, Release, Holding
  <2>4. \A u \in Workers \ {w} : call[u].phase \in Holding => call[u].slot \in Slots \ {i}
    BY <2>3, BusyIsWorking DEF Ownership
  <2>5. ASSUME NEW j \in Slots, slot'[j].handle # None
        PROVE  slot'[j].used /\ slot'[j].scope \notin ended'
    BY <2>1, <2>2, <2>5 DEF ScopeInv, Pinned, EmptySlot
  <2>6. "idle" \notin Holding
    BY DEF Holding
  <2> QED BY <2>1, <2>4, <2>5, <2>6 DEF ScopeInv, Pinned, Slots
<1>6. ASSUME NEW w \in Workers, Cancel(w) PROVE ScopeInv'
  <2>1. /\ \A u \in Workers : /\ call'[u].phase = call[u].phase
                              /\ call'[u].slot = call[u].slot
                              /\ call'[u].scope = call[u].scope
        /\ UNCHANGED ended
    BY <1>6, CancelChanges
  <2>2. \A j \in Slots : /\ slot'[j].used = slot[j].used
                         /\ slot'[j].scope = slot[j].scope
                         /\ slot'[j].handle = slot[j].handle
    BY <1>6, CancelChanges
  <2> QED BY <2>1, <2>2 DEF ScopeInv, Ownership, Pinned, Slots
<1>7. ASSUME NEW scope \in Scopes, ScopeEnd(scope) PROVE ScopeInv'
  <2>1. /\ UNCHANGED call /\ ended' = ended \cup {scope}
        /\ \A w \in Workers : call[w].scope # scope
    BY <1>7, ScopeEndChanges
  <2>2. \A j \in Slots : slot'[j] = EmptySlot \/ (slot'[j] = slot[j] /\ j \notin Owned(scope))
    BY <1>7, ScopeEndChanges
  <2>3. ASSUME NEW w \in Workers, call'[w].phase \in Holding
        PROVE  slot'[call'[w].slot].scope = call'[w].scope
    <3>1. call[w].slot \in Slots /\ slot'[call[w].slot].used
      BY <1>0, <2>1, <2>3 DEF Ownership
    <3> QED BY <2>1, <2>2, <2>3, <3>1 DEF ScopeInv, EmptySlot
  <2>4. ASSUME NEW j \in Slots, slot'[j].handle # None
        PROVE  slot'[j].used /\ slot'[j].scope \notin ended'
    <3>1. slot'[j] = slot[j] /\ j \notin Owned(scope)
      BY <2>2, <2>4 DEF EmptySlot
    <3>2. slot[j].used /\ slot[j].scope \notin ended
      BY <2>4, <3>1 DEF ScopeInv, Pinned
    <3>3. CASE slot[j].busy
      BY <2>1, <3>1, <3>2, <3>3 DEF ScopeInv, Ownership
    <3>4. CASE ~slot[j].busy
      BY <2>1, <2>4, <3>1, <3>2, <3>4 DEF Owned, Idle, Pinned
    <3> QED BY <3>3, <3>4
  <2> QED BY <2>1, <2>3, <2>4 DEF ScopeInv, Pinned, Slots
<1>8. CASE Tick
  <2>1. /\ UNCHANGED <<slot, ended>>
        /\ \A v \in Workers : SameCall(v) /\ call'[v].phase = call[v].phase
    BY <1>8, TickChanges
  <2> QED BY <2>1 DEF ScopeInv, SameCall, Pinned, Slots
<1>9. CASE UNCHANGED vars
  BY <1>9 DEF vars, ScopeInv, Pinned, Slots
<1> QED BY <1>1, <1>2, <1>3, <1>4, <1>5, <1>6, <1>7, <1>8, <1>9 DEF Next

LEMMA AlwaysScoped == Spec => []ScopeInv
<1>1. Init => ScopeInv
  BY DEF Init, ScopeInv, NoCall, EmptySlot, Pinned, Holding
<1>2. TypeOK /\ Ownership /\ ScopeInv /\ [Next]_vars => ScopeInv'
  BY ScopeInductive
<1> QED BY <1>1, <1>2, AlwaysOwned, PTL DEF Spec

(* A resource is only ever used by calls of the scope that opened it.        *)
THEOREM ResourcesAreConfined == Spec => []ScopeConfined
<1>1. ScopeInv => ScopeConfined
  BY DEF ScopeInv, ScopeConfined, Holds, Holding
<1> QED BY <1>1, AlwaysScoped, PTL

(* Once a scope has ended, the pool holds none of its resources.             *)
THEOREM EndedScopesAreEmpty == Spec => []EndedScopeHoldsNothing
<1>1. ScopeInv => EndedScopeHoldsNothing
  BY DEF ScopeInv, EndedScopeHoldsNothing
<1> QED BY <1>1, AlwaysScoped, PTL

-----------------------------------------------------------------------------
(* The limits of a data source.                                              *)


LEMMA SlotsFinite ==
    ASSUME NEW S \in SUBSET Slots
    PROVE  IsFiniteSet(S) /\ Cardinality(S) \in Nat
<1>1. IsFiniteSet(Slots)
  BY PoolAssumption, FS_Interval DEF Slots
<1>2. IsFiniteSet(S)
  BY <1>1, FS_Subset
<1> QED BY <1>2, FS_CardinalityType

LEMMA SmallerSet ==
    ASSUME NEW S \in SUBSET Slots, NEW T \in SUBSET S, NEW n \in Nat, Cardinality(S) <= n
    PROVE  Cardinality(T) <= n
<1>1. IsFiniteSet(S) /\ Cardinality(S) \in Nat /\ Cardinality(T) \in Nat
  BY SlotsFinite
<1>2. Cardinality(T) <= Cardinality(S)
  BY <1>1, FS_Subset
<1> QED BY <1>1, <1>2

(* A set that gained at most one entry over a set with room for one.         *)
LEMMA OneMore ==
    ASSUME NEW S \in SUBSET Slots, NEW i \in Slots, NEW T \in SUBSET (S \cup {i}),
           NEW n \in Nat, Cardinality(S) < n
    PROVE  Cardinality(T) <= n
<1>1. IsFiniteSet(S) /\ Cardinality(S) \in Nat
  BY SlotsFinite
<1>2. Cardinality(S \cup {i}) <= Cardinality(S) + 1
  BY <1>1, FS_AddElement
<1>3. Cardinality(S \cup {i}) <= n
  <2>1. Cardinality(S \cup {i}) \in Nat
    BY SlotsFinite
  <2> QED BY <1>1, <1>2, <2>1
<1> QED BY <1>3, SmallerSet

-----------------------------------------------------------------------------
(* OpenWithinMax: only AcquireNew gives an entry to a data source, and it    *)
(* has counted the entries of that data source that are still there.         *)

Open(k) == {i \in Slots : slot[i].used /\ slot[i].key = k}

LEMMA EntryKeys ==
    ASSUME TypeOK, Ownership, [Next]_vars, NEW i \in Slots, slot'[i].used
    PROVE  \/ slot[i].used /\ slot'[i].key = slot[i].key
           \/ \E w \in Workers : Acquire(w) /\ i = call'[w].slot /\ Opens(w, i)
<1>0. slot'[i] # EmptySlot
  BY DEF EmptySlot
<1>1. ASSUME NEW w \in Workers, Acquire(w)
      PROVE  \/ slot[i].used /\ slot'[i].key = slot[i].key
             \/ i = call'[w].slot /\ Opens(w, i)
  <2>1. slot'[i] = slot[i] \/ Reuses(w, i) \/ (i = call'[w].slot /\ Opens(w, i))
    BY <1>0, <1>1, AcquireChanges
  <2> QED BY <2>1 DEF Reuses
<1>2. ASSUME NEW w \in Workers, Dispatch(w) \/ GiveUp(w)
      PROVE  slot[i].used /\ slot'[i].key = slot[i].key
  <2>1. PICK c \in Connection, h \in Tokens \cup {None}, t \in Timer, r \in Replies :
           Finish(w, c, h, t, r)
    BY <1>2, DispatchFinishes DEF Finishes
  <2>2. SameOwner(i)
    BY <2>1, FinishChanges
  <2> QED BY <2>2 DEF SameOwner
<1>3. ASSUME NEW w \in Workers, ConnectFailed(w) \/ Release(w)
      PROVE  slot[i].used /\ slot'[i].key = slot[i].key
  BY <1>0, <1>3, GiveBackChanges
<1>4. ASSUME NEW w \in Workers, Cancel(w)
      PROVE  slot[i].used /\ slot'[i].key = slot[i].key
  BY <1>4, CancelChanges
<1>5. ASSUME NEW scope \in Scopes, ScopeEnd(scope)
      PROVE  slot[i].used /\ slot'[i].key = slot[i].key
  BY <1>0, <1>5, ScopeEndChanges
<1>6. ASSUME NEW w \in Workers, Begin(w) \/ ConnectOk(w)
      PROVE  slot[i].used /\ slot'[i].key = slot[i].key
  BY <1>6 DEF Begin, ConnectOk
<1>7. ASSUME Tick \/ UNCHANGED vars
      PROVE  slot[i].used /\ slot'[i].key = slot[i].key
  BY <1>7 DEF Tick, vars
<1> QED BY <1>1, <1>2, <1>3, <1>4, <1>5, <1>6, <1>7 DEF Next

LEMMA OpenInductive ==
    ASSUME TypeOK, Ownership, OpenWithinMax, [Next]_vars
    PROVE  OpenWithinMax'
<1> SUFFICES ASSUME NEW k \in Keys
             PROVE  Cardinality({i \in Slots : slot'[i].used /\ slot'[i].key = k}) <= MaxOpen
  BY DEF OpenWithinMax, Slots
<1> DEFINE T == {i \in Slots : slot'[i].used /\ slot'[i].key = k}
<1>1. MaxOpen \in Nat /\ Cardinality(Open(k)) <= MaxOpen
  BY PoolAssumption DEF OpenWithinMax, Open
<1>2. CASE T \subseteq Open(k)
  BY <1>1, <1>2, SmallerSet DEF Open
<1>3. CASE ~(T \subseteq Open(k))
  <2>1. PICK w \in Workers, i \in Slots : Acquire(w) /\ i = call'[w].slot /\ Opens(w, i)
    BY <1>3, EntryKeys DEF Open
  <2>2. MayOpen(w) /\ call'[w].phase = "connecting" /\ slot'[i].key = call[w].target
    BY <2>1 DEF Opens
  <2>3. \A j \in Slots \ {i} : slot'[j] = EmptySlot \/ (slot'[j] = slot[j] /\ j \notin Swept(w))
    BY <2>1, <2>2, AcquireChanges
  <2>4. CASE k = call[w].target
    <3>1. OpenOf(w, k) \in SUBSET Slots /\ Cardinality(OpenOf(w, k)) < MaxOpen
      BY <2>2, <2>4 DEF MayOpen, OpenOf
    <3>2. T \subseteq OpenOf(w, k) \cup {i}
      BY <2>3 DEF OpenOf, EmptySlot
    <3> QED BY <1>1, <3>1, <3>2, OneMore
  <2>5. CASE k # call[w].target
    <3>1. T \subseteq Open(k)
      BY <2>2, <2>3, <2>5 DEF Open, EmptySlot
    <3> QED BY <1>3, <3>1
  <2> QED BY <2>4, <2>5
<1> QED BY <1>2, <1>3

(* No interleaving of scans, connects and releases opens more sessions for a *)
(* data source than its max_open.                                            *)
THEOREM OpenSessionsAreBounded == Spec => []OpenWithinMax
<1>1. Init => OpenWithinMax
  <2> SUFFICES ASSUME Init, NEW k \in Keys
               PROVE  Cardinality({i \in Slots : slot[i].used /\ slot[i].key = k}) <= MaxOpen
    BY DEF OpenWithinMax
  <2>1. {i \in Slots : slot[i].used /\ slot[i].key = k} = {}
    BY DEF Init, EmptySlot
  <2>2. Cardinality({}) = 0
    BY FS_EmptySet
  <2>3. 0 <= MaxOpen
    BY PoolAssumption
  <2> QED BY <2>1, <2>2, <2>3
<1>2. TypeOK /\ Ownership /\ OpenWithinMax /\ [Next]_vars => OpenWithinMax'
  BY OpenInductive
<1> QED BY <1>1, <1>2, AlwaysOwned, PTL DEF Spec

-----------------------------------------------------------------------------
(* IdleWithinMax.                                                            *)

Reusables(k) == {i \in Slots : Idle(i) /\ ~Pinned(i) /\ slot[i].key = k}

LEMMA IdleInductive ==
    ASSUME TypeOK, Ownership, IdleWithinMax, [Next]_vars
    PROVE  IdleWithinMax'
<1> SUFFICES ASSUME NEW k \in Keys
             PROVE  Cardinality({i \in Slots : /\ slot'[i].used /\ ~slot'[i].busy
                                               /\ slot'[i].handle = None
                                               /\ slot'[i].key = k}) <= MaxIdle
  BY DEF IdleWithinMax, Idle, Pinned, Slots
<1> DEFINE T == {i \in Slots : /\ slot'[i].used /\ ~slot'[i].busy
                               /\ slot'[i].handle = None /\ slot'[i].key = k}
<1>1. MaxIdle \in Nat /\ Cardinality(Reusables(k)) <= MaxIdle
  BY PoolAssumption DEF IdleWithinMax, Reusables
<1>2. CASE T \subseteq Reusables(k)
  BY <1>1, <1>2, SmallerSet DEF Reusables
<1>3. CASE ~(T \subseteq Reusables(k))
  <2>1. PICK i \in T : i \notin Reusables(k)
    BY <1>3
  <2>2. slot'[i] # EmptySlot /\ ~slot'[i].busy /\ slot'[i] # slot[i]
    BY <2>1 DEF EmptySlot, Reusables, Idle, Pinned
  <2>3. PICK w \in Workers : Release(w) /\ i = call[w].slot
    BY <2>1, <2>2, EntryChanges
  <2>4. /\ slot[i].key = k /\ ~Pinned(i)
        /\ Cardinality(IdleOf(slot[i].key)) < MaxIdle
        /\ \A j \in Slots \ {i} : slot'[j] = slot[j]
    BY <2>1, <2>2, <2>3, GiveBackChanges DEF Pinned
  <2>5. T \subseteq IdleOf(k) \cup {i} /\ IdleOf(k) \in SUBSET Slots
    BY <2>4 DEF IdleOf, Idle
  <2> QED BY <1>1, <2>1, <2>4, <2>5, OneMore
<1> QED BY <1>2, <1>3

(* However many calls release at once, a data source keeps at most max_idle  *)
(* reusable idle sessions.                                                   *)
THEOREM IdleSessionsAreBounded == Spec => []IdleWithinMax
<1>1. Init => IdleWithinMax
  <2> SUFFICES ASSUME Init, NEW k \in Keys
               PROVE  Cardinality({i \in Slots : Idle(i) /\ ~Pinned(i) /\ slot[i].key = k})
                         <= MaxIdle
    BY DEF IdleWithinMax
  <2>1. {i \in Slots : Idle(i) /\ ~Pinned(i) /\ slot[i].key = k} = {}
    BY DEF Init, EmptySlot, Idle
  <2> QED BY <2>1, FS_EmptySet, PoolAssumption
<1>2. TypeOK /\ Ownership /\ IdleWithinMax /\ [Next]_vars => IdleWithinMax'
  BY IdleInductive
<1> QED BY <1>1, <1>2, AlwaysOwned, PTL DEF Spec

(* Both limits of a data source (max_open and max_idle of db_acquire and     *)
(* db_release) hold together, for every number of threads and entries.       *)
THEOREM LimitsHold == Spec => []WithinMax
<1>1. OpenWithinMax /\ IdleWithinMax => WithinMax
  BY DEF WithinMax
<1> QED BY <1>1, OpenSessionsAreBounded, IdleSessionsAreBounded, PTL

-----------------------------------------------------------------------------
(* TransactionLease.                                                         *)

LEMMA LeaseInductive ==
    ASSUME TypeOK, Ownership, LeaseBound, [Next]_vars
    PROVE  LeaseBound'
<1> SUFFICES ASSUME NEW i \in Slots
             PROVE  /\ timer'[i].deadline <= OpTimeout
                    /\ slot'[i].handle # None /\ conn'[i].transaction
                       => timer'[i].lease <= OpTimeout
  BY DEF LeaseBound, TransactionLease, Pinned, Slots
<1> DEFINE Goal == /\ timer'[i].deadline <= OpTimeout
                   /\ slot'[i].handle # None /\ conn'[i].transaction
                      => timer'[i].lease <= OpTimeout
<1>0. /\ TypeOK' /\ OpTimeout \in Nat
      /\ timer[i].deadline <= OpTimeout
      /\ slot[i].handle # None /\ conn[i].transaction => timer[i].lease <= OpTimeout
  BY OwnershipInductive, TimeAssumption DEF LeaseBound, TransactionLease, Pinned
<1>1. ASSUME slot'[i] = slot[i], conn'[i] = conn[i], timer'[i] = timer[i] PROVE Goal
  BY <1>0, <1>1
<1>2. ASSUME slot'[i] = EmptySlot, timer'[i] = NoTimer PROVE Goal
  BY <1>0, <1>2 DEF EmptySlot, NoTimer
<1>3. ASSUME NEW w \in Workers, Begin(w) \/ ConnectOk(w) PROVE Goal
  BY <1>1, <1>3 DEF Begin, ConnectOk
<1>4. ASSUME NEW w \in Workers, Acquire(w) PROVE Goal
  <2>1. \/ slot'[i] = EmptySlot /\ timer'[i] = NoTimer
        \/ slot'[i] = slot[i] /\ conn'[i] = conn[i] /\ timer'[i] = timer[i]
        \/ timer'[i].deadline <= OpTimeout /\ (Opens(w, i) \/ Reuses(w, i))
    BY <1>4, AcquireChanges
  <2>2. CASE timer'[i].deadline <= OpTimeout /\ Opens(w, i)
    BY <2>2 DEF Opens
  <2>3. CASE timer'[i].deadline <= OpTimeout /\ Reuses(w, i)
    BY <1>0, <2>3 DEF Reuses
  <2> QED BY <1>1, <1>2, <2>1, <2>2, <2>3
<1>5. ASSUME NEW w \in Workers, Dispatch(w) \/ GiveUp(w) PROVE Goal
  <2>1. PICK c \in Connection, h \in Tokens \cup {None}, t \in Timer, r \in Replies :
           /\ Finish(w, c, h, t, r)
           /\ t.deadline = timer[call[w].slot].deadline
           /\ c.transaction /\ h # None => t.lease <= OpTimeout
    BY <1>5, DispatchFinishes DEF Finishes
  <2>2. CASE i = call[w].slot
    <3>1. slot'[i].handle = h /\ conn'[i].transaction = c.transaction /\ timer'[i] = t
      BY <2>1, <2>2, FinishChanges
    <3> QED BY <1>0, <2>1, <2>2, <3>1
  <2>3. CASE i # call[w].slot
    BY <1>1, <2>1, <2>3, FinishChanges
  <2> QED BY <2>2, <2>3
<1>6. ASSUME NEW w \in Workers, ConnectFailed(w) \/ Release(w) PROVE Goal
  <2>1. CASE i # call[w].slot
    BY <1>1, <1>6, <2>1, GiveBackChanges
  <2>2. CASE i = call[w].slot /\ slot'[i] # EmptySlot
    <3>1. /\ slot'[i].handle = slot[i].handle
          /\ slot[i].handle # None => conn'[i] = conn[i]
          /\ timer'[i].deadline = 0 /\ timer'[i].lease = timer[i].lease
      BY <1>6, <2>2, GiveBackChanges DEF Pinned
    <3> QED BY <1>0, <3>1
  <2>3. CASE i = call[w].slot /\ slot'[i] = EmptySlot
    <3>1. \/ timer'[i] = NoTimer
          \/ timer'[i].deadline = 0
      <4>1. CASE ConnectFailed(w)
        <5>1. Destroy(i)
          BY <2>3, <4>1 DEF ConnectFailed
        <5> QED BY <5>1 DEF Destroy, TypeOK
      <4>2. CASE Release(w)
        BY <2>3, <4>2 DEF Release, Destroy, TypeOK, Timer
      <4> QED BY <1>6, <4>1, <4>2
    <3>2. slot'[i].handle = None
      BY <2>3 DEF EmptySlot
    <3> QED BY <1>0, <3>1, <3>2 DEF NoTimer
  <2> QED BY <2>1, <2>2, <2>3
<1>7. ASSUME NEW w \in Workers, Cancel(w) PROVE Goal
  <2>1. slot'[i].handle = slot[i].handle /\ UNCHANGED <<conn, timer>>
    BY <1>7, CancelChanges
  <2> QED BY <1>0, <2>1
<1>8. ASSUME NEW scope \in Scopes, ScopeEnd(scope) PROVE Goal
  BY <1>1, <1>2, <1>8, ScopeEndChanges
<1>9. CASE Tick
  <2>1. /\ UNCHANGED <<slot, conn>>
        /\ timer'[i].deadline <= timer[i].deadline /\ timer'[i].lease <= timer[i].lease
    BY <1>9, TickChanges
  <2>2. timer[i] \in Timer /\ timer'[i] \in Timer
    BY <1>0 DEF TypeOK
  <2>3. /\ timer[i].deadline \in Nat /\ timer[i].lease \in Nat
        /\ timer'[i].deadline \in Nat /\ timer'[i].lease \in Nat
    BY <2>2 DEF Timer
  <2> QED BY <1>0, <2>1, <2>3
<1>10. CASE UNCHANGED vars
  BY <1>1, <1>10 DEF vars
<1> QED BY <1>3, <1>4, <1>5, <1>6, <1>7, <1>8, <1>9, <1>10 DEF Next

(* A transaction lives no longer than one operation's budget, also when it   *)
(* was begun on a connection whose own lease is much longer.                 *)
THEOREM TransactionsExpire == Spec => []TransactionLease
<1>1. Init => LeaseBound
  BY TimeAssumption DEF Init, LeaseBound, TransactionLease, NoTimer, Pinned, EmptySlot
<1>2. TypeOK /\ Ownership /\ LeaseBound /\ [Next]_vars => LeaseBound'
  BY LeaseInductive
<1>3. LeaseBound => TransactionLease
  BY DEF LeaseBound
<1> QED BY <1>1, <1>2, <1>3, AlwaysOwned, PTL DEF Spec
-----------------------------------------------------------------------------
(* TimeoutOnlyWhenFull.                                                      *)

(* What a scan by key leaves when it found neither a session to reuse nor    *)
(* room for a new one.                                                       *)
LEMMA NothingLeft ==
    ASSUME TypeOK, NEW w \in Workers, call[w].target \in Keys, Saturated(w), Sweep(w)
    PROVE  LET open == {i \in Slots : slot'[i].used /\ slot'[i].key = call[w].target}
           IN /\ \A i \in open : slot'[i].busy \/ slot'[i].handle # None
              /\ Cardinality(open) >= MaxOpen \/ \A i \in Slots : slot'[i].used
<1> DEFINE open == {i \in Slots : slot'[i].used /\ slot'[i].key = call[w].target}
<1>1. ~ByHandle(w) /\ Reusable(w) = {} /\ ~MayOpen(w)
  BY DEF Saturated
<1>2. Swept(w) = {i \in Slots : Expired(i)}
  BY <1>1 DEF Swept
<1>3. \A i \in Slots : slot'[i] = IF i \in Swept(w) THEN EmptySlot ELSE slot[i]
  BY DEF Sweep, Destroyed
<1>4. \A i \in Slots : slot'[i].used <=> i \notin Free(w)
  <2>1. ~EmptySlot.used /\ \A i \in Slots : slot[i].used \in BOOLEAN
    BY DEF EmptySlot, TypeOK, Slot
  <2> QED BY <1>3, <2>1 DEF Free
<1>5. open = OpenOf(w, call[w].target)
  <2>1. \A i \in Slots : i \in open <=> i \in OpenOf(w, call[w].target)
    BY <1>3, <1>4 DEF OpenOf, Free
  <2> QED BY <2>1 DEF OpenOf
<1>6. ASSUME NEW i \in open PROVE slot'[i].busy \/ slot'[i].handle # None
  <2>1. i \in Slots /\ slot[i].used /\ slot[i].key = call[w].target /\ ~Expired(i)
        /\ slot'[i] = slot[i]
    BY <1>2, <1>3, <1>5, <1>6 DEF OpenOf
  <2>2. i \notin Reusable(w)
    BY <1>1
  <2> QED BY <2>1, <2>2 DEF Reusable, Idle, Pinned
<1>7. Cardinality(open) >= MaxOpen \/ \A i \in Slots : slot'[i].used
  <2>1. CASE Free(w) = {}
    BY <1>4, <2>1
  <2>2. CASE ~(Cardinality(open) < MaxOpen)
    <3>1. Cardinality(open) \in Nat /\ MaxOpen \in Nat
      BY SlotsFinite, PoolAssumption
    <3> QED BY <2>2, <3>1
  <2> QED BY <1>1, <1>5, <2>1, <2>2 DEF MayOpen
<1> QED BY <1>6, <1>7

(* A call that was not cancelled and looks for a session by its data source  *)
(* comes back empty-handed only through DB_POOL_TIMEOUT.                     *)
LEMMA OnlyTimeout ==
    ASSUME TypeOK, Ownership, [Next]_vars, NEW w \in Workers,
           call[w].phase = "waiting", call'[w].phase = "idle",
           call[w].target \in Keys, ~call[w].cancelled
    PROVE  AcquireTimeout(w)
<1>0. ~ByHandle(w) /\ call \in [Workers -> Call]
  BY PoolAssumption DEF ByHandle, TypeOK
<1>1. ASSUME NEW v \in Workers, v # w, call'[w] = call[w] PROVE FALSE
  BY <1>1
<1>2. CASE \E v \in Workers : Begin(v) \/ ConnectOk(v) \/ ConnectFailed(v)
  BY <1>0, <1>2 DEF Begin, ConnectOk, ConnectFailed, Return
<1>3. CASE \E v \in Workers : Dispatch(v) \/ GiveUp(v)
  <2>1. PICK v \in Workers : Dispatch(v) \/ GiveUp(v)
    BY <1>3
  <2>2. call'[w].phase \in {call[w].phase, "releasing"}
    <3>1. PICK c \in Connection, h \in Tokens \cup {None}, t \in Timer, r \in Replies :
             Finish(v, c, h, t, r)
      BY <2>1, DispatchFinishes DEF Finishes
    <3> QED BY <1>0, <3>1 DEF Finish
  <2> QED BY <2>2
<1>4. CASE \E v \in Workers : Release(v) \/ Cancel(v)
  <2>1. PICK v \in Workers : Release(v) \/ Cancel(v)
    BY <1>4
  <2>2. CASE Release(v)
    <3>1. call[v].phase = "releasing" /\ Return(v)
      BY <2>2 DEF Release
    <3> QED BY <1>0, <3>1 DEF Return
  <2>3. CASE Cancel(v)
    <3>1. call' = [call EXCEPT ![v].cancelled = TRUE]
      BY <2>3 DEF Cancel
    <3>2. call'[w].phase = call[w].phase
      BY <1>0, <3>1
    <3> QED BY <3>2
  <2> QED BY <2>1, <2>2, <2>3
<1>5. CASE \E v \in Workers : Acquire(v)
  <2>1. PICK v \in Workers : Acquire(v)
    BY <1>5
  <2>2. v = w
    BY <1>0, <2>1 DEF Acquire, AcquireCancelled, AcquireNamed, AcquireMissing, AcquireIdle,
                      AcquireNew, AcquireWait, AcquireTimeout, Return, Hold
  <2>3. ~AcquireCancelled(w) /\ ~AcquireNamed(w) /\ ~AcquireMissing(w)
    BY <1>0 DEF AcquireCancelled, AcquireNamed, AcquireMissing
  <2>4. ASSUME NEW i \in Slots, NEW phase, Hold(w, i, phase) PROVE call'[w].phase = phase
    BY <1>0, <2>4 DEF Hold
  <2>5. ~AcquireIdle(w)
    BY <2>4 DEF AcquireIdle
  <2>6. ~AcquireNew(w)
    BY <2>4 DEF AcquireNew
  <2>7. ~AcquireWait(w)
    BY DEF AcquireWait
  <2> QED BY <2>1, <2>2, <2>3, <2>5, <2>6, <2>7 DEF Acquire
<1>6. CASE (\E scope \in Scopes : ScopeEnd(scope)) \/ UNCHANGED vars
  BY <1>6 DEF ScopeEnd, vars
<1>7. CASE Tick
  <2>1. call'[w] = [call[w] EXCEPT !.wait = Down(@)]
    BY <1>7 DEF Tick
  <2>2. call'[w].phase = call[w].phase
    BY <1>0, <2>1 DEF Call
  <2> QED BY <2>2
<1> QED BY <1>2, <1>3, <1>4, <1>5, <1>6, <1>7 DEF Next

(* DB_POOL_TIMEOUT is only answered when the pool has nothing to give: no    *)
(* reusable session of the data source, and no entry or budget for a new one.*)
THEOREM TimeoutsAreHonest == Spec => TimeoutOnlyWhenFull
<1> DEFINE Honest ==
      \A w \in Workers :
          /\ call[w].phase = "waiting" /\ call'[w].phase = "idle"
          /\ call[w].target \in Keys /\ ~call[w].cancelled
          => LET open == {i \in Slots : slot'[i].used /\ slot'[i].key = call[w].target}
             IN /\ \A i \in open : slot'[i].busy \/ slot'[i].handle # None
                /\ \/ Cardinality(open) >= MaxOpen
                   \/ \A i \in Slots : slot'[i].used
<1>1. ASSUME TypeOK, Ownership, [Next]_vars PROVE Honest
  <2> SUFFICES ASSUME NEW w \in Workers,
                      call[w].phase = "waiting", call'[w].phase = "idle",
                      call[w].target \in Keys, ~call[w].cancelled
               PROVE  LET open == {i \in Slots : slot'[i].used /\ slot'[i].key = call[w].target}
                      IN /\ \A i \in open : slot'[i].busy \/ slot'[i].handle # None
                         /\ Cardinality(open) >= MaxOpen \/ \A i \in Slots : slot'[i].used
    OBVIOUS
  <2>1. AcquireTimeout(w)
    BY <1>1, OnlyTimeout
  <2>2. Saturated(w) /\ Sweep(w)
    BY <2>1 DEF AcquireTimeout
  <2> QED BY <1>1, <2>2, NothingLeft
<1>2. TypeOK /\ Ownership /\ [Next]_vars => [Honest]_vars
  BY <1>1
<1>3. Spec => [][Honest]_vars
  BY <1>2, AlwaysOwned, PTL DEF Spec
<1>4. [][Honest]_vars => TimeoutOnlyWhenFull
  BY PTL DEF TimeoutOnlyWhenFull
<1> QED BY <1>3, <1>4, PTL
=============================================================================
