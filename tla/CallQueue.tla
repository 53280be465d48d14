------------------------------- MODULE CallQueue -------------------------------
(***************************************************************************)
(* What the process of the database extension promises for the calls of    *)
(* its host (docs/EXTENSION_PROTOCOL_V1.md, extensions/database/README.md: *)
(* eight active protocol workers, 64 queued calls): a call is accepted or  *)
(* refused at once, accepted calls are started in their order, each one is *)
(* answered exactly once, and the process does not go away owing an        *)
(* answer.                                                                 *)
(***************************************************************************)
EXTENDS Naturals, Sequences

CONSTANTS
    Ids,        \* request ids
    Capacity    \* calls that may wait

VARIABLES
    waiting,    \* accepted calls nobody has started, in their order
    running,    \* calls a worker has started
    answered,   \* calls that were answered
    gone        \* whether the process has exited

vars == <<waiting, running, answered, gone>>

Waiting == {waiting[k] : k \in 1..Len(waiting)}

New(id) == ~gone /\ id \notin Waiting \cup running \cup answered

Init ==
    /\ waiting = <<>>
    /\ running = {}
    /\ answered = {}
    /\ gone = FALSE

Accept(id) ==
    /\ New(id)
    /\ Len(waiting) < Capacity
    /\ waiting' = Append(waiting, id)
    /\ UNCHANGED <<running, answered, gone>>

Refuse(id) ==
    /\ New(id)
    /\ Len(waiting) = Capacity
    /\ answered' = answered \cup {id}
    /\ UNCHANGED <<waiting, running, gone>>

Start ==
    /\ waiting # <<>>
    /\ waiting' = Tail(waiting)
    /\ running' = running \cup {Head(waiting)}
    /\ UNCHANGED <<answered, gone>>

Answer(id) ==
    /\ id \in running
    /\ running' = running \ {id}
    /\ answered' = answered \cup {id}
    /\ UNCHANGED <<waiting, gone>>

Exit ==
    /\ ~gone
    /\ waiting = <<>> /\ running = {}
    /\ gone' = TRUE
    /\ UNCHANGED <<waiting, running, answered>>

Next ==
    \/ \E id \in Ids : Accept(id) \/ Refuse(id) \/ Answer(id)
    \/ Start
    \/ Exit

Spec == Init /\ [][Next]_vars
=============================================================================
