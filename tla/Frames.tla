--------------------------------- MODULE Frames ---------------------------------
(***************************************************************************)
(* Environments and the pool of call frames of one runtime (src/runtime.c:  *)
(* env_new, env_mark_escaped, call_frame_acquire, call_frame_recycle).  An  *)
(* environment is named by its place in the managed heap; the collector     *)
(* gives a place back when nothing that is live reaches it.                 *)
(***************************************************************************)
EXTENDS Integers, Sequences, FiniteSets, SequencesExt

CONSTANTS
    Places,         \* places of the heap that environments take
    LastBucket,     \* HHY_FRAME_POOL_BUCKETS - 1
    PoolCount,      \* HHY_FRAME_POOL_MAX_COUNT
    PoolBytes,      \* HHY_FRAME_POOL_MAX_BYTES
    Grown           \* the capacity env_define_n grows an environment to

Nil == 0            \* no environment

ASSUME FramesAssumption ==
    /\ Places \subseteq Nat \ {0} /\ IsFiniteSet(Places)
    /\ {LastBucket, PoolCount, PoolBytes, Grown} \subseteq Nat

VARIABLES
    heap,           \* place -> [parent, escaped, size]
    pool,           \* bucket -> the environments it holds, last recycled first
    bounded,        \* HHY_CALL_FRAME_POOL=bounded; else one list without limit
    retained        \* [count, bytes]: retained_frames, retained_frame_bytes

frameVars == <<heap, pool, bounded, retained>>

Buckets == 0 .. LastBucket

(* frame_bucket: floor(log2) of the capacity, the last bucket takes the rest.*)
BucketOf(capacity) ==
    IF bounded THEN Max({0} \cup {b \in 1 .. LastBucket : 2 ^ (b - 1) <= capacity}) ELSE 0

(* frame_gc_bytes: the collector's size of the environment and its bindings. *)
BytesOf(e) == 1 + heap[e].size

(* The least set with what is in S and the parent of what is in it, as far   *)
(* as either is in T.                                                        *)
Enclosed(C, T) == \A e \in C : heap[e].parent \in T => heap[e].parent \in C

Outwards(S, T) ==
    LET Closed == {C \in SUBSET T : S \cap T \subseteq C /\ Enclosed(C, T)}
    IN  {e \in T : \A C \in Closed : e \in C}

(* Everything a set of environments reaches.                                 *)
Reached(S) == Outwards(S, Places)

(* Where the pool holds an environment.                                      *)
Spots == UNION {{b} \X DOMAIN pool[b] : b \in Buckets}

InSpot(f) == pool[f[1]][f[2]]

Pooled == {InSpot(f) : f \in Spots}

FramesInit ==
    /\ heap = [e \in Places |-> [parent |-> Nil, escaped |-> FALSE, size |-> 0]]
    /\ pool = [b \in Buckets |-> <<>>]
    /\ retained = [count |-> 0, bytes |-> 0]

NewEnv(parent, capacity) == [parent |-> parent, escaped |-> FALSE, size |-> capacity]

(* An escape that does not reach the enclosing scopes.                      *)
EscapedFromMutant(e) == {e}

(* env_mark_escaped: from e outwards, up to the first that already has it.   *)
EscapedFrom(e) == Outwards({e}, {p \in Places : ~heap[p].escaped})

MarkEscaped(e) ==
    LET newly == EscapedFrom(e)
    IN  heap' = [p \in Places |->
                    IF p \in newly THEN [heap[p] EXCEPT !.escaped = TRUE] ELSE heap[p]]

(* call_frame_acquire looks through the bucket of this capacity, then the     *)
(* larger ones, for the first environment that is large enough.              *)
Fits(capacity) ==
    {f \in Spots : f[1] >= BucketOf(capacity) /\ heap[InSpot(f)].size >= capacity}

FirstFit(capacity) ==
    CHOOSE f \in Fits(capacity) :
        \A g \in Fits(capacity) : f[1] < g[1] \/ (f[1] = g[1] /\ f[2] <= g[2])

(* A frame from the pool forgets whose it was.                               *)
AcquireOld(e, parent, fit) ==
    /\ e = InSpot(fit)
    /\ pool' = [pool EXCEPT ![fit[1]] = RemoveAt(@, fit[2])]
    /\ retained' = IF bounded THEN [count |-> retained.count - 1, bytes |-> retained.bytes - BytesOf(e)]
                              ELSE retained
    /\ heap' = [heap EXCEPT ![e] = NewEnv(parent, @.size)]

(* env_new_with_capacity: rt_alloc gives a place that nothing holds.         *)
AcquireNew(e, parent, capacity) ==
    /\ heap' = [heap EXCEPT ![e] = NewEnv(parent, capacity)]
    /\ UNCHANGED <<pool, retained>>

Acquire(e, free, parent, capacity) ==
    IF Fits(capacity) # {} THEN AcquireOld(e, parent, FirstFit(capacity))
    ELSE e = free /\ AcquireNew(e, parent, capacity)

(* call_frame_recycle on the environment of a call that ends, and then on the *)
(* deferred one of the same call.  Nil is none.  What escaped                *)
(* stays with those who hold it; a full pool lets the frame go.              *)
Keeps(r, e) ==
    /\ ~r.heap[e].escaped
    /\ bounded => r.retained.count < PoolCount /\ r.retained.bytes + BytesOf(e) <= PoolBytes

Recycled(r, e) ==
    IF ~Keeps(r, e) THEN r
    ELSE [heap |-> [r.heap EXCEPT ![e].parent = Nil],
          pool |-> [r.pool EXCEPT ![BucketOf(heap[e].size)] = <<e>> \o @],
          retained |-> IF bounded THEN [count |-> r.retained.count + 1,
                                        bytes |-> r.retained.bytes + BytesOf(e)]
                                  ELSE r.retained]

Recycle(e, then) ==
    LET was == [heap |-> heap, pool |-> pool, retained |-> retained]
        one == IF e = Nil THEN was ELSE Recycled(was, e)
        both == IF then = Nil THEN one ELSE Recycled(one, then)
    IN heap' = both.heap /\ pool' = both.pool /\ retained' = both.retained

(* env_define_n moves the bindings of a full environment to a larger array.  *)
Grow(e) ==
    /\ heap[e].size < Grown
    /\ heap' = [heap EXCEPT ![e].size = Grown]
    /\ UNCHANGED <<pool, retained>>

FramesType ==
    /\ heap \in [Places -> [parent : Places \cup {Nil}, escaped : BOOLEAN, size : Nat]]
    /\ DOMAIN pool = Buckets /\ \A b \in Buckets : pool[b] \in Seq(Places)
    /\ retained \in [count : Nat, bytes : Nat]

(* A bounded pool keeps no more than its limits, and its two counters say     *)
(* what is in it (the counters gate every later call_frame_recycle).  The    *)
(* bytes of an environment are counted as so many pairs.                     *)
PoolAgrees ==
    bounded =>
        /\ retained.count = Cardinality(Spots)
        /\ retained.bytes = Cardinality(UNION {{e} \X (1 .. BytesOf(e)) : e \in Pooled})
        /\ retained.count <= PoolCount /\ retained.bytes <= PoolBytes
=============================================================================
