-------------------------- MODULE BorrowedPublish --------------------------
(***************************************************************************)
(* rclcpp_kit.borrowed_publish: the pool of serialization buffers that     *)
(* PreparedPublisher keeps for each thread.                                *)
(*                                                                         *)
(* The pool is thread-local: there is one thread here.  Python code that   *)
(* runs in the middle of a publish (a signal handler, a finalizer) may     *)
(* publish again, so publishes nest.  A buffer grows with the messages     *)
(* that are serialized into it and never shrinks.                          *)
(***************************************************************************)
EXTENDS Naturals, Sequences, FiniteSets, SequencesExt

CONSTANT MaxPublishes   \* bound: publishes begun

ASSUME PublishBound == MaxPublishes \in Nat

Scratches == 1 .. MaxPublishes
Evicted == 0

VARIABLES
    depth,       \* state["depth"]
    slots,       \* state["slots"], Evicted for None
    frames,      \* the publishes under way, the innermost last
    oversized,   \* buffers with more than the capacity to retain
    publishes,   \* publishes_ of a buffer
    pool_counts, \* the counters of the state
    handed_over    \* history: messages handed to rcl, and publishes begun

poolVars == <<depth, slots, frames, oversized, publishes, pool_counts, handed_over>>

BorrowedPublishInit ==
    /\ depth = 0 /\ slots = <<>> /\ frames = <<>>
    /\ oversized = {}
    /\ publishes = [s \in Scratches |-> 0]
    /\ pool_counts = [created |-> 0, reused |-> 0, evictions |-> 0, retired |-> 0]
    /\ handed_over = [begun |-> 0, sent |-> 0]

Innermost == Last(frames)

\* _acquire_scratch: the slot of this depth, filled if there is none in it.
AcquireScratch ==
    LET index == depth + 1
        fresh == index > Len(slots) \/ slots[index] = Evicted
        scratch == IF fresh THEN pool_counts.created + 1 ELSE slots[index]
    IN  /\ handed_over.begun < MaxPublishes
        /\ handed_over' = [handed_over EXCEPT !.begun = @ + 1]
        /\ slots' = IF index > Len(slots) THEN Append(slots, scratch)
                    ELSE [slots EXCEPT ![index] = scratch]
        /\ pool_counts' = IF fresh THEN [pool_counts EXCEPT !.created = @ + 1]
                          ELSE [pool_counts EXCEPT !.reused = @ + 1]
        /\ depth' = index
        /\ frames' = Append(frames, [index |-> index, scratch |-> scratch,
                                     over |-> FALSE, evict |-> FALSE])
        /\ UNCHANGED <<oversized, publishes>>

Finishes(evict) ==
    frames' = [frames EXCEPT ![Len(frames)].over = TRUE,
                             ![Len(frames)].evict = evict]
Serializes == oversized' \in {oversized, oversized \cup {Innermost.scratch}}

\* PublishScratch::publish.
PublishReturns ==
    /\ frames # <<>> /\ ~Innermost.over
    /\ Serializes
    /\ publishes' = [publishes EXCEPT ![Innermost.scratch] = @ + 1]
    /\ handed_over' = [handed_over EXCEPT !.sent = @ + 1]
    /\ Finishes(Innermost.scratch \in oversized')
    /\ UNCHANGED <<depth, slots, pool_counts>>

\* Faulty variant: a publish that fails does not look at the capacity.
PublishThrowsKeeps ==
    /\ frames # <<>> /\ ~Innermost.over
    /\ Serializes
    /\ Finishes(FALSE)
    /\ UNCHANGED <<depth, slots, publishes, pool_counts, handed_over>>

\* Serialization or rcl fails: the buffer may have grown all the same.
PublishThrows ==
    /\ frames # <<>> /\ ~Innermost.over
    /\ Serializes
    /\ Finishes(Innermost.scratch \in oversized')
    /\ UNCHANGED <<depth, slots, publishes, pool_counts, handed_over>>

\* _release_scratch, and _retire_scratch for a buffer that is too large.
ReleaseScratch ==
    /\ frames # <<>> /\ Innermost.over
    /\ IF Innermost.evict
       THEN /\ slots' = [slots EXCEPT ![Innermost.index] = Evicted]
            /\ pool_counts' = [pool_counts EXCEPT !.evictions = @ + 1,
                    !.retired = @ + publishes[Innermost.scratch]]
       ELSE UNCHANGED <<slots, pool_counts>>
    /\ depth' = depth - 1
    /\ frames' = Front(frames)
    /\ UNCHANGED <<oversized, publishes, handed_over>>

BorrowedPublishNext ==
    AcquireScratch \/ PublishReturns \/ PublishThrows \/ ReleaseScratch

BorrowedPublishSpec == BorrowedPublishInit /\ [][BorrowedPublishNext]_poolVars

-----------------------------------------------------------------------------
\* The publishes through some buffers, one by one.
Through(scratches) == UNION {{s} \X (1 .. publishes[s]) : s \in scratches}

\* However publishes nest and fail, each one under way has a buffer of its
\* own, the pool retains no idle buffer above the limit, and _scratch_stats
\* loses neither a buffer nor a publish to an eviction.
PoolBalances ==
    LET retained == ToSet(slots) \ {Evicted}
    IN  /\ depth = Len(frames)
        /\ \A i \in DOMAIN frames :
            frames[i].index = i /\ slots[i] = frames[i].scratch
        /\ \A i \in DOMAIN slots : i > depth => slots[i] \notin oversized
        /\ \A i, j \in DOMAIN slots :
            i # j /\ slots[i] = slots[j] => slots[i] = Evicted
        /\ pool_counts.created = Cardinality(retained) + pool_counts.evictions
        /\ handed_over.begun = pool_counts.created + pool_counts.reused
        /\ handed_over.sent = pool_counts.retired + Cardinality(Through(retained))
=============================================================================
