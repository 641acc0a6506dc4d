------------------------ MODULE FusedPipeline_proofs ------------------------
(***************************************************************************)
(* Proofs about FusedPipeline for any capacity, batch size, number of      *)
(* messages and choice of policies: what a close leaves, the balance of    *)
(* the counters, the order of the messages and the refinement of           *)
(* Settlement.                                                             *)
(***************************************************************************)
EXTENDS FusedPipeline, SequenceTheorems, TLAPS

\* Where a thread stands says whether it has messages to process.
WorkShape ==
    /\ pc["callback"] \in {"idle", "gate", "notify"} => work["callback"] = <<>>
    /\ pc["callback"] \in {"admitted", "transform", "publish"}
         => Len(work["callback"]) = 1
    /\ pc["callback"] # "idle" => arrived \in Messages
    /\ pc["worker"] \in {"transform", "publish"} <=> work["worker"] # <<>>

\* The policy fixes which thread processes messages: without a worker the
\* callback does, and nothing is ever queued.
PolicyShape ==
    /\ policy = "every" <=> pc["worker"] = "absent"
    /\ policy = "every" => queue = <<>>
    /\ pc["callback"] \in {"transform", "publish"} => policy = "every"
    /\ pc["callback"] \in {"admitted", "notify"} => policy # "every"

\* How far close() has gone, and what a joined executor means for it.
CloseProgress ==
    /\ stopping <=> closer # "open"
    /\ pc["worker"] = "exited" => stopping
    /\ closer \in {"release", "closed"} => pc["worker"] \in {"absent", "exited"}
    /\ executor = "joined" => pc["callback"] = "idle"
    /\ quiet => executor = "joined" /\ stopping
    /\ quiet /\ pc["worker"] = "exited" => queue = <<>>

IInv == TypeOK /\ WorkShape /\ PolicyShape /\ CloseProgress

-----------------------------------------------------------------------------
(* Sequences.                                                              *)

LEMMA TakePart ==
    ASSUME NEW S, NEW s \in Seq(S), s # <<>>,
           NEW k \in 1 .. Len(s)
    PROVE  /\ SubSeq(s, 1, k) \in Seq(S) /\ Len(SubSeq(s, 1, k)) = k
           /\ SubSeq(s, 1, k) # <<>>
           /\ SubSeq(s, k + 1, Len(s)) \in Seq(S)
           /\ Len(SubSeq(s, k + 1, Len(s))) = Len(s) - k
OBVIOUS

LEMMA DropFirst ==
    ASSUME NEW S, NEW s \in Seq(S), s # <<>>
    PROVE  /\ Tail(s) \in Seq(S) /\ Head(s) \in S
           /\ Len(s) \in Nat \ {0} /\ Len(Tail(s)) = Len(s) - 1
           /\ Tail(s) = <<>> <=> Len(s) = 1
<1>1. /\ Tail(s) \in Seq(S) /\ Head(s) \in S
      /\ Len(s) \in Nat \ {0} /\ Len(Tail(s)) = Len(s) - 1
  BY HeadTailProperties, EmptySeq
<1>2. Tail(s) = <<>> <=> Len(Tail(s)) = 0
  BY <1>1, EmptySeq
<1> QED
  BY <1>1, <1>2

\* A batch takes at least one message of a queue that is not empty.
LEMMA TakeSizeBounds ==
    ASSUME TypeOK, queue # <<>> PROVE TakeSize \in 1 .. Len(queue)
<1>1. Len(queue) \in Nat \ {0}
  BY EmptySeq DEF TypeOK
<1> QED
  BY <1>1, SizeAssumption DEF TakeSize

\* Counting keeps the counters natural numbers.
LEMMA CountType ==
    ASSUME TypeOK, NEW c \in Counters
    PROVE  Count(c) \in [Counters -> Nat]
BY DEF Count, TypeOK

-----------------------------------------------------------------------------
LEMMA InitIInv == Init => IInv
<1> SUFFICES ASSUME Init PROVE IInv
  OBVIOUS
<1>1. /\ pc \in [Threads -> CallbackPC \union WorkerPC]
      /\ pc["callback"] = "idle"
      /\ pc["worker"] = IF policy = "every" THEN "absent" ELSE "check"
  BY DEF Init, Threads, CallbackPC, WorkerPC
<1>2. TypeOK
  <2>1. queue \in Seq(Messages) /\ work \in [Threads -> Seq(Messages)]
    BY EmptySeq DEF Init
  <2>2. Len(queue) = 0
    BY DEF Init
  <2>3. Len(queue) <= IF policy = "batch" THEN QueueCapacity ELSE 1
    BY <2>2, SizeAssumption
  <2>4. /\ policy \in Policies /\ executor \in {"running", "joined"}
        /\ arrived \in 0 .. MaxMessages
        /\ stats \in [Counters -> Nat] /\ outcome \in [Messages -> Outcomes]
    BY SizeAssumption DEF Init, Outcomes
  <2> QED
    BY <1>1, <2>1, <2>3, <2>4 DEF Init, TypeOK, CallbackPC, WorkerPC, CloserPC
<1>3. WorkShape /\ PolicyShape /\ CloseProgress
  BY <1>1 DEF Init, WorkShape, PolicyShape, CloseProgress, Threads
<1> QED
  BY <1>2, <1>3 DEF IInv

-----------------------------------------------------------------------------
(* The callback's steps.                                                   *)

LEMMA DeliverStep == IInv /\ Deliver => IInv'
<1> SUFFICES ASSUME IInv, Deliver PROVE IInv'
  OBVIOUS
<1> USE DEF IInv
<1>1. TypeOK'
  BY SizeAssumption DEF Deliver, TypeOK, Threads, CallbackPC
<1>2. WorkShape' /\ PolicyShape' /\ CloseProgress'
  BY SizeAssumption DEF Deliver, TypeOK, Threads, WorkShape, PolicyShape,
     CloseProgress, Messages
<1> QED
  BY <1>1, <1>2

\* The callback's lock, and the steps around it.
LEMMA GateStep == IInv /\ Gate => IInv'
<1> SUFFICES ASSUME IInv, Gate PROVE IInv'
  OBVIOUS
<1> USE DEF IInv
<1>1. /\ <<arrived>> \in Seq(Messages) /\ Len(<<arrived>>) = 1
      /\ "received" \in Counters
  BY DEF Gate, WorkShape, Counters
<1>2. TypeOK'
  <2>1. pc' \in [Threads -> CallbackPC \union WorkerPC]
    BY DEF Gate, TypeOK, CallbackPC
  <2>2. pc["callback"]' \in CallbackPC /\ pc["worker"]' \in WorkerPC
    BY DEF Gate, TypeOK, CallbackPC, Threads
  <2>3. work' \in [Threads -> Seq(Messages)]
    BY <1>1 DEF Gate, TypeOK
  <2>4. stats' \in [Counters -> Nat]
    BY <1>1, CountType DEF Gate, TypeOK
  <2> QED
    BY <2>1, <2>2, <2>3, <2>4 DEF Gate, TypeOK
<1>3. WorkShape' /\ PolicyShape' /\ CloseProgress'
  BY <1>1 DEF Gate, TypeOK, Threads, WorkShape, PolicyShape, CloseProgress
<1> QED
  BY <1>2, <1>3

LEMMA StoreLatestStep == IInv /\ StoreLatest => IInv'
<1> SUFFICES ASSUME IInv, StoreLatest PROVE IInv'
  OBVIOUS
<1> USE DEF IInv
<1>1. /\ queue # <<>> => Head(queue) \in Messages
      /\ <<>> \in Seq(Messages) /\ "coalesced" \in Counters \cap Outcomes
  BY EmptySeq, HeadTailProperties DEF TypeOK, Counters, Outcomes
<1>2. TypeOK'
  <2>1. /\ pc' \in [Threads -> CallbackPC \union WorkerPC]
        /\ pc["callback"]' \in CallbackPC /\ pc["worker"]' \in WorkerPC
    BY DEF StoreLatest, TypeOK, CallbackPC, Threads
  <2>2. /\ work' \in [Threads -> Seq(Messages)]
        /\ queue' \in Seq(Messages) /\ Len(queue') = 1
    BY <1>1 DEF StoreLatest, TypeOK, WorkShape, Threads
  <2>3. stats' \in [Counters -> Nat] /\ outcome' \in [Messages -> Outcomes]
    BY <1>1, CountType DEF StoreLatest, TypeOK
  <2>4. Len(queue') <= IF policy = "batch" THEN QueueCapacity ELSE 1
    BY <2>2, SizeAssumption
  <2> QED
    BY <2>1, <2>2, <2>3, <2>4 DEF StoreLatest, TypeOK
<1>3. WorkShape' /\ PolicyShape' /\ CloseProgress'
  BY DEF StoreLatest, TypeOK, Threads, WorkShape, PolicyShape, CloseProgress
<1> QED
  BY <1>2, <1>3

LEMMA StoreBatchStep == IInv /\ StoreBatch => IInv'
<1> SUFFICES ASSUME IInv, StoreBatch PROVE IInv'
  OBVIOUS
<1> USE DEF IInv
<1>1. /\ Head(work["callback"]) \in Messages
      /\ <<>> \in Seq(Messages) /\ "dropped" \in Counters \cap Outcomes
      /\ work["callback"] \in Seq(Messages) /\ Len(work["callback"]) = 1
  BY EmptySeq, HeadTailProperties
     DEF StoreBatch, WorkShape, TypeOK, Counters, Outcomes, Threads
<1>2. /\ queue \o work["callback"] \in Seq(Messages)
      /\ Len(queue \o work["callback"]) = Len(queue) + 1
      /\ Len(queue) \in Nat
  <2>1. queue \in Seq(Messages)
    BY DEF TypeOK
  <2>2. queue \o work["callback"] \in Seq(Messages)
    BY <1>1, <2>1, ConcatProperties
  <2>3. Len(queue \o work["callback"]) = Len(queue) + Len(work["callback"])
    BY <1>1, <2>1, ConcatProperties
  <2>4. Len(queue) \in Nat
    BY <2>1, LenProperties
  <2> QED
    BY <1>1, <2>2, <2>3, <2>4
<1>3. TypeOK'
  <2>1. /\ pc' \in [Threads -> CallbackPC \union WorkerPC]
        /\ pc["callback"]' \in CallbackPC /\ pc["worker"]' \in WorkerPC
    BY DEF StoreBatch, TypeOK, CallbackPC, Threads
  <2>2. work' \in [Threads -> Seq(Messages)]
    BY <1>1 DEF StoreBatch, TypeOK
  <2>3. stats' \in [Counters -> Nat] /\ outcome' \in [Messages -> Outcomes]
    BY <1>1, CountType DEF StoreBatch, TypeOK
  <2>4. /\ queue' \in Seq(Messages)
        /\ Len(queue') <= IF policy = "batch" THEN QueueCapacity ELSE 1
    <3>1. CASE Len(queue) >= QueueCapacity
      BY <3>1 DEF StoreBatch, TypeOK
    <3>2. CASE ~(Len(queue) >= QueueCapacity)
      <4>1. queue' = queue \o work["callback"] /\ policy = "batch"
        BY <3>2 DEF StoreBatch
      <4>2. Len(queue) + 1 <= QueueCapacity
        BY <1>2, <3>2, SizeAssumption
      <4> QED
        BY <1>2, <4>1, <4>2
    <3> QED
      BY <3>1, <3>2
  <2> QED
    BY <2>1, <2>2, <2>3, <2>4 DEF StoreBatch, TypeOK
<1>4. WorkShape' /\ PolicyShape' /\ CloseProgress'
  BY DEF StoreBatch, TypeOK, Threads, WorkShape, PolicyShape, CloseProgress
<1> QED
  BY <1>3, <1>4

LEMMA NotifyOneStep == IInv /\ NotifyOne => IInv'
<1> SUFFICES ASSUME IInv, NotifyOne PROVE IInv'
  OBVIOUS
<1> USE DEF IInv
<1>1. TypeOK'
  BY DEF NotifyOne, Woken, TypeOK, Threads, CallbackPC, WorkerPC
<1>2. WorkShape' /\ PolicyShape' /\ CloseProgress'
  BY DEF NotifyOne, Woken, TypeOK, Threads, WorkShape, PolicyShape, CloseProgress
<1> QED
  BY <1>1, <1>2

-----------------------------------------------------------------------------
(* process_one.                                                            *)

\* A thread that processes a message has one.
LEMMA HasWork ==
    ASSUME IInv, NEW t \in Threads, pc[t] \in {"transform", "publish"}
    PROVE  /\ work[t] \in Seq(Messages) /\ work[t] # <<>>
           /\ Head(work[t]) \in Messages
           /\ Tail(work[t]) \in Seq(Messages)
           /\ Len(work[t]) \in Nat \ {0} /\ Len(Tail(work[t])) = Len(work[t]) - 1
           /\ Tail(work[t]) = <<>> <=> Len(work[t]) = 1
<1>1. work[t] \in Seq(Messages)
  BY DEF IInv, TypeOK
<1>2. work[t] # <<>>
  <2>1. CASE t = "callback"
    <3>1. Len(work[t]) = 1
      BY <2>1 DEF IInv, WorkShape
    <3> QED
      BY <1>1, <3>1, EmptySeq
  <2>2. CASE t = "worker"
    BY <2>2 DEF IInv, WorkShape
  <2> QED
    BY <2>1, <2>2 DEF Threads
<1>3. Head(work[t]) \in Messages /\ Tail(work[t]) \in Seq(Messages)
  BY <1>1, <1>2, DropFirst
<1>4. Len(work[t]) \in Nat \ {0} /\ Len(Tail(work[t])) = Len(work[t]) - 1
  BY <1>1, <1>2, DropFirst
<1>5. Tail(work[t]) = <<>> <=> Len(work[t]) = 1
  BY <1>1, <1>2, DropFirst
<1> QED
  BY <1>1, <1>2, <1>3, <1>4, <1>5

\* Going on with the next message keeps the shape.
LEMMA NextItemKeepsShape ==
    ASSUME IInv, NEW t \in Threads, pc[t] \in {"transform", "publish"},
           NextItem(t),
           UNCHANGED <<policy, executor, arrived, queue, stopping, subscribed,
                       publishes, closer, quiet>>,
           stats' \in [Counters -> Nat], outcome' \in [Messages -> Outcomes]
    PROVE  IInv'
<1> USE DEF IInv
<1>1. /\ Tail(work[t]) \in Seq(Messages)
      /\ Tail(work[t]) = <<>> <=> Len(work[t]) = 1
      /\ Len(work[t]) \in Nat \ {0}
  BY HasWork
<1>2. TypeOK'
  BY <1>1 DEF NextItem, TypeOK, Threads, CallbackPC, WorkerPC
<1>3. WorkShape'
  <2>1. CASE t = "callback"
    BY <1>1, <2>1 DEF NextItem, TypeOK, Threads, WorkShape
  <2>2. CASE t = "worker"
    BY <1>1, <2>2 DEF NextItem, TypeOK, Threads, WorkShape
  <2> QED
    BY <2>1, <2>2 DEF Threads
<1>4. PolicyShape' /\ CloseProgress'
  <2>1. CASE t = "callback"
    BY <1>1, <2>1 DEF NextItem, TypeOK, Threads, WorkShape, PolicyShape, CloseProgress
  <2>2. CASE t = "worker"
    BY <1>1, <2>2 DEF NextItem, TypeOK, Threads, PolicyShape, CloseProgress
  <2> QED
    BY <2>1, <2>2 DEF Threads
<1> QED
  BY <1>2, <1>3, <1>4

LEMMA ProcessOneStep ==
    ASSUME IInv, NEW t \in Threads, ProcessOne(t) PROVE IInv'
<1> USE DEF IInv
<1>1. {"processed", "dropped", "exceptions", "published"} \subseteq Counters
  BY DEF Counters
<1>2. {"dropped", "failed", "published"} \subseteq Outcomes
  BY DEF Outcomes
<1>3. CASE TransformPublishes(t)
  <2>1. TypeOK'
    BY <1>1, <1>3 DEF TransformPublishes, TypeOK, Count, Threads, CallbackPC, WorkerPC
  <2>2. WorkShape' /\ PolicyShape' /\ CloseProgress'
    BY <1>3 DEF TransformPublishes, TypeOK, Threads, WorkShape, PolicyShape,
       CloseProgress
  <2> QED
    BY <2>1, <2>2
<1>4. CASE TransformThrows(t) \/ TransformSuppresses(t) \/ Publish(t)
  <2>1. stats' \in [Counters -> Nat]
    <3>1. [stats EXCEPT !["processed"] = @ + 1, !["dropped"] = @ + 1]
            \in [Counters -> Nat]
      <4>1. stats \in [Counters -> Nat] /\ "processed" \in Counters /\ "dropped" \in Counters
        BY <1>1 DEF TypeOK
      <4> QED
        BY <4>1
    <3>2. CASE TransformSuppresses(t)
      BY <3>1, <3>2 DEF TransformSuppresses
    <3>3. CASE TransformThrows(t) \/ Publish(t)
      <4>1. PICK c \in Counters : stats' = Count(c)
        BY <1>1, <3>3 DEF TransformThrows, Publish
      <4> QED
        BY <4>1, CountType
    <3> QED
      BY <1>4, <3>2, <3>3
  <2>2. pc[t] \in {"transform", "publish"}
    BY <1>4 DEF TransformThrows, TransformSuppresses, Publish
  <2>3. outcome' \in [Messages -> Outcomes]
    BY <1>2, <1>4, <2>2, HasWork
       DEF TransformThrows, TransformSuppresses, Publish, TypeOK
  <2> QED
    BY <1>4, <2>1, <2>2, <2>3, NextItemKeepsShape
       DEF TransformThrows, TransformSuppresses, Publish
<1> QED
  BY <1>3, <1>4 DEF ProcessOne

-----------------------------------------------------------------------------
(* The worker's loop and close().                                          *)

LEMMA WorkerStep == IInv /\ (WorkerLoop \/ SpuriousWake) => IInv'
<1> SUFFICES ASSUME IInv, WorkerLoop \/ SpuriousWake PROVE IInv'
  OBVIOUS
<1> USE DEF IInv
<1>1. CASE CheckBlocks \/ Block \/ SpuriousWake \/ WorkerExit
  <2>1. TypeOK'
    BY <1>1 DEF CheckBlocks, Block, SpuriousWake, WorkerExit, TypeOK, Threads,
       CallbackPC, WorkerPC
  <2>2. WorkShape' /\ PolicyShape' /\ CloseProgress'
    BY <1>1 DEF CheckBlocks, Block, SpuriousWake, WorkerExit, TypeOK, Threads,
       WorkShape, PolicyShape, CloseProgress
  <2> QED
    BY <2>1, <2>2
<1>2. CASE Take
  <2>1. queue \in Seq(Messages) /\ queue # <<>> /\ TakeSize \in 1 .. Len(queue)
    BY <1>2, TakeSizeBounds DEF Take, TypeOK
  <2>2. /\ work["worker"]' \in Seq(Messages) /\ work["worker"]' # <<>>
        /\ work["callback"]' = work["callback"]
        /\ work' \in [Threads -> Seq(Messages)]
        /\ queue' \in Seq(Messages) /\ Len(queue') = Len(queue) - TakeSize
    BY <1>2, <2>1, TakePart DEF Take, TypeOK, Threads
  <2>3. Len(queue') <= IF policy = "batch" THEN QueueCapacity ELSE 1
    BY <2>1, <2>2, SizeAssumption DEF TypeOK
  <2>4. TypeOK'
    BY <1>2, <2>2, <2>3 DEF Take, TypeOK, Threads, CallbackPC, WorkerPC
  <2>5. WorkShape' /\ PolicyShape' /\ CloseProgress'
    BY <1>2, <2>2 DEF Take, TypeOK, Threads, WorkShape, PolicyShape, CloseProgress
  <2> QED
    BY <2>4, <2>5
<1> QED
  BY <1>1, <1>2 DEF WorkerLoop

LEMMA CloseStepKeeps == IInv /\ (CloseBegin \/ CloseStep \/ JoinExecutor) => IInv'
<1> SUFFICES ASSUME IInv, CloseBegin \/ CloseStep \/ JoinExecutor PROVE IInv'
  OBVIOUS
<1> USE DEF IInv
<1>1. TypeOK'
  BY DEF CloseBegin, CloseStep, CloseUnsubscribe, CloseNotify, CloseJoin,
     CloseRelease, JoinExecutor, Woken, TypeOK, Threads, CallbackPC, WorkerPC,
     CloserPC
<1>2. WorkShape' /\ PolicyShape'
  BY DEF CloseBegin, CloseStep, CloseUnsubscribe, CloseNotify, CloseJoin,
     CloseRelease, JoinExecutor, Woken, TypeOK, Threads, WorkShape, PolicyShape
<1>3. CloseProgress'
  BY DEF CloseBegin, CloseStep, CloseUnsubscribe, CloseNotify, CloseJoin,
     CloseRelease, JoinExecutor, Woken, TypeOK, Threads, CloserPC, CloseProgress
<1> QED
  BY <1>1, <1>2, <1>3

LEMMA StepIInv == IInv /\ [Next]_vars => IInv'
<1> SUFFICES ASSUME IInv, [Next]_vars PROVE IInv'
  OBVIOUS
<1>1. CASE UNCHANGED vars
  BY <1>1 DEF vars, IInv, TypeOK, WorkShape, PolicyShape, CloseProgress
<1>2. CASE Next
  BY <1>2, DeliverStep, GateStep, StoreLatestStep, StoreBatchStep, NotifyOneStep,
     ProcessOneStep, WorkerStep, CloseStepKeeps DEF Next, Callback
<1> QED
  BY <1>1, <1>2

LEMMA InductiveInvariant == Spec => []IInv
BY InitIInv, StepIInv, PTL DEF Spec

-----------------------------------------------------------------------------
(* What follows from the inductive invariant.                              *)

\* The type invariant of the pipeline object.
THEOREM TypeCorrect == Spec => []TypeOK
BY InductiveInvariant, PTL DEF IInv

\* After a close that followed the executor's join, nothing is left inside
\* the pipeline and no thread can still reach publish().
THEOREM CloseDrains == Spec => []ClosedIsDrained
<1>1. IInv => ClosedIsDrained
  <2> SUFFICES ASSUME IInv, closer \in {"release", "closed"}, quiet
               PROVE  Held = 0 /\ pc["callback"] = "idle"
    BY DEF ClosedIsDrained
  <2>1. pc["callback"] = "idle" /\ pc["worker"] \in {"absent", "exited"}
    BY DEF IInv, CloseProgress
  <2>2. queue = <<>> /\ work["callback"] = <<>> /\ work["worker"] = <<>>
    BY <2>1 DEF IInv, CloseProgress, WorkShape, PolicyShape
  <2> QED
    BY <2>1, <2>2 DEF Held
<1> QED
  BY <1>1, InductiveInvariant, PTL

\* Such a closed pipeline is inert: none of its counters or messages moves.
THEOREM ClosedIsInert == Spec => InertAfterClose
<1>1. IInv /\ [Next]_vars
        => [closer = "closed" /\ quiet => UNCHANGED <<stats, queue, work, pc>>]_vars
  <2> SUFFICES ASSUME IInv, Next, closer = "closed", quiet
               PROVE  UNCHANGED <<stats, queue, work, pc>>
    BY DEF vars
  <2>1. /\ executor = "joined" /\ pc["callback"] = "idle"
        /\ pc["worker"] \in {"absent", "exited"}
    BY DEF IInv, CloseProgress
  <2>2. ~Deliver /\ ~Callback /\ ~WorkerLoop /\ ~SpuriousWake
    BY <2>1 DEF Deliver, Callback, Gate, StoreLatest, StoreBatch, NotifyOne,
       WorkerLoop, CheckBlocks, Block, Take, WorkerExit, SpuriousWake
  <2>3. \A t \in Threads : ~ProcessOne(t)
    BY <2>1 DEF ProcessOne, TransformThrows, TransformPublishes,
       TransformSuppresses, Publish, Threads
  <2>4. ~CloseBegin /\ ~CloseStep
    BY DEF CloseBegin, CloseStep, CloseUnsubscribe, CloseNotify, CloseJoin,
       CloseRelease
  <2>5. JoinExecutor
    BY <2>2, <2>3, <2>4 DEF Next
  <2> QED
    BY <2>5 DEF JoinExecutor
<1> QED
  BY <1>1, InductiveInvariant, PTL DEF Spec, InertAfterClose

-----------------------------------------------------------------------------
(* The books: no message is lost or counted twice between the counters and *)
(* the three places a message can be.                                      *)

LEMMA HeldType == TypeOK => Held \in Nat
BY DEF TypeOK, Held, Threads

LEMMA StatsType == TypeOK => \A c \in Counters : stats[c] \in Nat
BY DEF TypeOK

LEMMA CounterNames ==
    {"received", "processed", "published", "dropped", "coalesced", "exceptions"}
      \subseteq Counters
BY DEF Counters

\* Counting one thing changes no other counter.
LEMMA Counted ==
    ASSUME TypeOK, NEW c \in Counters, stats' = Count(c)
    PROVE  /\ stats'[c] = stats[c] + 1
           /\ \A d \in Counters \ {c} : stats'[d] = stats[d]
BY DEF Count, TypeOK

\* One message of a thread's work is settled by one of three counters.
LEMMA NextItemAccounted ==
    ASSUME IInv, IInv', Accounted, NEW t \in Threads, pc[t] \in {"transform", "publish"},
           NextItem(t), UNCHANGED queue,
           NEW c \in {"published", "dropped", "exceptions"},
           stats'[c] = stats[c] + 1,
           \A d \in Counters \ {c, "processed"} : stats'[d] = stats[d]
    PROVE  Accounted'
<1> USE DEF IInv
<1>1. Len(work[t]') = Len(work[t]) - 1
  BY HasWork DEF NextItem, TypeOK
<1>2. \A u \in Threads \ {t} : work[u]' = work[u]
  BY DEF NextItem, TypeOK
<1>3. Held' = Held - 1
  <2>1. CASE t = "callback"
    <3>1. Len(work["callback"]') = Len(work["callback"]) - 1
      BY <1>1, <2>1
    <3>2. work["worker"]' = work["worker"]
      BY <1>2, <2>1 DEF Threads
    <3> QED
      BY <3>1, <3>2 DEF Held, TypeOK, Threads
  <2>2. CASE t = "worker"
    <3>1. Len(work["worker"]') = Len(work["worker"]) - 1
      BY <1>1, <2>2
    <3>2. work["callback"]' = work["callback"]
      BY <1>2, <2>2 DEF Threads
    <3> QED
      BY <3>1, <3>2 DEF Held, TypeOK, Threads
  <2> QED
    BY <2>1, <2>2 DEF Threads
<1>4. Held \in Nat
  BY HeldType
<1> QED
  BY <1>3, <1>4, StatsType, HeldType, CounterNames DEF Accounted

LEMMA CallbackAccounted == IInv /\ IInv' /\ Accounted /\ Callback => Accounted'
<1> SUFFICES ASSUME IInv, IInv', Accounted, Callback PROVE Accounted'
  OBVIOUS
<1> USE DEF IInv
<1>1. CASE Gate
  <2>1. CASE stopping
    BY <1>1, <2>1 DEF Gate, Accounted, Held
  <2>2. CASE ~stopping
    <3>1. /\ Len(work["callback"]') = Len(work["callback"]) + 1
          /\ work["worker"]' = work["worker"] /\ queue' = queue
      <4>1. /\ work["callback"] = <<>> /\ work["callback"]' = <<arrived>>
            /\ work["worker"]' = work["worker"] /\ queue' = queue
        BY <1>1, <2>2 DEF Gate, WorkShape, TypeOK, Threads
      <4> QED
        BY <4>1
    <3>2. Held' = Held + 1
      BY <3>1 DEF Held, TypeOK, Threads
    <3>3. stats' = Count("received")
      BY <1>1, <2>2 DEF Gate
    <3>4. Held \in Nat
      BY HeldType
    <3> QED
      BY <3>2, <3>3, <3>4, Counted, CounterNames, StatsType, HeldType DEF Accounted
  <2> QED
    BY <2>1, <2>2
<1>2. CASE StoreLatest
  <2>1. /\ Len(work["callback"]) = 1 /\ work["callback"]' = <<>>
        /\ work["worker"]' = work["worker"]
        /\ queue' = work["callback"]
        /\ Len(queue) <= 1
    BY <1>2 DEF StoreLatest, WorkShape, TypeOK, Threads
  <2>2. Len(work["callback"]') = Len(work["callback"]) - 1
    BY <2>1
  <2>3. CASE queue = <<>>
    <3>1. Len(queue') = Len(queue) + 1
      BY <2>1, <2>3
    <3>2. work["worker"]' = work["worker"]
      BY <2>1
    <3>3. Held' = Held
      BY <2>2, <3>1, <3>2 DEF Held, TypeOK, Threads
    <3> QED
      BY <1>2, <2>3, <3>3 DEF StoreLatest, Accounted
  <2>4. CASE queue # <<>>
    <3>1. Len(queue') = Len(queue)
      <4>1. Len(queue) \in Nat \ {0}
        <5>1. queue \in Seq(Messages)
          BY DEF TypeOK
        <5> QED
          BY <2>4, <5>1, EmptySeq
      <4>2. Len(queue) = 1
        <5>1. Len(queue) <= 1
          BY <2>1
        <5> QED
          BY <4>1, <5>1
      <4>3. Len(queue') = 1
        BY <2>1
      <4> QED
        BY <4>2, <4>3
    <3>2. work["worker"]' = work["worker"]
      BY <2>1
    <3>4. Held' = Held - 1
      BY <2>2, <3>1, <3>2 DEF Held, TypeOK, Threads
    <3>3. stats' = Count("coalesced")
      BY <1>2, <2>4 DEF StoreLatest
    <3> QED
      BY <3>3, <3>4, Counted, CounterNames, StatsType, HeldType DEF Accounted
  <2> QED
    BY <2>3, <2>4
<1>3. CASE StoreBatch
  <2>1. /\ Len(work["callback"]) = 1 /\ work["callback"]' = <<>>
        /\ work["worker"]' = work["worker"]
        /\ work["callback"] \in Seq(Messages) /\ queue \in Seq(Messages)
    BY <1>3 DEF StoreBatch, WorkShape, TypeOK, Threads
  <2>2. Len(work["callback"]') = Len(work["callback"]) - 1
    BY <2>1
  <2>3. work["worker"]' = work["worker"]
    BY <2>1
  <2>4. CASE Len(queue) >= QueueCapacity
    <3>1. stats' = Count("dropped") /\ queue' = queue
      BY <1>3, <2>4 DEF StoreBatch
    <3>2. Held' = Held - 1
      BY <2>2, <2>3, <3>1 DEF Held, TypeOK, Threads
    <3> QED
      BY <3>1, <3>2, Counted, CounterNames, StatsType, HeldType DEF Accounted
  <2>5. CASE ~(Len(queue) >= QueueCapacity)
    <3>1. stats' = stats /\ queue' = queue \o work["callback"]
      BY <1>3, <2>5 DEF StoreBatch
    <3>2. Len(queue \o work["callback"]) = Len(queue) + Len(work["callback"])
      BY <2>1, ConcatProperties
    <3>3. Len(queue') = Len(queue) + Len(work["callback"])
      BY <3>1, <3>2
    <3>4. Len(work["callback"]') = 0
      BY <2>1
    <3>5. Held' = Held
      BY <2>2, <2>3, <3>3, <2>1 DEF Held, TypeOK, Threads
    <3> QED
      BY <3>1, <3>5 DEF Accounted
  <2> QED
    BY <2>4, <2>5
<1>4. CASE NotifyOne
  BY <1>4 DEF NotifyOne, Accounted, Held
<1> QED
  BY <1>1, <1>2, <1>3, <1>4 DEF Callback

LEMMA ProcessOneAccounted ==
    ASSUME IInv, IInv', Accounted, NEW t \in Threads, ProcessOne(t)
    PROVE  Accounted'
<1> USE DEF IInv
<1>1. CASE TransformPublishes(t)
  <2>1. stats' = Count("processed") /\ UNCHANGED <<queue, work>>
    BY <1>1 DEF TransformPublishes
  <2> QED
    BY <2>1, Counted, CounterNames DEF Accounted, Held
<1>2. CASE TransformThrows(t) \/ Publish(t)
  <2>1. PICK c \in {"published", "exceptions"} : stats' = Count(c)
    BY <1>2 DEF TransformThrows, Publish
  <2>2. pc[t] \in {"transform", "publish"} /\ NextItem(t) /\ UNCHANGED queue
    BY <1>2 DEF TransformThrows, Publish
  <2>3. /\ stats'[c] = stats[c] + 1
        /\ \A d \in Counters \ {c} : stats'[d] = stats[d]
    BY <2>1, Counted, CounterNames
  <2> QED
    BY <2>2, <2>3, NextItemAccounted
<1>3. CASE TransformSuppresses(t)
  <2>1. stats' = [stats EXCEPT !["processed"] = @ + 1, !["dropped"] = @ + 1]
    BY <1>3 DEF TransformSuppresses
  <2>2. /\ stats'["dropped"] = stats["dropped"] + 1
        /\ \A d \in Counters \ {"dropped", "processed"} : stats'[d] = stats[d]
    BY <2>1, CounterNames DEF TypeOK
  <2>3. pc[t] \in {"transform", "publish"} /\ NextItem(t) /\ UNCHANGED queue
    BY <1>3 DEF TransformSuppresses
  <2> QED
    BY <2>2, <2>3, NextItemAccounted
<1> QED
  BY <1>1, <1>2, <1>3 DEF ProcessOne

LEMMA TakeAccounted == IInv /\ IInv' /\ Accounted /\ Take => Accounted'
<1> SUFFICES ASSUME IInv, IInv', Accounted, Take PROVE Accounted'
  OBVIOUS
<1> USE DEF IInv
<1>1. /\ queue \in Seq(Messages) /\ queue # <<>> /\ TakeSize \in 1 .. Len(queue)
      /\ work["worker"] = <<>>
  BY TakeSizeBounds DEF Take, TypeOK, WorkShape
<1>2. /\ work["worker"]' = SubSeq(queue, 1, TakeSize)
      /\ work["callback"]' = work["callback"]
      /\ queue' = SubSeq(queue, TakeSize + 1, Len(queue))
      /\ stats' = stats
  BY DEF Take, TypeOK, Threads
<1>3. /\ Len(work["worker"]') = TakeSize
      /\ Len(queue') = Len(queue) - TakeSize
  BY <1>1, <1>2, TakePart
<1>4. Len(work["worker"]') = Len(work["worker"]) + TakeSize
  <2>1. Len(work["worker"]) = 0 /\ Len(queue) \in Nat
    BY <1>1, LenProperties
  <2>2. TakeSize \in Nat
    BY <1>1, <2>1
  <2> QED
    BY <1>3, <2>1, <2>2
<1>5. TakeSize \in Int
  BY <1>1, LenProperties
<1>6. work["callback"]' = work["callback"] /\ stats' = stats
  BY <1>2
<1>7. Len(queue') = Len(queue) - TakeSize
  BY <1>3
<1>8. Held' = Held
  BY <1>4, <1>5, <1>6, <1>7 DEF Held, TypeOK, Threads
<1> QED
  BY <1>6, <1>8 DEF Accounted

LEMMA StepAccounted == IInv /\ Accounted /\ [Next]_vars => Accounted'
<1> SUFFICES ASSUME IInv, Accounted, [Next]_vars PROVE Accounted'
  OBVIOUS
<1>1. CASE \/ UNCHANGED vars \/ Deliver \/ SpuriousWake \/ JoinExecutor
           \/ CloseBegin \/ CloseStep \/ CheckBlocks \/ Block \/ WorkerExit
  BY <1>1 DEF vars, Deliver, SpuriousWake, JoinExecutor, CloseBegin, CloseStep,
     CloseUnsubscribe, CloseNotify, CloseJoin, CloseRelease, CheckBlocks, Block,
     WorkerExit, Accounted, Held
<1>2. IInv'
  BY StepIInv
<1> QED
  BY <1>1, <1>2, CallbackAccounted, ProcessOneAccounted, TakeAccounted
     DEF Next, WorkerLoop

\* Every received message is counted once more as published, dropped,
\* coalesced or failed, or is still inside: for every queue size, batch size
\* and number of messages.
THEOREM BooksBalance == Spec => []Accounted
<1>1. Init => Accounted
  BY DEF Init, Accounted, Held, Counters, Threads
<1> QED
  BY <1>1, StepAccounted, InductiveInvariant, PTL DEF Spec

-----------------------------------------------------------------------------
(* Messages keep their order, and every step is one of Settlement.         *)

Elements(s) == {s[i] : i \in 1 .. Len(s)}
Before(a, b) == \A x \in Elements(a), y \in Elements(b) : x < y

\* The three places are in order, one before the other.
InOrder ==
    /\ Increasing(work["worker"]) /\ Increasing(queue)
    /\ Increasing(work["callback"])
    /\ Before(work["worker"], queue) /\ Before(queue, work["callback"])
    /\ Before(work["worker"], work["callback"])

\* What is inside has arrived and is not settled; nor is what has yet to
\* arrive, or stands at the gate.
Unsettled ==
    /\ \A m \in Inside : m <= arrived /\ outcome[m] = "none"
    /\ \A m \in Messages : m > arrived => outcome[m] = "none"
    /\ pc["callback"] = "gate" => outcome[arrived] = "none" /\ arrived \notin Inside

OrderInv == InOrder /\ Unsettled

-----------------------------------------------------------------------------
(* The elements of a sequence, and their order.                            *)

LEMMA ElementsEmpty == Elements(<<>>) = {} /\ Increasing(<<>>)
BY DEF Elements, Increasing

LEMMA ElementsType ==
    ASSUME NEW S, NEW s \in Seq(S) PROVE Elements(s) \subseteq S
BY ElementOfSeq DEF Elements

LEMMA ElementsOne ==
    ASSUME NEW x PROVE Elements(<<x>>) = {x} /\ Increasing(<<x>>)
BY DEF Elements, Increasing

LEMMA ElementsHeadTail ==
    ASSUME NEW s \in Seq(Messages), s # <<>>
    PROVE  /\ Elements(s) = {Head(s)} \cup Elements(Tail(s))
           /\ Increasing(s) => Increasing(Tail(s)) /\ Head(s) \notin Elements(Tail(s))
<1>1. Len(s) \in Nat \ {0} /\ Len(Tail(s)) = Len(s) - 1
  BY DropFirst
<1>2. \A i \in 1 .. Len(Tail(s)) : Tail(s)[i] = s[i + 1]
  BY HeadTailProperties
<1>3. Head(s) = s[1]
  OBVIOUS
<1>4. Elements(s) \subseteq {Head(s)} \cup Elements(Tail(s))
  <2> SUFFICES ASSUME NEW i \in 1 .. Len(s), i # 1
               PROVE  s[i] \in Elements(Tail(s))
    BY <1>3 DEF Elements
  <2>1. i - 1 \in 1 .. Len(Tail(s)) /\ (i - 1) + 1 = i
    BY <1>1
  <2>2. Tail(s)[i - 1] = s[i]
    BY <1>2, <2>1
  <2> QED
    BY <2>1, <2>2 DEF Elements
<1>5. {Head(s)} \cup Elements(Tail(s)) \subseteq Elements(s)
  <2>1. 1 \in 1 .. Len(s) /\ \A i \in 1 .. Len(Tail(s)) : i + 1 \in 1 .. Len(s)
    BY <1>1
  <2> QED
    BY <1>2, <1>3, <2>1 DEF Elements
<1>6. ASSUME Increasing(s)
      PROVE  Increasing(Tail(s)) /\ Head(s) \notin Elements(Tail(s))
  <2>1. \A i, j \in 1 .. Len(Tail(s)) : i < j => Tail(s)[i] < Tail(s)[j]
    <3> SUFFICES ASSUME NEW i \in 1 .. Len(Tail(s)), NEW j \in 1 .. Len(Tail(s)), i < j
                 PROVE  Tail(s)[i] < Tail(s)[j]
      OBVIOUS
    <3>1. i + 1 \in 1 .. Len(s) /\ j + 1 \in 1 .. Len(s) /\ i + 1 < j + 1
      BY <1>1
    <3>2. s[i + 1] < s[j + 1]
      BY <1>6, <3>1 DEF Increasing
    <3> QED
      BY <1>2, <3>2
  <2>2. \A i \in 1 .. Len(Tail(s)) : Tail(s)[i] # Head(s)
    <3> SUFFICES ASSUME NEW i \in 1 .. Len(Tail(s)) PROVE Tail(s)[i] # Head(s)
      OBVIOUS
    <3>1. 1 \in 1 .. Len(s) /\ i + 1 \in 1 .. Len(s) /\ 1 < i + 1
      BY <1>1
    <3>2. s[1] < s[i + 1]
      BY <1>6, <3>1 DEF Increasing
    <3>3. s[1] \in Messages /\ s[i + 1] \in Messages
      BY <3>1, ElementOfSeq
    <3>4. s[1] # s[i + 1]
      BY <3>2, <3>3 DEF Messages
    <3>5. Tail(s)[i] = s[i + 1]
      BY <1>2
    <3> QED
      BY <1>3, <3>4, <3>5
  <2> QED
    BY <2>1, <2>2 DEF Increasing, Elements
<1> QED
  BY <1>4, <1>5, <1>6

LEMMA ElementsConcat ==
    ASSUME NEW a \in Seq(Messages), NEW b \in Seq(Messages)
    PROVE  /\ Elements(a \o b) = Elements(a) \cup Elements(b)
           /\ Increasing(a) /\ Increasing(b) /\ Before(a, b) => Increasing(a \o b)
           /\ Increasing(a \o b) => Increasing(a) /\ Increasing(b) /\ Before(a, b)
<1>1. Len(a) \in Nat /\ Len(b) \in Nat
  BY LenProperties
<1>2. Len(a \o b) = Len(a) + Len(b)
  BY ConcatProperties
<1>3. \A i \in 1 .. Len(a) : i \in 1 .. Len(a \o b) /\ (a \o b)[i] = a[i]
  <2> SUFFICES ASSUME NEW i \in 1 .. Len(a)
               PROVE  i \in 1 .. Len(a \o b) /\ (a \o b)[i] = a[i]
    OBVIOUS
  <2>1. i \in 1 .. Len(a) + Len(b) /\ i <= Len(a)
    BY <1>1
  <2>2. (a \o b)[i] = IF i <= Len(a) THEN a[i] ELSE b[i - Len(a)]
    BY <2>1, ConcatProperties
  <2> QED
    BY <1>2, <2>1, <2>2
<1>4. \A i \in 1 .. Len(b) : /\ Len(a) + i \in 1 .. Len(a \o b)
                             /\ (a \o b)[Len(a) + i] = b[i]
  <2> SUFFICES ASSUME NEW i \in 1 .. Len(b)
               PROVE  /\ Len(a) + i \in 1 .. Len(a \o b)
                      /\ (a \o b)[Len(a) + i] = b[i]
    OBVIOUS
  <2>1. /\ Len(a) + i \in 1 .. Len(a) + Len(b) /\ ~(Len(a) + i <= Len(a))
        /\ (Len(a) + i) - Len(a) = i
    BY <1>1
  <2>2. (a \o b)[Len(a) + i] = IF Len(a) + i <= Len(a) THEN a[Len(a) + i]
                               ELSE b[(Len(a) + i) - Len(a)]
    BY <2>1, ConcatProperties
  <2> QED
    BY <1>2, <2>1, <2>2
<1>5. \A i \in 1 .. Len(a \o b) :
        i \in 1 .. Len(a) \/ \E j \in 1 .. Len(b) : i = Len(a) + j
  <2> SUFFICES ASSUME NEW i \in 1 .. Len(a \o b), i \notin 1 .. Len(a)
               PROVE  \E j \in 1 .. Len(b) : i = Len(a) + j
    OBVIOUS
  <2>1. i - Len(a) \in 1 .. Len(b) /\ i = Len(a) + (i - Len(a))
    BY <1>1, <1>2
  <2> QED
    BY <2>1
<1>6. Elements(a \o b) = Elements(a) \cup Elements(b)
  <2>1. Elements(a \o b) \subseteq Elements(a) \cup Elements(b)
    BY <1>3, <1>4, <1>5 DEF Elements
  <2>2. Elements(a) \subseteq Elements(a \o b) /\ Elements(b) \subseteq Elements(a \o b)
    BY <1>3, <1>4 DEF Elements
  <2> QED
    BY <2>1, <2>2
<1>7. ASSUME Increasing(a), Increasing(b), Before(a, b)
      PROVE  Increasing(a \o b)
  <2> SUFFICES ASSUME NEW i \in 1 .. Len(a \o b), NEW j \in 1 .. Len(a \o b), i < j
               PROVE  (a \o b)[i] < (a \o b)[j]
    BY DEF Increasing
  <2>1. CASE i \in 1 .. Len(a) /\ j \in 1 .. Len(a)
    BY <1>3, <1>7, <2>1 DEF Increasing
  <2>2. ASSUME i \in 1 .. Len(a), NEW k \in 1 .. Len(b), j = Len(a) + k
        PROVE  (a \o b)[i] < (a \o b)[j]
    BY <1>3, <1>4, <1>7, <2>2 DEF Before, Elements
  <2>3. ASSUME NEW h \in 1 .. Len(b), i = Len(a) + h,
               NEW k \in 1 .. Len(b), j = Len(a) + k
        PROVE  (a \o b)[i] < (a \o b)[j]
    <3>1. h < k
      BY <1>1, <2>3
    <3>2. b[h] < b[k]
      BY <1>7, <3>1 DEF Increasing
    <3> QED
      BY <1>4, <2>3, <3>2
  <2>4. ~(i \notin 1 .. Len(a) /\ j \in 1 .. Len(a))
    BY <1>1, <1>2
  <2> QED
    BY <1>5, <2>1, <2>2, <2>3, <2>4
<1>8. ASSUME Increasing(a \o b)
      PROVE  Increasing(a) /\ Increasing(b) /\ Before(a, b)
  <2>1. Increasing(a)
    BY <1>3, <1>8 DEF Increasing
  <2>2. Increasing(b)
    <3> SUFFICES ASSUME NEW i \in 1 .. Len(b), NEW j \in 1 .. Len(b), i < j
                 PROVE  b[i] < b[j]
      BY DEF Increasing
    <3>1. Len(a) + i < Len(a) + j
      BY <1>1
    <3> QED
      BY <1>4, <1>8, <3>1 DEF Increasing
  <2>3. Before(a, b)
    <3> SUFFICES ASSUME NEW i \in 1 .. Len(a), NEW j \in 1 .. Len(b)
                 PROVE  a[i] < b[j]
      BY DEF Before, Elements
    <3>1. i < Len(a) + j
      BY <1>1
    <3> QED
      BY <1>3, <1>4, <1>8, <3>1 DEF Increasing
  <2> QED
    BY <2>1, <2>2, <2>3
<1> QED
  BY <1>6, <1>7, <1>8

\* Before says the same of what the sequences contain.
LEMMA BeforeSubset ==
    ASSUME NEW a, NEW b, NEW c, NEW d, Before(a, b),
           Elements(c) \subseteq Elements(a), Elements(d) \subseteq Elements(b)
    PROVE  Before(c, d)
BY DEF Before

-----------------------------------------------------------------------------
(* The abstract state.                                                     *)

LEMMA InsideIs ==
    Inside = Elements(queue) \cup Elements(work["callback"])
                \cup Elements(work["worker"])
BY DEF Inside, Elements, Threads

LEMMA InsideType == TypeOK => Inside \subseteq Messages
<1> SUFFICES ASSUME TypeOK PROVE Inside \subseteq Messages
  OBVIOUS
<1>1. /\ queue \in Seq(Messages) /\ work["callback"] \in Seq(Messages)
      /\ work["worker"] \in Seq(Messages)
  BY DEF TypeOK, Threads
<1> QED
  BY <1>1, ElementsType, InsideIs

LEMMA StatusIs ==
    /\ Status = [m \in Messages |-> Status[m]]
    /\ \A m \in Messages :
        /\ outcome[m] # "none" => Status[m] = "settled"
        /\ outcome[m] = "none" /\ m \in Inside => Status[m] = "pending"
        /\ outcome[m] = "none" /\ m \notin Inside => Status[m] = "unknown"
BY DEF Status

LEMMA StatusUnchanged ==
    ASSUME UNCHANGED outcome, Inside' = Inside PROVE UNCHANGED Status
BY DEF Status

\* A message that was at the gate is admitted.
LEMMA AdmitMaps ==
    ASSUME NEW m \in Messages, m \notin Inside, outcome[m] = "none",
           UNCHANGED outcome, Inside' = Inside \cup {m}
    PROVE  Ledger!Admit(m)
<1>1. Status[m] = "unknown"
  BY StatusIs
<1>2. Status' = [Status EXCEPT ![m] = "pending"]
  BY DEF Status
<1> QED
  BY <1>1, <1>2 DEF Ledger!Admit, Ledger!Unknown, Ledger!Pending

\* A message that leaves the pipeline with an outcome is settled.
LEMMA SettleMaps ==
    ASSUME TypeOK, NEW m \in Inside, outcome[m] = "none",
           NEW o \in Outcomes \ {"none"},
           outcome' = [outcome EXCEPT ![m] = o], Inside' = Inside \ {m}
    PROVE  Ledger!Settle(m)
<1>1. m \in Messages
  BY InsideType
<1>2. Status[m] = "pending"
  BY <1>1, StatusIs
<1>3. \A n \in Messages : outcome'[n] = IF n = m THEN o ELSE outcome[n]
  BY DEF TypeOK
<1>4. Status' = [Status EXCEPT ![m] = "settled"]
  BY <1>1, <1>3 DEF Status
<1> QED
  BY <1>2, <1>4 DEF Ledger!Settle, Ledger!Settled, Ledger!Pending

\* What a step of the ledger is, for a message of the pipeline.
LEMMA LedgerSteps ==
    ASSUME NEW m \in Messages, Ledger!Admit(m) \/ Ledger!Settle(m)
    PROVE  Ledger!Next
BY DEF Ledger!Next

-----------------------------------------------------------------------------
(* One lemma per step: it keeps the order and is a step of the ledger.     *)

\* A step that leaves the messages where they are.
LEMMA NothingMoves ==
    ASSUME OrderInv, UNCHANGED <<queue, work, outcome, arrived>>,
           pc["callback"]' = "gate" => pc["callback"] = "gate"
    PROVE  OrderInv' /\ [Ledger!Next]_Status
<1>1. Inside' = Inside
  BY DEF Inside
<1>2. InOrder'
  BY DEF OrderInv, InOrder, Increasing, Before, Elements
<1>3. Unsettled'
  BY <1>1 DEF OrderInv, Unsettled
<1> QED
  BY <1>1, <1>2, <1>3, StatusUnchanged DEF OrderInv

\* A step that settles one message and leaves the rest inside.
LEMMA Settles ==
    ASSUME IInv, OrderInv, InOrder', UNCHANGED arrived,
           NEW m \in Inside, NEW o \in Outcomes \ {"none"},
           outcome' = [outcome EXCEPT ![m] = o], Inside' = Inside \ {m},
           pc["callback"]' # "gate" \/ pc["callback"] = "gate"
    PROVE  OrderInv' /\ [Ledger!Next]_Status
<1>1. TypeOK /\ m \in Messages /\ Inside \subseteq Messages
  BY InsideType DEF IInv
<1>2. m <= arrived /\ outcome[m] = "none"
  BY DEF OrderInv, Unsettled
<1>3. \A n \in Messages \ {m} : outcome'[n] = outcome[n]
  BY <1>1 DEF TypeOK
<1>4. \A n \in Messages : n > arrived => n # m
  BY <1>1, <1>2 DEF Messages, TypeOK
<1>5. pc["callback"] = "gate" => arrived \in Messages \ {m}
  BY <1>1 DEF IInv, WorkShape, OrderInv, Unsettled
<1>6. Unsettled'
  BY <1>1, <1>3, <1>4, <1>5 DEF OrderInv, Unsettled
<1>7. Ledger!Settle(m)
  BY <1>1, <1>2, SettleMaps
<1> QED
  BY <1>1, <1>6, <1>7, LedgerSteps DEF OrderInv

LEMMA DeliverMaps == IInv /\ OrderInv /\ Deliver => OrderInv' /\ [Ledger!Next]_Status
<1> SUFFICES ASSUME IInv, OrderInv, Deliver PROVE OrderInv' /\ [Ledger!Next]_Status
  OBVIOUS
<1>1. Inside' = Inside /\ UNCHANGED outcome
  BY DEF Deliver, Inside
<1>2. InOrder'
  BY DEF Deliver, OrderInv, InOrder, Increasing, Before, Elements
<1>3. /\ arrived' = arrived + 1 /\ arrived' \in Messages /\ arrived \in Nat
      /\ Inside \subseteq Messages
  BY SizeAssumption, InsideType DEF Deliver, IInv, TypeOK, Messages
<1>4. \A m \in Inside : m <= arrived' /\ m # arrived'
  BY <1>3 DEF OrderInv, Unsettled, Messages
<1>5. \A m \in Messages : m >= arrived' => outcome[m] = "none"
  BY <1>3 DEF OrderInv, Unsettled, Messages
<1>6. \A m \in Messages : m > arrived' => outcome[m] = "none"
  BY <1>3, <1>5 DEF Messages
<1>7. outcome[arrived'] = "none"
  BY <1>3, <1>5 DEF Messages
<1>8. Unsettled'
  BY <1>1, <1>4, <1>6, <1>7 DEF OrderInv, Unsettled
<1> QED
  BY <1>1, <1>2, <1>8, StatusUnchanged DEF OrderInv

LEMMA GateMaps == IInv /\ OrderInv /\ Gate => OrderInv' /\ [Ledger!Next]_Status
<1> SUFFICES ASSUME IInv, OrderInv, Gate PROVE OrderInv' /\ [Ledger!Next]_Status
  OBVIOUS
<1>1. CASE stopping
  <2>1. /\ UNCHANGED <<queue, work, outcome, arrived>>
        /\ pc["callback"]' = "gate" => pc["callback"] = "gate"
    BY <1>1 DEF Gate
  <2> QED
    BY <2>1, NothingMoves
<1>2. CASE ~stopping
  <2>1. /\ work["callback"] = <<>> /\ work["callback"]' = <<arrived>>
        /\ work["worker"]' = work["worker"] /\ UNCHANGED <<queue, outcome, arrived>>
        /\ arrived \in Messages /\ pc["callback"]' # "gate"
    BY <1>2 DEF Gate, IInv, WorkShape, TypeOK, Threads
  <2>2. outcome[arrived] = "none" /\ arrived \notin Inside
    BY DEF Gate, OrderInv, Unsettled
  <2>3. Elements(work["callback"]') = {arrived} /\ Increasing(work["callback"]')
    BY <2>1, ElementsOne
  <2>4. Inside = Elements(queue) \cup Elements(work["worker"])
    BY <2>1, InsideIs, ElementsEmpty
  <2>5. Inside' = Inside \cup {arrived}
    <3>1. Inside' = Elements(queue') \cup Elements(work["callback"]')
                      \cup Elements(work["worker"]')
      BY DEF Inside, Elements, Threads
    <3> QED
      BY <2>1, <2>3, <2>4, <3>1
  <2>6. Inside \subseteq Messages
    BY InsideType DEF IInv
  <2>7. \A m \in Inside : m < arrived
    BY <2>1, <2>2, <2>6 DEF OrderInv, Unsettled, Messages
  <2>8. Before(queue, work["callback"]') /\ Before(work["worker"], work["callback"]')
    BY <2>3, <2>4, <2>7 DEF Before
  <2>9. InOrder'
    BY <2>1, <2>3, <2>8 DEF OrderInv, InOrder
  <2>10. Unsettled'
    BY <2>1, <2>2, <2>5 DEF OrderInv, Unsettled, Messages
  <2>11. Ledger!Admit(arrived)
    BY <2>1, <2>2, <2>5, AdmitMaps
  <2> QED
    BY <2>1, <2>9, <2>10, <2>11, LedgerSteps DEF OrderInv
<1> QED
  BY <1>1, <1>2

\* A step that moves messages from one place inside to another.
LEMMA Rearranges ==
    ASSUME OrderInv, InOrder', UNCHANGED <<outcome, arrived>>, Inside' = Inside,
           pc["callback"]' # "gate" \/ pc["callback"] = "gate"
    PROVE  OrderInv' /\ [Ledger!Next]_Status
<1>1. Unsettled'
  BY DEF OrderInv, Unsettled
<1> QED
  BY <1>1, StatusUnchanged DEF OrderInv

LEMMA PlacesType ==
    ASSUME TypeOK
    PROVE  /\ queue \in Seq(Messages) /\ work["callback"] \in Seq(Messages)
           /\ work["worker"] \in Seq(Messages)
BY DEF TypeOK, Threads

LEMMA InsideNext ==
    Inside' = Elements(queue') \cup Elements(work["callback"]')
                 \cup Elements(work["worker"]')
BY DEF Inside, Elements, Threads

\* A message of one of two sequences in order is not in the other.
LEMMA BeforeDisjoint ==
    ASSUME NEW a \in Seq(Messages), NEW b \in Seq(Messages), Before(a, b)
    PROVE  Elements(a) \cap Elements(b) = {}
<1>1. Elements(a) \subseteq Messages /\ Elements(b) \subseteq Messages
  BY ElementsType
<1> QED
  BY <1>1 DEF Before, Messages

LEMMA OneIsNotEmpty == ASSUME NEW s, Len(s) = 1 PROVE s # <<>>
<1>1. Len(<<>>) = 0
  OBVIOUS
<1> QED
  BY <1>1

\* A sequence of one message holds its head.
LEMMA ElementsSingle ==
    ASSUME NEW s \in Seq(Messages), s # <<>>, Tail(s) = <<>>
    PROVE  Elements(s) = {Head(s)}
BY ElementsHeadTail, ElementsEmpty

LEMMA StoreLatestMaps ==
    IInv /\ OrderInv /\ StoreLatest => OrderInv' /\ [Ledger!Next]_Status
<1> SUFFICES ASSUME IInv, OrderInv, StoreLatest
             PROVE  OrderInv' /\ [Ledger!Next]_Status
  OBVIOUS
<1>1. /\ queue \in Seq(Messages) /\ work["callback"] \in Seq(Messages)
      /\ work["worker"] \in Seq(Messages)
  BY PlacesType DEF IInv
<1>2. /\ queue' = work["callback"] /\ work["callback"]' = <<>>
      /\ work["worker"]' = work["worker"] /\ UNCHANGED arrived
      /\ pc["callback"]' # "gate"
  BY DEF StoreLatest, IInv, TypeOK, Threads
<1>3. InOrder'
  BY <1>2, ElementsEmpty DEF OrderInv, InOrder, Before
<1>4. Inside' = Elements(work["callback"]) \cup Elements(work["worker"])
  BY <1>2, InsideNext, ElementsEmpty
<1>5. CASE queue = <<>>
  <2>1. Inside' = Inside
    BY <1>4, <1>5, InsideIs, ElementsEmpty
  <2>2. UNCHANGED outcome
    BY <1>5 DEF StoreLatest
  <2> QED
    BY <1>2, <1>3, <2>1, <2>2, Rearranges
<1>6. CASE queue # <<>>
  <2>1. Tail(queue) = <<>>
    <3>1. Len(queue) <= 1
      BY DEF StoreLatest, IInv, TypeOK
    <3>2. Len(queue) \in Nat \ {0} /\ (Tail(queue) = <<>> <=> Len(queue) = 1)
      BY <1>1, <1>6, DropFirst
    <3> QED
      BY <3>1, <3>2
  <2>2. Elements(queue) = {Head(queue)}
    BY <1>1, <1>6, <2>1, ElementsSingle
  <2>3. Head(queue) \in Inside
    BY <2>2, InsideIs
  <2>4. /\ Elements(queue) \cap Elements(work["callback"]) = {}
        /\ Elements(work["worker"]) \cap Elements(queue) = {}
    BY <1>1, BeforeDisjoint DEF OrderInv, InOrder
  <2>5. Inside' = Inside \ {Head(queue)}
    BY <1>4, <2>2, <2>4, InsideIs
  <2>6. /\ outcome' = [outcome EXCEPT ![Head(queue)] = "coalesced"]
        /\ "coalesced" \in Outcomes \ {"none"}
    BY <1>6 DEF StoreLatest, Outcomes
  <2> QED
    BY <1>2, <1>3, <2>3, <2>5, <2>6, Settles
<1> QED
  BY <1>5, <1>6

LEMMA StoreBatchMaps ==
    IInv /\ OrderInv /\ StoreBatch => OrderInv' /\ [Ledger!Next]_Status
<1> SUFFICES ASSUME IInv, OrderInv, StoreBatch
             PROVE  OrderInv' /\ [Ledger!Next]_Status
  OBVIOUS
<1>1. /\ queue \in Seq(Messages) /\ work["callback"] \in Seq(Messages)
      /\ work["worker"] \in Seq(Messages)
  BY PlacesType DEF IInv
<1>2. /\ work["callback"]' = <<>> /\ work["worker"]' = work["worker"]
      /\ UNCHANGED arrived /\ pc["callback"]' # "gate"
  BY DEF StoreBatch, IInv, TypeOK, Threads
<1>3. CASE Len(queue) >= QueueCapacity
  <2>1. /\ outcome' = [outcome EXCEPT ![Head(work["callback"])] = "dropped"]
        /\ "dropped" \in Outcomes \ {"none"} /\ queue' = queue
    BY <1>3 DEF StoreBatch, Outcomes
  <2>2. Elements(work["callback"]) = {Head(work["callback"])}
    <3>1. Len(work["callback"]) = 1
      BY DEF StoreBatch, IInv, WorkShape
    <3>2. work["callback"] # <<>>
      BY <3>1, OneIsNotEmpty
    <3>3. Tail(work["callback"]) = <<>>
      BY <1>1, <3>1, <3>2, DropFirst
    <3> QED
      BY <1>1, <3>2, <3>3, ElementsSingle
  <2>3. Inside' = Elements(queue) \cup Elements(work["worker"])
    BY <1>2, <2>1, InsideNext, ElementsEmpty
  <2>4. /\ Elements(queue) \cap Elements(work["callback"]) = {}
        /\ Elements(work["worker"]) \cap Elements(work["callback"]) = {}
    BY <1>1, BeforeDisjoint DEF OrderInv, InOrder
  <2>5. /\ Head(work["callback"]) \in Inside
        /\ Inside' = Inside \ {Head(work["callback"])}
    BY <2>2, <2>3, <2>4, InsideIs
  <2>6. InOrder'
    BY <1>2, <2>1, ElementsEmpty DEF OrderInv, InOrder, Before
  <2> QED
    BY <1>2, <2>1, <2>5, <2>6, Settles
<1>4. CASE ~(Len(queue) >= QueueCapacity)
  <2>1. queue' = queue \o work["callback"] /\ UNCHANGED outcome
    BY <1>4 DEF StoreBatch
  <2>2. Elements(queue') = Elements(queue) \cup Elements(work["callback"])
    BY <1>1, <2>1, ElementsConcat
  <2>3. Inside' = Inside
    BY <1>2, <2>2, InsideIs, InsideNext, ElementsEmpty
  <2>4. Increasing(queue')
    BY <1>1, <2>1, ElementsConcat DEF OrderInv, InOrder
  <2>5. InOrder'
    BY <1>2, <2>2, <2>4, ElementsEmpty DEF OrderInv, InOrder, Before
  <2> QED
    BY <1>2, <2>1, <2>3, <2>5, Rearranges
<1> QED
  BY <1>3, <1>4

\* process_one is done with the first message of a thread's work.
LEMMA NextItemMaps ==
    ASSUME IInv, OrderInv, NEW t \in Threads, pc[t] \in {"transform", "publish"},
           NEW o \in Outcomes \ {"none"},
           outcome' = [outcome EXCEPT ![Head(work[t])] = o],
           NextItem(t), UNCHANGED <<queue, arrived>>
    PROVE  OrderInv' /\ [Ledger!Next]_Status
<1>1. /\ queue \in Seq(Messages) /\ work["callback"] \in Seq(Messages)
      /\ work["worker"] \in Seq(Messages)
  BY PlacesType DEF IInv
<1>2. /\ Elements(work["worker"]) \cap Elements(queue) = {}
      /\ Elements(queue) \cap Elements(work["callback"]) = {}
      /\ Elements(work["worker"]) \cap Elements(work["callback"]) = {}
  BY <1>1, BeforeDisjoint DEF OrderInv, InOrder
<1>3. pc["callback"]' # "gate" \/ pc["callback"] = "gate"
  BY DEF NextItem, IInv, TypeOK, Threads
<1>4. CASE t = "callback"
  <2>1. /\ work["callback"]' = Tail(work["callback"])
        /\ work["worker"]' = work["worker"]
    BY <1>4 DEF NextItem, IInv, TypeOK, Threads
  <2>2. work["callback"] # <<>>
    <3>1. Len(work["callback"]) = 1
      BY <1>4 DEF IInv, WorkShape
    <3> QED
      BY <3>1, OneIsNotEmpty
  <2>3. /\ Elements(work["callback"]) =
             {Head(work["callback"])} \cup Elements(work["callback"]')
        /\ Increasing(work["callback"]')
        /\ Head(work["callback"]) \notin Elements(work["callback"]')
    BY <1>1, <2>1, <2>2, ElementsHeadTail DEF OrderInv, InOrder
  <2>4. InOrder'
    BY <2>1, <2>3 DEF OrderInv, InOrder, Before
  <2>5. Inside' = Inside \ {Head(work["callback"])}
    BY <1>2, <2>1, <2>3, InsideIs, InsideNext
  <2>6. Head(work["callback"]) \in Inside
    BY <2>3, InsideIs
  <2> QED
    BY <1>3, <1>4, <2>4, <2>5, <2>6, Settles
<1>5. CASE t = "worker"
  <2>1. /\ work["worker"]' = Tail(work["worker"])
        /\ work["callback"]' = work["callback"]
    BY <1>5 DEF NextItem, IInv, TypeOK, Threads
  <2>2. work["worker"] # <<>>
    BY <1>5 DEF IInv, WorkShape
  <2>3. /\ Elements(work["worker"]) =
             {Head(work["worker"])} \cup Elements(work["worker"]')
        /\ Increasing(work["worker"]')
        /\ Head(work["worker"]) \notin Elements(work["worker"]')
    BY <1>1, <2>1, <2>2, ElementsHeadTail DEF OrderInv, InOrder
  <2>4. InOrder'
    BY <2>1, <2>3 DEF OrderInv, InOrder, Before
  <2>5. Inside' = Inside \ {Head(work["worker"])}
    BY <1>2, <2>1, <2>3, InsideIs, InsideNext
  <2>6. Head(work["worker"]) \in Inside
    BY <2>3, InsideIs
  <2> QED
    BY <1>3, <1>5, <2>4, <2>5, <2>6, Settles
<1> QED
  BY <1>4, <1>5 DEF Threads

LEMMA ProcessOneMaps ==
    ASSUME NEW t \in Threads, IInv, OrderInv, ProcessOne(t)
    PROVE  OrderInv' /\ [Ledger!Next]_Status
<1>1. CASE TransformPublishes(t)
  <2>1. /\ UNCHANGED <<queue, work, outcome, arrived>>
        /\ pc["callback"]' = "gate" => pc["callback"] = "gate"
    BY <1>1 DEF TransformPublishes, IInv, TypeOK, Threads
  <2> QED
    BY <2>1, NothingMoves
<1>2. CASE TransformThrows(t)
  <2>1. "failed" \in Outcomes \ {"none"}
    BY DEF Outcomes
  <2> QED
    BY <1>2, <2>1, NextItemMaps DEF TransformThrows
<1>3. CASE TransformSuppresses(t)
  <2>1. "dropped" \in Outcomes \ {"none"}
    BY DEF Outcomes
  <2> QED
    BY <1>3, <2>1, NextItemMaps DEF TransformSuppresses
<1>4. CASE Publish(t)
  <2>1. "failed" \in Outcomes \ {"none"} /\ "published" \in Outcomes \ {"none"}
    BY DEF Outcomes
  <2>2. PICK o \in Outcomes \ {"none"} :
          outcome' = [outcome EXCEPT ![Head(work[t])] = o]
    BY <1>4, <2>1 DEF Publish
  <2> QED
    BY <1>4, <2>2, NextItemMaps DEF Publish
<1> QED
  BY <1>1, <1>2, <1>3, <1>4 DEF ProcessOne

LEMMA TakeMaps == IInv /\ OrderInv /\ Take => OrderInv' /\ [Ledger!Next]_Status
<1> SUFFICES ASSUME IInv, OrderInv, Take PROVE OrderInv' /\ [Ledger!Next]_Status
  OBVIOUS
<1>1. /\ queue \in Seq(Messages) /\ work["callback"] \in Seq(Messages)
      /\ work["worker"] \in Seq(Messages)
  BY PlacesType DEF IInv
<1>2. /\ work["worker"] = <<>> /\ work["callback"]' = work["callback"]
      /\ work["worker"]' = SubSeq(queue, 1, TakeSize)
      /\ queue' = SubSeq(queue, TakeSize + 1, Len(queue))
      /\ UNCHANGED <<outcome, arrived>>
      /\ pc["callback"]' = pc["callback"]
  BY DEF Take, IInv, TypeOK, WorkShape, Threads
<1>3. TakeSize \in 1 .. Len(queue) /\ queue # <<>>
  BY TakeSizeBounds DEF Take, IInv
<1>4. work["worker"]' \in Seq(Messages) /\ queue' \in Seq(Messages)
  BY <1>1, <1>2, <1>3, TakePart
<1>5. queue = work["worker"]' \o queue'
  <2>1. Len(queue) \in Nat
    BY <1>1, LenProperties
  <2>2. SubSeq(queue, 1, TakeSize) \o SubSeq(queue, TakeSize + 1, Len(queue))
          = SubSeq(queue, 1, Len(queue))
    BY <1>1, <1>3, <2>1, ConcatAdjacentSubSeq
  <2>3. SubSeq(queue, 1, Len(queue)) = queue
    BY <1>1, SubSeqFull
  <2> QED
    BY <1>2, <2>2, <2>3
<1>6. /\ Elements(queue) = Elements(work["worker"]') \cup Elements(queue')
      /\ Increasing(work["worker"]') /\ Increasing(queue')
      /\ Before(work["worker"]', queue')
  BY <1>4, <1>5, ElementsConcat DEF OrderInv, InOrder
<1>7. InOrder'
  BY <1>2, <1>6 DEF OrderInv, InOrder, Before
<1>8. Inside' = Inside
  BY <1>2, <1>6, InsideIs, InsideNext, ElementsEmpty
<1> QED
  BY <1>2, <1>7, <1>8, Rearranges

\* The steps that only move the threads and close().
LEMMA OtherStepsMap ==
    ASSUME IInv, OrderInv,
           \/ NotifyOne \/ CheckBlocks \/ Block \/ WorkerExit \/ SpuriousWake
           \/ JoinExecutor \/ CloseBegin \/ CloseStep \/ UNCHANGED vars
    PROVE  OrderInv' /\ [Ledger!Next]_Status
<1>1. UNCHANGED <<queue, work, outcome, arrived>>
  BY DEF NotifyOne, CheckBlocks, Block, WorkerExit, SpuriousWake, JoinExecutor,
     CloseBegin, CloseStep, CloseUnsubscribe, CloseNotify, CloseJoin,
     CloseRelease, vars
<1>2. pc["callback"]' = "gate" => pc["callback"] = "gate"
  BY DEF NotifyOne, CheckBlocks, Block, WorkerExit, SpuriousWake, JoinExecutor,
     CloseBegin, CloseStep, CloseUnsubscribe, CloseNotify, CloseJoin,
     CloseRelease, vars, IInv, TypeOK, Threads
<1> QED
  BY <1>1, <1>2, NothingMoves

LEMMA InitMaps == Init => OrderInv /\ Ledger!Init
<1> SUFFICES ASSUME Init PROVE OrderInv /\ Ledger!Init
  OBVIOUS
<1>1. /\ queue = <<>> /\ work["callback"] = <<>> /\ work["worker"] = <<>>
      /\ pc["callback"] = "idle"
      /\ \A m \in Messages : outcome[m] = "none"
  BY DEF Init, Threads
<1>2. Inside = {}
  BY <1>1, InsideIs, ElementsEmpty
<1>3. OrderInv
  BY <1>1, <1>2, ElementsEmpty DEF OrderInv, InOrder, Unsettled, Before
<1>4. Status = [m \in Messages |-> "unknown"]
  BY <1>1, <1>2 DEF Status
<1> QED
  BY <1>3, <1>4 DEF Ledger!Init, Ledger!Unknown

LEMMA StepMaps ==
    IInv /\ OrderInv /\ [Next]_vars => OrderInv' /\ [Ledger!Next]_Status
<1> SUFFICES ASSUME IInv, OrderInv, [Next]_vars
             PROVE  OrderInv' /\ [Ledger!Next]_Status
  OBVIOUS
<1>1. CASE Deliver
  BY <1>1, DeliverMaps
<1>2. CASE Gate
  BY <1>2, GateMaps
<1>3. CASE StoreLatest
  BY <1>3, StoreLatestMaps
<1>4. CASE StoreBatch
  BY <1>4, StoreBatchMaps
<1>5. ASSUME NEW t \in Threads, ProcessOne(t)
      PROVE  OrderInv' /\ [Ledger!Next]_Status
  BY <1>5, ProcessOneMaps
<1>6. CASE Take
  BY <1>6, TakeMaps
<1> QED
  BY <1>1, <1>2, <1>3, <1>4, <1>5, <1>6, OtherStepsMap
  DEF Next, Callback, WorkerLoop

LEMMA OrderImpliesArrival == TypeOK /\ OrderInv => ArrivalOrder
<1> SUFFICES ASSUME TypeOK, OrderInv PROVE ArrivalOrder
  OBVIOUS
<1>1. /\ queue \in Seq(Messages) /\ work["callback"] \in Seq(Messages)
      /\ work["worker"] \in Seq(Messages)
  BY PlacesType
<1>2. work["worker"] \o queue \in Seq(Messages)
  BY <1>1, ConcatProperties
<1>3. /\ Elements(work["worker"] \o queue)
           = Elements(work["worker"]) \cup Elements(queue)
      /\ Increasing(work["worker"] \o queue)
  BY <1>1, ElementsConcat DEF OrderInv, InOrder
<1>4. Before(work["worker"] \o queue, work["callback"])
  BY <1>3 DEF Before, OrderInv, InOrder
<1>5. Increasing((work["worker"] \o queue) \o work["callback"])
  BY <1>1, <1>2, <1>3, <1>4, ElementsConcat DEF OrderInv, InOrder
<1> QED
  BY <1>5 DEF ArrivalOrder, OrderInv, Unsettled

-----------------------------------------------------------------------------
\* Whatever the policy, the messages inside stay in the order they arrived,
\* from the worker's batch through queue_ to the callback, and a message that
\* has not arrived has no outcome (native_pipeline.py, the generated class).
THEOREM KeepsArrivalOrder == Spec => []ArrivalOrder
<1>1. Init => IInv /\ OrderInv
  BY InitIInv, InitMaps
<1>2. IInv /\ OrderInv /\ [Next]_vars => (IInv /\ OrderInv)'
  BY StepIInv, StepMaps
<1>3. IInv /\ OrderInv => ArrivalOrder
  BY OrderImpliesArrival DEF IInv
<1> QED
  BY <1>1, <1>2, <1>3, PTL DEF Spec

\* The pipeline implements the ledger of Settlement: the callback admits a
\* message once, and replacing it, dropping it or process_one settles it once.
THEOREM ImplementsSettlement == Spec => SettlesOnce
<1>1. Init => IInv /\ OrderInv /\ Ledger!Init
  BY InitIInv, InitMaps
<1>2. IInv /\ OrderInv /\ [Next]_vars => (IInv /\ OrderInv)' /\ [Ledger!Next]_Status
  BY StepIInv, StepMaps
<1> QED
  BY <1>1, <1>2, PTL DEF Spec, SettlesOnce, Ledger!Spec
=============================================================================
