------------------------ MODULE SummaryWorker_proofs ------------------------
(***************************************************************************)
(* Proofs about SummaryWorker, for any capacities and any numbers of       *)
(* submissions and updates.                                                *)
(***************************************************************************)
EXTENDS SummaryWorker, SequenceTheorems, TLAPS

Summary == [sequence : Nat, version : Nat]

WorkerTypeOK ==
    /\ running \in BOOLEAN /\ closed \in BOOLEAN /\ gated \in BOOLEAN
    /\ inputs \in Seq(Summary) /\ computing \in Seq(Summary)
    /\ results \in Seq(Summary) /\ taken \in Seq(Summary)
    /\ version \in Nat /\ issued \in Seq(Nat)
    /\ attempted \in Nat /\ accepted \in Nat /\ rejected \in Nat
    /\ completed \in Nat /\ failed \in Nat /\ cancelled \in Nat /\ evicted \in Nat
    /\ native \in {"none", "checking", "blocked", "computing", "exited"}
    /\ stopping \in {"no", "joining", "returned"}
    /\ draining \in {"no", "waiting", "idle"}

\* The thread holds an input only while it computes, and it is started once:
\* whoever finds the worker neither running nor closed has no thread yet.
ThreadShape ==
    /\ Len(computing) = IF native = "computing" THEN 1 ELSE 0
    /\ ~running /\ ~closed => native = "none"

\* The summaries on their way, as sets and in the order of each place.
Elements(s) == {s[i] : i \in 1 .. Len(s)}
Ordered(s) == \A i, j \in 1 .. Len(s) : i < j => s[i].sequence < s[j].sequence
Before(A, B) == \A a \in A, b \in B : a.sequence < b.sequence

\* What Python has, what is retained, what is computed and what waits follow
\* one another, and each was issued by a submission with its settings.
LineInOrder ==
    /\ Ordered(taken) /\ Ordered(results) /\ Ordered(computing) /\ Ordered(inputs)
    /\ Before(Elements(taken), Elements(results) \cup Elements(computing)
                                 \cup Elements(inputs))
    /\ Before(Elements(results), Elements(computing) \cup Elements(inputs))
    /\ Before(Elements(computing), Elements(inputs))

Issued ==
    /\ Len(issued) = attempted
    /\ \A x \in Elements(taken) \cup Elements(results) \cup Elements(computing)
                  \cup Elements(inputs) :
          x.sequence < attempted /\ x.version = issued[x.sequence + 1]

WorkerIInv ==
    /\ WorkerTypeOK /\ ThreadShape
    /\ WorkerBooksBalance
    /\ LineInOrder /\ Issued

-----------------------------------------------------------------------------
(* The elements of a sequence, and their order.                            *)

LEMMA ElementsType ==
    ASSUME NEW s \in Seq(Summary) PROVE Elements(s) \subseteq Summary
BY ElementOfSeq DEF Elements

LEMMA NoElements == Elements(<<>>) = {} /\ Ordered(<<>>)
BY DEF Elements, Ordered

LEMMA OneElement ==
    ASSUME NEW x PROVE Elements(<<x>>) = {x} /\ Ordered(<<x>>) /\ Len(<<x>>) = 1
BY DEF Elements, Ordered

LEMMA ElementsConcat ==
    ASSUME NEW a \in Seq(Summary), NEW b \in Seq(Summary)
    PROVE  /\ a \o b \in Seq(Summary) /\ Len(a \o b) = Len(a) + Len(b)
           /\ Elements(a \o b) = Elements(a) \cup Elements(b)
           /\ Ordered(a \o b) <=> /\ Ordered(a) /\ Ordered(b)
                                  /\ Before(Elements(a), Elements(b))
<1> DEFINE c == a \o b
<1>1. /\ c \in Seq(Summary) /\ Len(c) = Len(a) + Len(b)
      /\ \A i \in 1 .. Len(a) + Len(b) :
           c[i] = IF i <= Len(a) THEN a[i] ELSE b[i - Len(a)]
      /\ Len(a) \in Nat /\ Len(b) \in Nat
  BY ConcatProperties
<1> HIDE DEF c
<1>2. \A i \in 1 .. Len(a) : i \in 1 .. Len(c) /\ c[i] = a[i]
  BY <1>1
<1>3. \A i \in 1 .. Len(b) : Len(a) + i \in 1 .. Len(c) /\ c[Len(a) + i] = b[i]
  BY <1>1
<1>4. ASSUME NEW i \in 1 .. Len(c)
      PROVE  \/ i \in 1 .. Len(a) /\ c[i] = a[i]
             \/ ~(i <= Len(a)) /\ i - Len(a) \in 1 .. Len(b) /\ c[i] = b[i - Len(a)]
  BY <1>1
<1>5. Elements(c) = Elements(a) \cup Elements(b)
  BY <1>2, <1>3, <1>4 DEF Elements
<1>6. ASSUME Ordered(c) PROVE Ordered(a) /\ Ordered(b) /\ Before(Elements(a), Elements(b))
  <2>1. Ordered(a)
    BY <1>2, <1>6, <1>1 DEF Ordered
  <2>2. Ordered(b)
    <3> SUFFICES ASSUME NEW i \in 1 .. Len(b), NEW j \in 1 .. Len(b), i < j
                 PROVE  b[i].sequence < b[j].sequence
      BY DEF Ordered
    <3>1. Len(a) + i < Len(a) + j
      BY <1>1
    <3> QED
      BY <1>3, <1>6, <3>1 DEF Ordered
  <2>3. Before(Elements(a), Elements(b))
    <3> SUFFICES ASSUME NEW i \in 1 .. Len(a), NEW j \in 1 .. Len(b)
                 PROVE  a[i].sequence < b[j].sequence
      BY DEF Before, Elements
    <3>1. i < Len(a) + j
      BY <1>1
    <3> QED
      BY <1>2, <1>3, <1>6, <3>1 DEF Ordered
  <2> QED
    BY <2>1, <2>2, <2>3
<1>7. ASSUME Ordered(a), Ordered(b), Before(Elements(a), Elements(b)) PROVE Ordered(c)
  <2> SUFFICES ASSUME NEW i \in 1 .. Len(c), NEW j \in 1 .. Len(c), i < j
               PROVE  c[i].sequence < c[j].sequence
    BY DEF Ordered
  <2>1. CASE j \in 1 .. Len(a)
    BY <1>1, <1>4, <1>7, <2>1 DEF Ordered
  <2>2. CASE i \in 1 .. Len(a) /\ ~(j \in 1 .. Len(a))
    <3>1. c[i] = a[i] /\ j - Len(a) \in 1 .. Len(b) /\ c[j] = b[j - Len(a)]
      BY <1>1, <1>4, <2>2
    <3>2. a[i] \in Elements(a) /\ b[j - Len(a)] \in Elements(b)
      BY <2>2, <3>1 DEF Elements
    <3> QED
      BY <1>7, <3>1, <3>2 DEF Before
  <2>3. CASE ~(i \in 1 .. Len(a))
    <3>1. /\ i - Len(a) \in 1 .. Len(b) /\ j - Len(a) \in 1 .. Len(b)
          /\ i - Len(a) < j - Len(a)
          /\ c[i] = b[i - Len(a)] /\ c[j] = b[j - Len(a)]
      BY <1>1, <1>4, <2>3
    <3> QED
      BY <1>7, <3>1 DEF Ordered
  <2> QED
    BY <2>1, <2>2, <2>3
<1> QED
  BY <1>1, <1>5, <1>6, <1>7 DEF c

LEMMA ElementsTail ==
    ASSUME NEW s \in Seq(Summary), s # <<>>
    PROVE  /\ Tail(s) \in Seq(Summary) /\ Len(Tail(s)) = Len(s) - 1
           /\ Head(s) \in Summary
           /\ Elements(s) = {Head(s)} \cup Elements(Tail(s))
           /\ Ordered(s) => Ordered(Tail(s)) /\ Before({Head(s)}, Elements(Tail(s)))
<1>1. /\ Tail(s) \in Seq(Summary) /\ Len(Tail(s)) = Len(s) - 1
      /\ \A i \in 1 .. Len(Tail(s)) : Tail(s)[i] = s[i + 1]
      /\ Head(s) = s[1] /\ Head(s) \in Summary
      /\ Len(s) \in Nat /\ Len(s) > 0
  BY HeadTailProperties, EmptySeq
<1> DEFINE t == Tail(s)
<1> HIDE DEF t
<1>2. \A i \in 1 .. Len(t) : i + 1 \in 1 .. Len(s) /\ t[i] = s[i + 1]
  BY <1>1 DEF t
<1>3. \A i \in 1 .. Len(s) : i = 1 \/ (i - 1 \in 1 .. Len(t) /\ s[i] = t[i - 1])
  BY <1>1, <1>2 DEF t
<1>4. Elements(s) = {s[1]} \cup Elements(t)
  BY <1>1, <1>2, <1>3 DEF Elements
<1>5. ASSUME Ordered(s) PROVE Ordered(t)
  BY <1>2, <1>5 DEF Ordered
<1>6. ASSUME Ordered(s) PROVE Before({s[1]}, Elements(t))
  BY <1>1, <1>2, <1>6 DEF Ordered, Before, Elements
<1> QED
  BY <1>1, <1>4, <1>5, <1>6 DEF t

LEMMA ElementsAppend ==
    ASSUME NEW s \in Seq(Summary), NEW x \in Summary
    PROVE  /\ Append(s, x) \in Seq(Summary) /\ Len(Append(s, x)) = Len(s) + 1
           /\ Elements(Append(s, x)) = Elements(s) \cup {x}
           /\ Ordered(s) /\ Before(Elements(s), {x}) => Ordered(Append(s, x))
<1>1. Append(s, x) = s \o <<x>> /\ <<x>> \in Seq(Summary)
  OBVIOUS
<1>2. /\ s \o <<x>> \in Seq(Summary) /\ Len(s \o <<x>>) = Len(s) + Len(<<x>>)
      /\ Elements(s \o <<x>>) = Elements(s) \cup Elements(<<x>>)
      /\ Ordered(s \o <<x>>) <=> /\ Ordered(s) /\ Ordered(<<x>>)
                                 /\ Before(Elements(s), Elements(<<x>>))
  BY <1>1, ElementsConcat
<1>3. Elements(<<x>>) = {x} /\ Ordered(<<x>>) /\ Len(<<x>>) = 1
  BY OneElement
<1> QED
  BY <1>1, <1>2, <1>3

-----------------------------------------------------------------------------
(* The steps.                                                              *)

LEMMA InitWorkerIInv == WorkerInit => WorkerIInv
<1> SUFFICES ASSUME WorkerInit PROVE WorkerIInv
  OBVIOUS
<1>1. running \in BOOLEAN /\ closed \in BOOLEAN /\ gated \in BOOLEAN
  BY Zenon DEF WorkerInit
<1>2. WorkerTypeOK
  BY <1>1 DEF WorkerInit, WorkerTypeOK
<1>3. ThreadShape /\ WorkerBooksBalance
  BY DEF WorkerInit, ThreadShape, WorkerBooksBalance
<1>4. LineInOrder /\ Issued
  BY NoElements DEF WorkerInit, LineInOrder, Issued, Before
<1> QED
  BY <1>2, <1>3, <1>4 DEF WorkerIInv

LEMMA WorkerTakesStep == WorkerIInv /\ WorkerTakes => WorkerIInv'
<1> SUFFICES ASSUME WorkerIInv, WorkerTakes PROVE WorkerIInv'
  OBVIOUS
<1> USE DEF flagVars, countVars
<1>1. /\ inputs \in Seq(Summary) /\ inputs # <<>> /\ native = "checking"
      /\ inputs' = Tail(inputs) /\ computing' = <<Head(inputs)>>
      /\ computing = <<>> /\ closed' = closed /\ running' = running
  BY DEF WorkerIInv, WorkerTypeOK, ThreadShape, WorkerTakes
<1>2. /\ Tail(inputs) \in Seq(Summary) /\ Len(Tail(inputs)) = Len(inputs) - 1
      /\ Head(inputs) \in Summary
      /\ Elements(inputs) = {Head(inputs)} \cup Elements(Tail(inputs))
      /\ Ordered(inputs) =>
           Ordered(Tail(inputs)) /\ Before({Head(inputs)}, Elements(Tail(inputs)))
  BY <1>1, ElementsTail
<1>3. /\ Elements(computing') = {Head(inputs)} /\ Ordered(computing')
      /\ Len(computing') = 1 /\ computing' \in Seq(Summary)
      /\ Elements(computing) = {}
  BY <1>1, <1>2, OneElement, NoElements
<1>4. Elements(inputs') = Elements(Tail(inputs)) /\ Ordered(inputs') = Ordered(Tail(inputs))
  BY <1>1
<1>5. WorkerTypeOK'
  BY <1>1, <1>2, <1>3 DEF WorkerIInv, WorkerTypeOK, WorkerTakes
<1>6. ThreadShape' /\ WorkerBooksBalance'
  BY <1>1, <1>2, <1>3
     DEF WorkerIInv, WorkerTypeOK, ThreadShape, WorkerBooksBalance, WorkerTakes
<1>7. /\ taken' = taken /\ results' = results /\ issued' = issued /\ attempted' = attempted
  BY DEF WorkerTakes
<1>8. LineInOrder' /\ Issued'
  BY <1>2, <1>3, <1>4, <1>7 DEF WorkerIInv, LineInOrder, Issued, Before
<1> QED
  BY <1>5, <1>6, <1>8 DEF WorkerIInv

LEMMA WorkerStoresStep == WorkerIInv /\ WorkerStores => WorkerIInv'
<1> SUFFICES ASSUME WorkerIInv, WorkerStores PROVE WorkerIInv'
  OBVIOUS
<1> USE DEF flagVars, countVars
<1> DEFINE stored == results \o computing
<1>1. /\ native = "computing" /\ Len(computing) = 1 /\ computing' = <<>>
      /\ results \in Seq(Summary) /\ computing \in Seq(Summary)
      /\ native' = "checking" /\ inputs' = inputs /\ taken' = taken
      /\ issued' = issued /\ attempted' = attempted
  BY DEF WorkerIInv, WorkerTypeOK, ThreadShape, WorkerStores
<1>2. /\ stored \in Seq(Summary) /\ Len(stored) = Len(results) + Len(computing)
      /\ Elements(stored) = Elements(results) \cup Elements(computing)
      /\ Ordered(stored) <=> /\ Ordered(results) /\ Ordered(computing)
                             /\ Before(Elements(results), Elements(computing))
  BY <1>1, ElementsConcat
<1>3. \/ results' = stored /\ evicted' = evicted
      \/ results' = Tail(stored) /\ evicted' = evicted + 1
  BY DEF WorkerStores
<1> HIDE DEF stored
<1>4. stored # <<>>
  BY <1>1, <1>2 DEF WorkerIInv, WorkerTypeOK
<1>5. /\ Tail(stored) \in Seq(Summary) /\ Len(Tail(stored)) = Len(stored) - 1
      /\ Elements(Tail(stored)) \subseteq Elements(stored)
      /\ Ordered(stored) => Ordered(Tail(stored))
  BY <1>2, <1>4, ElementsTail
<1>6. /\ results' \in Seq(Summary) /\ Len(results') + evicted' = Len(stored) + evicted
      /\ Elements(results') \subseteq Elements(stored)
      /\ Ordered(stored) => Ordered(results')
      /\ evicted' \in Nat
  <2>1. /\ evicted \in Nat /\ Len(stored) \in Nat /\ Len(Tail(stored)) \in Nat
        /\ Len(Tail(stored)) + (evicted + 1) = Len(stored) + evicted
    <3> DEFINE m == Len(Tail(stored))
               n == Len(stored)
    <3>1. evicted \in Nat
      BY DEF WorkerIInv, WorkerTypeOK
    <3>2. m \in Nat /\ n \in Nat /\ m = n - 1
      BY <1>2, <1>5
    <3> HIDE DEF m, n
    <3>3. m + (evicted + 1) = n + evicted
      BY <3>1, <3>2
    <3> QED
      BY <3>1, <3>2, <3>3 DEF m, n
  <2>2. CASE results' = stored /\ evicted' = evicted
    BY <1>2, <2>1, <2>2
  <2>3. CASE results' = Tail(stored) /\ evicted' = evicted + 1
    BY <1>5, <2>1, <2>3
  <2> QED
    BY <1>3, <2>2, <2>3
<1>7. WorkerTypeOK'
  BY <1>1, <1>6 DEF WorkerIInv, WorkerTypeOK, WorkerStores
<1>8. ThreadShape'
  BY <1>1 DEF WorkerIInv, ThreadShape, WorkerStores
<1>9. WorkerBooksBalance'
  <2>1. /\ completed' = completed + 1 /\ attempted' = attempted /\ accepted' = accepted
        /\ rejected' = rejected /\ failed' = failed /\ cancelled' = cancelled
        /\ Len(computing') = 0
        /\ Len(inputs') = Len(inputs) /\ Len(taken') = Len(taken)
    BY <1>1 DEF WorkerStores
  <2>2. /\ Len(results) \in Nat /\ Len(results') \in Nat /\ Len(taken) \in Nat
        /\ Len(inputs) \in Nat
    BY <1>6 DEF WorkerIInv, WorkerTypeOK
  <2>3. Len(results') + evicted' = Len(results) + 1 + evicted /\ Len(computing) = 1
    BY <1>1, <1>2, <1>6
  <2>4. /\ attempted \in Nat /\ accepted \in Nat /\ rejected \in Nat
        /\ completed \in Nat /\ failed \in Nat /\ cancelled \in Nat
        /\ evicted \in Nat /\ evicted' \in Nat
        /\ WorkerBooksBalance
    BY <1>6 DEF WorkerIInv, WorkerTypeOK
  <2> DEFINE waiting == Len(inputs)
             delivered == Len(taken)
             kept == Len(results)
             kept2 == Len(results')
  <2>5. /\ waiting \in Nat /\ delivered \in Nat /\ kept \in Nat /\ kept2 \in Nat
        /\ kept2 + evicted' = kept + 1 + evicted
        /\ accepted = completed + failed + cancelled + waiting + 1
        /\ completed = delivered + kept + evicted
    BY <2>2, <2>3, <2>4 DEF WorkerBooksBalance
  <2> HIDE DEF waiting, delivered, kept, kept2
  <2>6. completed' = completed + 1
    BY <2>1
  <2>7. completed' = delivered + kept2 + evicted'
    <3>1. completed + 1 = delivered + (kept + 1 + evicted)
      BY <2>4, <2>5
    <3>2. delivered + kept2 + evicted' = delivered + (kept2 + evicted')
      BY <2>4, <2>5
    <3> QED
      BY <2>5, <2>6, <3>1, <3>2
  <2>8. accepted' = completed' + failed' + cancelled' + waiting + 0
    <3>1. accepted' = accepted /\ failed' = failed /\ cancelled' = cancelled
      BY <2>1
    <3>2. accepted = (completed + 1) + failed + cancelled + waiting + 0
      BY <2>4, <2>5
    <3> QED
      BY <2>6, <3>1, <3>2
  <2> QED
    BY <2>1, <2>4, <2>7, <2>8 DEF WorkerBooksBalance, waiting, delivered, kept2
<1>10. /\ Elements(computing') = {} /\ Ordered(computing')
  BY <1>1, NoElements
<1>11. LineInOrder'
  BY <1>1, <1>2, <1>6, <1>10 DEF WorkerIInv, LineInOrder, Before
<1>12. Issued'
  BY <1>1, <1>2, <1>6, <1>10 DEF WorkerIInv, Issued
<1> QED
  BY <1>7, <1>8, <1>9, <1>11, <1>12 DEF WorkerIInv

LEMMA WorkerEndsStep == WorkerIInv /\ (WorkerFails \/ WorkerEnds \/ WorkerBlocks) => WorkerIInv'
<1> SUFFICES ASSUME WorkerIInv, WorkerFails \/ WorkerEnds \/ WorkerBlocks
             PROVE  WorkerIInv'
  OBVIOUS
<1> USE DEF flagVars, countVars
<1>1. CASE WorkerFails
  <2>1. /\ native = "computing" /\ Len(computing) = 1
        /\ inputs' = <<>> /\ computing' = <<>>
        /\ Len(inputs) \in Nat
    BY <1>1 DEF WorkerIInv, WorkerTypeOK, ThreadShape, WorkerFails
  <2>2. WorkerTypeOK'
    <3>1. running' \in BOOLEAN /\ closed' \in BOOLEAN /\ gated' \in BOOLEAN
      BY <1>1, Zenon DEF WorkerFails
    <3>2. /\ failed' \in Nat /\ cancelled' \in Nat
          /\ inputs' \in Seq(Summary) /\ computing' \in Seq(Summary)
      BY <1>1, <2>1 DEF WorkerIInv, WorkerTypeOK, WorkerFails
    <3> QED
      BY <1>1, <3>1, <3>2 DEF WorkerIInv, WorkerTypeOK, WorkerFails
  <2>3. ThreadShape' /\ WorkerBooksBalance'
    BY <1>1, <2>1 DEF WorkerIInv, WorkerTypeOK, ThreadShape, WorkerBooksBalance, WorkerFails
  <2>4. /\ Elements(computing') = {} /\ Ordered(computing')
        /\ Elements(inputs') = {} /\ Ordered(inputs')
        /\ taken' = taken /\ results' = results /\ issued' = issued
        /\ attempted' = attempted
    BY <1>1, <2>1, NoElements DEF WorkerFails
  <2>5. LineInOrder' /\ Issued'
    BY <2>4 DEF WorkerIInv, LineInOrder, Issued, Before
  <2> QED
    BY <2>2, <2>3, <2>5 DEF WorkerIInv
<1>2. CASE WorkerEnds \/ WorkerBlocks
  <2>1. WorkerTypeOK' /\ ThreadShape'
    BY <1>2 DEF WorkerIInv, WorkerTypeOK, ThreadShape, WorkerEnds, WorkerBlocks
  <2>2. WorkerBooksBalance' /\ LineInOrder' /\ Issued'
    BY <1>2 DEF WorkerIInv, WorkerBooksBalance, LineInOrder, Issued, Elements, Ordered,
       WorkerEnds, WorkerBlocks
  <2> QED
    BY <2>1, <2>2 DEF WorkerIInv
<1> QED
  BY <1>1, <1>2

LEMMA SubmitStep == WorkerIInv /\ Submit => WorkerIInv'
<1> SUFFICES ASSUME WorkerIInv, Submit PROVE WorkerIInv'
  OBVIOUS
<1> USE DEF flagVars, countVars
<1> DEFINE input == [sequence |-> attempted, version |-> version]
<1>1. /\ issued \in Seq(Nat) /\ version \in Nat /\ Len(issued) = attempted
      /\ attempted \in Nat /\ inputs \in Seq(Summary) /\ input \in Summary
      /\ issued' = Append(issued, version) /\ attempted' = attempted + 1
      /\ native' \in {native, IF native = "blocked" THEN "checking" ELSE native}
      /\ UNCHANGED <<taken, results, computing, running, closed>>
  BY DEF WorkerIInv, WorkerTypeOK, Issued, Submit, Summary, NotifyAll
<1>2. /\ issued' \in Seq(Nat) /\ Len(issued') = attempted + 1
      /\ issued'[attempted + 1] = version
      /\ \A i \in 1 .. attempted : issued'[i] = issued[i]
  BY <1>1, AppendProperties
<1>3. \A x \in Summary : x.sequence < attempted /\ x.version = issued[x.sequence + 1]
        => x.sequence < attempted' /\ x.version = issued'[x.sequence + 1]
  <2> SUFFICES ASSUME NEW x \in Summary, x.sequence < attempted
               PROVE  x.sequence < attempted' /\ issued'[x.sequence + 1] = issued[x.sequence + 1]
    OBVIOUS
  <2>1. x.sequence \in Nat /\ x.sequence + 1 \in 1 .. attempted
    BY <1>1 DEF Summary
  <2> QED
    BY <1>1, <1>2, <2>1
<1>4. /\ Elements(taken) \subseteq Summary /\ Elements(results) \subseteq Summary
      /\ Elements(computing) \subseteq Summary /\ Elements(inputs) \subseteq Summary
  BY ElementsType DEF WorkerIInv, WorkerTypeOK
<1>5. /\ Elements(taken') = Elements(taken) /\ Ordered(taken') = Ordered(taken)
      /\ Elements(results') = Elements(results) /\ Ordered(results') = Ordered(results)
      /\ Elements(computing') = Elements(computing)
      /\ Ordered(computing') = Ordered(computing)
  BY <1>1
<1>6. CASE Len(inputs) >= QueueCapacity
  <2>1. /\ UNCHANGED <<accepted, inputs, native>> /\ rejected' = rejected + 1
    BY <1>6 DEF Submit
  <2>2. /\ native' = native /\ rejected' = rejected + 1 /\ accepted' = accepted
        /\ Len(inputs') = Len(inputs) /\ Len(computing') = Len(computing)
        /\ UNCHANGED <<completed, failed, cancelled, evicted, gated, stopping, draining,
                       version, taken, results>>
        /\ inputs' \in Seq(Summary)
    BY <1>1, <2>1 DEF Submit
  <2>3. Elements(inputs') = Elements(inputs) /\ Ordered(inputs') = Ordered(inputs)
    BY <2>1
  <2>4. LineInOrder'
    BY <1>5, <2>3 DEF WorkerIInv, LineInOrder
  <2>5. Issued'
    BY <1>1, <1>2, <1>3, <1>4, <1>5, <2>3 DEF WorkerIInv, Issued
  <2>6. WorkerTypeOK'
    BY <1>1, <1>2, <2>2 DEF WorkerIInv, WorkerTypeOK
  <2>7. ThreadShape'
    BY <1>1, <2>2 DEF WorkerIInv, ThreadShape
  <2>8. WorkerBooksBalance'
    BY <1>1, <2>2 DEF WorkerIInv, WorkerTypeOK, WorkerBooksBalance
  <2> QED
    BY <2>4, <2>5, <2>6, <2>7, <2>8 DEF WorkerIInv
<1>7. CASE ~(Len(inputs) >= QueueCapacity)
  <2>1. /\ inputs' = Append(inputs, input) /\ accepted' = accepted + 1
        /\ rejected' = rejected
        /\ native' = IF native = "blocked" THEN "checking" ELSE native
    BY <1>7 DEF Submit, NotifyAll
  <2>2. /\ input.sequence = attempted /\ input.version = version
    OBVIOUS
  <2> HIDE DEF input
  <2>3. /\ inputs' \in Seq(Summary) /\ Len(inputs') = Len(inputs) + 1
        /\ Elements(inputs') = Elements(inputs) \cup {input}
        /\ Ordered(inputs) /\ Before(Elements(inputs), {input}) => Ordered(inputs')
    BY <1>1, <2>1, ElementsAppend
  <2>4. /\ Len(computing') = Len(computing)
        /\ UNCHANGED <<completed, failed, cancelled, evicted, gated, stopping, draining,
                       version, taken, results>>
    BY <1>1, <2>1 DEF Submit
  <2>5. \A x \in Elements(taken) \cup Elements(results) \cup Elements(computing)
                   \cup Elements(inputs) : x.sequence < input.sequence
    BY <2>2 DEF WorkerIInv, Issued
  <2>6. LineInOrder'
    BY <1>5, <2>3, <2>5 DEF WorkerIInv, LineInOrder, Before
  <2>7. input.sequence < attempted' /\ input.version = issued'[input.sequence + 1]
    BY <1>1, <1>2, <2>2
  <2>8. Issued'
    BY <1>1, <1>2, <1>3, <1>4, <1>5, <2>3, <2>7 DEF WorkerIInv, Issued
  <2>9. WorkerTypeOK'
    BY <1>1, <1>2, <2>1, <2>3, <2>4 DEF WorkerIInv, WorkerTypeOK
  <2>10. ThreadShape'
    BY <1>1, <2>1, <2>3, <2>4 DEF WorkerIInv, ThreadShape
  <2>11. WorkerBooksBalance'
    BY <1>1, <2>1, <2>3, <2>4 DEF WorkerIInv, WorkerTypeOK, WorkerBooksBalance
  <2> QED
    BY <2>6, <2>8, <2>9, <2>10, <2>11 DEF WorkerIInv
<1> QED
  BY <1>6, <1>7

LEMMA TakesStep == WorkerIInv /\ (TakeResults \/ DrainTakes) => WorkerIInv'
<1> SUFFICES ASSUME WorkerIInv, TakeResults \/ DrainTakes PROVE WorkerIInv'
  OBVIOUS
<1> USE DEF flagVars, countVars
<1>1. /\ taken' = taken \o results /\ results' = <<>>
      /\ taken \in Seq(Summary) /\ results \in Seq(Summary)
      /\ UNCHANGED <<flagVars, inputs, computing, version, countVars, native,
                     stopping, issued>>
      /\ draining' \in {draining, "no"}
  BY DEF WorkerIInv, WorkerTypeOK, TakeResults, DrainTakes
<1>2. /\ taken' \in Seq(Summary) /\ Len(taken') = Len(taken) + Len(results)
      /\ Elements(taken') = Elements(taken) \cup Elements(results)
      /\ Ordered(taken') <=> /\ Ordered(taken) /\ Ordered(results)
                             /\ Before(Elements(taken), Elements(results))
  BY <1>1, ElementsConcat
<1>3. Elements(results') = {} /\ Ordered(results')
  BY <1>1, NoElements
<1>4. WorkerTypeOK' /\ ThreadShape'
  BY <1>1, <1>2 DEF WorkerIInv, WorkerTypeOK, ThreadShape
<1>5. WorkerBooksBalance'
  BY <1>1, <1>2 DEF WorkerIInv, WorkerTypeOK, WorkerBooksBalance
<1>6. /\ Elements(computing') = Elements(computing)
      /\ Ordered(computing') = Ordered(computing)
      /\ Elements(inputs') = Elements(inputs) /\ Ordered(inputs') = Ordered(inputs)
      /\ issued' = issued /\ attempted' = attempted
  BY <1>1
<1>7. LineInOrder' /\ Issued'
  BY <1>2, <1>3, <1>6 DEF WorkerIInv, LineInOrder, Issued, Before
<1> QED
  BY <1>4, <1>5, <1>7 DEF WorkerIInv

LEMMA FlagsStep ==
    WorkerIInv /\ \/ StartWorker \/ UpdateScale \/ SetGate \/ DrainBegins \/ DrainIsIdle
                  \/ DrainTimesOut \/ StopBegins \/ StopReturns \/ UNCHANGED workerVars
      => WorkerIInv'
<1> SUFFICES ASSUME WorkerIInv,
                    \/ StartWorker \/ UpdateScale \/ SetGate \/ DrainBegins
                    \/ DrainIsIdle \/ DrainTimesOut \/ StopBegins \/ StopReturns
                    \/ UNCHANGED workerVars
             PROVE  WorkerIInv'
  OBVIOUS
<1> USE DEF flagVars, countVars, workerVars
<1>1. /\ UNCHANGED <<inputs, computing, results, countVars, issued, taken>>
      /\ version' \in {version, version + 1}
      /\ stopping' \in {stopping, "joining", "returned"}
      /\ draining' \in {draining, "no", "waiting", "idle"}
  BY DEF StartWorker, UpdateScale, SetGate, DrainBegins, DrainIsIdle, DrainTimesOut,
     StopBegins, StopReturns
<1>2. running' \in BOOLEAN /\ closed' \in BOOLEAN /\ gated' \in BOOLEAN
  BY DEF WorkerIInv, WorkerTypeOK, StartWorker, UpdateScale, SetGate, DrainBegins,
     DrainIsIdle, DrainTimesOut, StopBegins, StopReturns
<1>3. ThreadShape' /\ native' \in {"none", "checking", "blocked", "computing", "exited"}
  BY DEF WorkerIInv, WorkerTypeOK, ThreadShape, NotifyAll, StartWorker, UpdateScale,
     SetGate, DrainBegins, DrainIsIdle, DrainTimesOut, StopBegins, StopReturns
<1>4. WorkerTypeOK'
  BY <1>1, <1>2, <1>3 DEF WorkerIInv, WorkerTypeOK
<1>5. WorkerBooksBalance' /\ LineInOrder' /\ Issued'
  BY <1>1 DEF WorkerIInv, WorkerBooksBalance, LineInOrder, Issued, Elements, Ordered
<1> QED
  BY <1>3, <1>4, <1>5 DEF WorkerIInv

LEMMA WorkerIInvStep == WorkerIInv /\ [WorkerNext]_workerVars => WorkerIInv'
BY WorkerTakesStep, WorkerStoresStep, WorkerEndsStep, SubmitStep, TakesStep, FlagsStep
   DEF WorkerNext, NativeStep, SupervisorStep

LEMMA InductiveWorkerIInv == WorkerSpec => []WorkerIInv
BY InitWorkerIInv, WorkerIInvStep, PTL DEF WorkerSpec

-----------------------------------------------------------------------------
(* The theorems.                                                           *)

\* The worker's variables keep their types, whoever starts, stops, submits and
\* drains.
THEOREM WorkerTypeCorrect == WorkerSpec => []WorkerTypeOK
<1>1. WorkerIInv => WorkerTypeOK
  BY DEF WorkerIInv
<1> QED
  BY <1>1, InductiveWorkerIInv, PTL

\* No drop, eviction, failure, drain or stop takes the counters out of balance,
\* and summaries reach Python in order, each with the settings of its submission.
THEOREM WorkerKeepsBooks == WorkerSpec => []WorkerKeepsItsBooks
<1>1. WorkerIInv => WorkerKeepsItsBooks
  <2> SUFFICES ASSUME WorkerIInv PROVE SummariesMatchSubmissions
    BY DEF WorkerIInv, WorkerKeepsItsBooks
  <2> DEFINE a == taken \o results
             b == a \o computing
             c == b \o inputs
  <2>1. /\ taken \in Seq(Summary) /\ results \in Seq(Summary)
        /\ computing \in Seq(Summary) /\ inputs \in Seq(Summary)
    BY DEF WorkerIInv, WorkerTypeOK
  <2>2. /\ a \in Seq(Summary) /\ Elements(a) = Elements(taken) \cup Elements(results)
        /\ Ordered(a)
    BY <2>1, ElementsConcat DEF WorkerIInv, LineInOrder, Before
  <2> HIDE DEF a
  <2>3. /\ b \in Seq(Summary) /\ Elements(b) = Elements(a) \cup Elements(computing)
        /\ Ordered(b)
    BY <2>1, <2>2, ElementsConcat DEF WorkerIInv, LineInOrder, Before
  <2> HIDE DEF b
  <2>4. /\ c \in Seq(Summary) /\ Elements(c) = Elements(b) \cup Elements(inputs)
        /\ Ordered(c)
    BY <2>1, <2>2, <2>3, ElementsConcat DEF WorkerIInv, LineInOrder, Before
  <2> HIDE DEF c
  <2>5. /\ \A i \in DOMAIN c : c[i].version = issued[c[i].sequence + 1]
        /\ \A i, j \in DOMAIN c : i < j => c[i].sequence < c[j].sequence
    <3>1. DOMAIN c = 1 .. Len(c)
      BY <2>4
    <3>2. \A i \in DOMAIN c : c[i] \in Elements(c)
      BY <3>1 DEF Elements
    <3>3. \A x \in Elements(c) : x.version = issued[x.sequence + 1]
      BY <2>2, <2>3, <2>4 DEF WorkerIInv, Issued
    <3> QED
      BY <2>4, <3>1, <3>2, <3>3 DEF Ordered
  <2> QED
    BY <2>5 DEF SummariesMatchSubmissions, c, b, a
<1> QED
  BY <1>1, InductiveWorkerIInv, PTL
=============================================================================
