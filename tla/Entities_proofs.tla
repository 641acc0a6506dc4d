-------------------------- MODULE Entities_proofs --------------------------
(***************************************************************************)
(* Proofs about the entities of a native node, where calls go out and come *)
(* in: NativeClient for any number of calls and failures, Services and     *)
(* PythonCallbacks for any finite set of threads, NativeLifecycle for any  *)
(* executors, NativeParameters for any threads, BorrowedPublish for any    *)
(* number of publishes, NativeActionClient for any goals and feedback.     *)
(***************************************************************************)
EXTENDS NativeClient, Services, PythonCallbacks, NativeLifecycle,
        NativeParameters, BorrowedPublish, NativeActionClient,
        FiniteSetTheorems, SequenceTheorems, TLAPS

-----------------------------------------------------------------------------
(* NativeClient: the books of a client.                                    *)

\* Tokens are never reused: nothing is known of one not handed out yet, and
\* rclcpp no longer waits for a request whose response it is handling.
TokensAreFresh ==
    /\ \A t \in Calls : t >= next_call => future[t] = "none"
    /\ answering # NoCall => answering < next_call /\ answering \notin rcl_pending

ClientIInv ==
    NativeClientTypeOK /\ NoLeakedCall /\ CallsAccountedFor /\ TokensAreFresh

-----------------------------------------------------------------------------
\* The records are finitely many: there are at most MaxCalls tokens.
LEMMA PendingIsFinite == IsFiniteSet(PendingCalls)
<1>1. IsFiniteSet(Calls)
  BY ClientBounds, FS_Interval DEF Calls
<1> QED
  BY <1>1, FS_Subset DEF PendingCalls

\* A record added counts one more, a record dropped one less.
LEMMA RecordAdded ==
    ASSUME NEW t \in Calls, t \notin PendingCalls,
           PendingCalls' = PendingCalls \cup {t}
    PROVE  Cardinality(PendingCalls') = Cardinality(PendingCalls) + 1
BY PendingIsFinite, FS_AddElement

LEMMA RecordDropped ==
    ASSUME NEW t \in PendingCalls, PendingCalls' = PendingCalls \ {t}
    PROVE  /\ Cardinality(PendingCalls) \in Nat
           /\ Cardinality(PendingCalls') \in Nat
           /\ Cardinality(PendingCalls) = Cardinality(PendingCalls') + 1
<1>1. Cardinality(PendingCalls') = Cardinality(PendingCalls) - 1
  BY PendingIsFinite, FS_RemoveElement
<1>2. /\ Cardinality(PendingCalls) \in Nat
      /\ IsFiniteSet(PendingCalls')
  BY PendingIsFinite, FS_CardinalityType, FS_RemoveElement
<1>3. Cardinality(PendingCalls') \in Nat
  BY <1>2, FS_CardinalityType
<1> QED
  BY <1>1, <1>2, <1>3

\* Counting one more of what was sent, or of an end of a call.
LEMMA Bumped ==
    ASSUME NativeClientTypeOK, NEW c \in CallCounters, Bump(c)
    PROVE  /\ call_counts' \in [CallCounters -> Nat]
           /\ call_counts'[c] = call_counts[c] + 1
           /\ \A d \in CallCounters \ {c} : call_counts'[d] = call_counts[d]
BY DEF NativeClientTypeOK, Bump

LEMMA CounterNames ==
    {"sent", "taken", "canceled", "failed", "broken"} \subseteq CallCounters
BY DEF CallCounters

-----------------------------------------------------------------------------
LEMMA InitClientIInv == NativeClientInit => ClientIInv
<1> SUFFICES ASSUME NativeClientInit PROVE ClientIInv
  OBVIOUS
<1>1. NativeClientTypeOK
  BY ClientBounds DEF NativeClientInit, NativeClientTypeOK, Calls
<1>2. NoLeakedCall /\ TokensAreFresh
  BY DEF NativeClientInit, NoLeakedCall, TokensAreFresh
<1>3. CallsAccountedFor
  <2>1. PendingCalls = {}
    BY DEF NativeClientInit, PendingCalls
  <2> QED
    BY <2>1, FS_EmptySet DEF NativeClientInit, CallsAccountedFor, CallCounters
<1> QED
  BY <1>1, <1>2, <1>3 DEF ClientIInv

\* Send: the token is fresh, so the record is a new one.
LEMMA SendStep == ClientIInv /\ Send => ClientIInv'
<1> SUFFICES ASSUME ClientIInv, Send PROVE ClientIInv'
  OBVIOUS
<1> USE DEF ClientIInv
<1>1. next_call \in Calls /\ future[next_call] = "none" /\ next_call \in Nat
  BY DEF Send, TokensAreFresh, Calls
<1>2. CASE /\ future' = [future EXCEPT ![next_call] = "waiting"]
           /\ rcl_pending' = rcl_pending \cup {next_call}
           /\ Bump("sent")
  <2>1. NativeClientTypeOK'
    BY <1>1, <1>2, Bumped, CounterNames, ClientBounds
       DEF Send, NativeClientTypeOK, Calls
  <2>2. NoLeakedCall'
    BY <1>1, <1>2 DEF Send, NoLeakedCall, NativeClientTypeOK
  <2>3. TokensAreFresh'
    BY <1>1, <1>2 DEF Send, TokensAreFresh, NativeClientTypeOK, Calls, NoCall
  <2>4. PendingCalls' = PendingCalls \cup {next_call}
    BY <1>1, <1>2 DEF PendingCalls, NativeClientTypeOK
  <2>5. Cardinality(PendingCalls') = Cardinality(PendingCalls) + 1
    BY <1>1, <2>4, RecordAdded DEF PendingCalls
  <2>6. Cardinality(PendingCalls) \in Nat
    BY PendingIsFinite, FS_CardinalityType
  <2>7. CallsAccountedFor'
    BY <1>2, <2>5, <2>6, Bumped, CounterNames
       DEF CallsAccountedFor, NativeClientTypeOK
  <2> QED
    BY <2>1, <2>2, <2>3, <2>7
<1>3. CASE Bump("failed") /\ UNCHANGED <<future, rcl_pending>>
  <2>1. NativeClientTypeOK'
    BY <1>1, <1>3, Bumped, CounterNames, ClientBounds
       DEF Send, NativeClientTypeOK, Calls
  <2>2. NoLeakedCall' /\ TokensAreFresh'
    BY <1>1, <1>3 DEF Send, NoLeakedCall, TokensAreFresh, NativeClientTypeOK,
       Calls, NoCall
  <2>3. PendingCalls' = PendingCalls
    BY <1>3 DEF PendingCalls
  <2>4. CallsAccountedFor'
    BY <1>3, <2>3, Bumped, CounterNames
       DEF CallsAccountedFor, NativeClientTypeOK
  <2> QED
    BY <2>1, <2>2, <2>4
<1> QED
  BY <1>2, <1>3 DEF Send

\* Take and Cancel drop one record and count one end.
LEMMA RecordEnds ==
    ASSUME ClientIInv, NEW t \in PendingCalls,
           NEW c \in {"taken", "broken", "canceled"}, Bump(c),
           future' = [future EXCEPT ![t] = "none"]
    PROVE  /\ CallsAccountedFor'
           /\ future' \in [Calls -> {"none", "waiting", "answered", "broken"}]
           /\ call_counts' \in [CallCounters -> Nat]
<1> USE DEF ClientIInv
<1>1. PendingCalls' = PendingCalls \ {t}
  BY DEF PendingCalls, NativeClientTypeOK
<1>2. /\ Cardinality(PendingCalls) \in Nat
      /\ Cardinality(PendingCalls') \in Nat
      /\ Cardinality(PendingCalls) = Cardinality(PendingCalls') + 1
  BY <1>1, RecordDropped
<1>3. /\ call_counts' \in [CallCounters -> Nat]
      /\ call_counts'[c] = call_counts[c] + 1
      /\ \A d \in CallCounters \ {c} : call_counts'[d] = call_counts[d]
  BY Bumped, CounterNames
<1>4. CallsAccountedFor'
  BY <1>2, <1>3, CounterNames DEF CallsAccountedFor, NativeClientTypeOK
<1> QED
  BY <1>3, <1>4 DEF PendingCalls, NativeClientTypeOK

LEMMA TakeStep ==
    ASSUME ClientIInv, NEW t \in Calls, Take(t) PROVE ClientIInv'
<1> USE DEF ClientIInv
<1>1. PICK c \in {"taken", "broken"} : Bump(c)
  BY DEF Take
<1>2. t \in PendingCalls
  BY DEF Take, PendingCalls
<1>3. /\ CallsAccountedFor'
      /\ future' \in [Calls -> {"none", "waiting", "answered", "broken"}]
      /\ call_counts' \in [CallCounters -> Nat]
  BY <1>1, <1>2, RecordEnds DEF Take
<1>4. NativeClientTypeOK'
  BY <1>3 DEF Take, NativeClientTypeOK
<1>5. NoLeakedCall' /\ TokensAreFresh'
  BY DEF Take, NoLeakedCall, TokensAreFresh, NativeClientTypeOK
<1> QED
  BY <1>3, <1>4, <1>5

LEMMA CancelStep ==
    ASSUME ClientIInv, NEW t \in Calls, Cancel(t) PROVE ClientIInv'
<1> USE DEF ClientIInv
<1>1. /\ CallsAccountedFor'
      /\ future' \in [Calls -> {"none", "waiting", "answered", "broken"}]
      /\ call_counts' \in [CallCounters -> Nat]
  BY RecordEnds DEF Cancel
<1>2. NativeClientTypeOK'
  BY <1>1 DEF Cancel, NativeClientTypeOK
<1>3. NoLeakedCall' /\ TokensAreFresh'
  BY DEF Cancel, NoLeakedCall, TokensAreFresh, NativeClientTypeOK
<1> QED
  BY <1>1, <1>2, <1>3

\* Close cancels every record at once.
LEMMA CloseStep == ClientIInv /\ NativeClientClose => ClientIInv'
<1> SUFFICES ASSUME ClientIInv, NativeClientClose PROVE ClientIInv'
  OBVIOUS
<1> USE DEF ClientIInv
<1>1. Cardinality(PendingCalls) \in Nat
  BY PendingIsFinite, FS_CardinalityType
<1>2. NativeClientTypeOK'
  <2>1. call_counts' \in [CallCounters -> Nat]
    BY <1>1 DEF NativeClientClose, NativeClientTypeOK
  <2>2. UNCHANGED <<next_call, answering>> /\ client_open' \in BOOLEAN
    BY DEF NativeClientClose
  <2>3. /\ future' \in [Calls -> {"none", "waiting", "answered", "broken"}]
        /\ rcl_pending' \subseteq Calls
    BY DEF NativeClientClose, NativeClientTypeOK
  <2> QED
    BY <2>1, <2>2, <2>3 DEF NativeClientTypeOK
<1>3. NoLeakedCall' /\ TokensAreFresh'
  BY DEF NativeClientClose, NoLeakedCall, TokensAreFresh, PendingCalls,
     NativeClientTypeOK
<1>4. PendingCalls' = {}
  BY DEF NativeClientClose, PendingCalls
<1>5. CallsAccountedFor'
  BY <1>1, <1>4, FS_EmptySet, CounterNames
     DEF NativeClientClose, CallsAccountedFor, NativeClientTypeOK
<1> QED
  BY <1>2, <1>3, <1>5

\* What rclcpp and the user of raw_client do never changes which records
\* there are.
LEMMA OutsideStep ==
    ASSUME ClientIInv,
           \/ FulfilPromise
           \/ \E t \in Calls : ResponseArrives(t) \/ PruneThroughRawClient(t)
    PROVE  ClientIInv'
<1> USE DEF ClientIInv
<1>1. CASE FulfilPromise
  <2>1. answering \in Calls
    BY <1>1 DEF FulfilPromise, NativeClientTypeOK
  <2>2. NativeClientTypeOK'
    BY <1>1 DEF FulfilPromise, NativeClientTypeOK
  <2>3. NoLeakedCall' /\ TokensAreFresh'
    BY <1>1, <2>1 DEF FulfilPromise, NoLeakedCall, TokensAreFresh, NativeClientTypeOK
  <2>4. PendingCalls' = PendingCalls
    BY <1>1, <2>1 DEF FulfilPromise, PendingCalls, NativeClientTypeOK
  <2> QED
    BY <1>1, <2>2, <2>3, <2>4 DEF FulfilPromise, CallsAccountedFor
<1>2. ASSUME NEW t \in Calls, ResponseArrives(t)
      PROVE  ClientIInv'
  <2>1. t < next_call /\ future[t] = "waiting"
    BY <1>2 DEF ResponseArrives, NoLeakedCall, TokensAreFresh,
       NativeClientTypeOK, Calls
  <2>2. /\ rcl_pending' = rcl_pending \ {t} /\ answering' = t /\ answering = NoCall
        /\ UNCHANGED <<next_call, future, client_open, call_counts>>
    BY <1>2 DEF ResponseArrives
  <2>3. NativeClientTypeOK' /\ TokensAreFresh'
    BY <2>1, <2>2 DEF TokensAreFresh, NativeClientTypeOK
  <2>4. NoLeakedCall'
    BY <2>1, <2>2 DEF NoLeakedCall, NativeClientTypeOK, Calls, NoCall
  <2>5. PendingCalls' = PendingCalls
    BY <2>2 DEF PendingCalls
  <2> QED
    BY <2>2, <2>3, <2>4, <2>5 DEF CallsAccountedFor
<1>3. ASSUME NEW t \in Calls, PruneThroughRawClient(t)
      PROVE  ClientIInv'
  <2>1. t < next_call /\ future[t] = "waiting"
    BY <1>3 DEF PruneThroughRawClient, NoLeakedCall, TokensAreFresh,
       NativeClientTypeOK, Calls
  <2>2. NativeClientTypeOK' /\ NoLeakedCall' /\ TokensAreFresh'
    BY <1>3, <2>1 DEF PruneThroughRawClient, NoLeakedCall, TokensAreFresh,
       NativeClientTypeOK, Calls
  <2>3. PendingCalls' = PendingCalls
    BY <1>3, <2>1 DEF PruneThroughRawClient, PendingCalls, NativeClientTypeOK
  <2> QED
    BY <1>3, <2>2, <2>3 DEF PruneThroughRawClient, CallsAccountedFor
<1> QED
  BY <1>1, <1>2, <1>3

LEMMA StepClientIInv == ClientIInv /\ [NativeClientNext]_clientVars => ClientIInv'
<1> SUFFICES ASSUME ClientIInv, [NativeClientNext]_clientVars PROVE ClientIInv'
  OBVIOUS
<1>1. CASE UNCHANGED clientVars
  BY <1>1 DEF clientVars, ClientIInv, NativeClientTypeOK, NoLeakedCall,
     CallsAccountedFor, PendingCalls, TokensAreFresh
<1>2. CASE NativeClientNext
  BY <1>2, SendStep, TakeStep, CancelStep, CloseStep, OutsideStep
     DEF NativeClientNext
<1> QED
  BY <1>1, <1>2

LEMMA InductiveClientIInv == NativeClientSpec => []ClientIInv
BY InitClientIInv, StepClientIInv, PTL DEF NativeClientSpec

-----------------------------------------------------------------------------
\* The type invariant of the service client's adapter.
THEOREM ClientTypeCorrect == NativeClientSpec => []NativeClientTypeOK
BY InductiveClientIInv, PTL DEF ClientIInv

\* However a cancel, a prune and a late response cross, every call of a
\* service client ends once and leaves nothing in rclcpp's pending map.
THEOREM CallsSettleAlways == NativeClientSpec => []CallsSettle
<1>1. ClientIInv => CallsSettle
  BY DEF ClientIInv, CallsSettle
<1> QED
  BY <1>1, InductiveClientIInv, PTL

\* A step that leaves what a call amounts to alone.
LEMMA CallsStay ==
    ASSUME next_call' = next_call,
           \A t \in Calls : future'[t] = "none" <=> future[t] = "none"
    PROVE  CallState' = CallState
BY DEF CallState

\* What a call amounts to, where the numbers are known to be numbers.
LEMMA CallStateIs ==
    ASSUME ClientIInv
    PROVE  /\ \A t \in Calls : /\ t \in Nat /\ t >= next_call <=> ~(t < next_call)
                               /\ t >= next_call => CallState[t] = "unknown"
                               /\ t < next_call /\ future[t] = "none" => CallState[t] = "settled"
                               /\ t < next_call /\ future[t] # "none" => CallState[t] = "pending"
                               /\ t >= next_call => future[t] = "none"
           /\ next_call \in Nat /\ DOMAIN CallState = Calls
<1>1. next_call \in Nat /\ \A t \in Calls : t \in Nat
  BY ClientBounds DEF ClientIInv, NativeClientTypeOK, Calls
<1>2. \A t \in Calls : t >= next_call <=> ~(t < next_call)
  BY <1>1
<1>3. \A t \in Calls : t >= next_call => future[t] = "none"
  BY <1>1 DEF ClientIInv, TokensAreFresh
<1> QED
  BY <1>1, <1>2, <1>3 DEF CallState

\* The next state of the ledger, call by call.
LEMMA CallStateBecomes ==
    ASSUME NEW F, DOMAIN F = Calls, F = [t \in Calls |-> F[t]], next_call' \in Nat,
           \A t \in Calls :
                /\ t >= next_call' => F[t] = "unknown"
                /\ ~(t >= next_call') /\ future'[t] = "none" => F[t] = "settled"
                /\ ~(t >= next_call') /\ future'[t] # "none" => F[t] = "pending"
    PROVE  CallState' = F
<1>1. \A t \in Calls :
        (IF t >= next_call' THEN "unknown"
         ELSE IF future'[t] = "none" THEN "settled" ELSE "pending") = F[t]
  OBVIOUS
<1>2. CallState' = [t \in Calls |-> F[t]]
  BY <1>1 DEF CallState
<1> QED
  BY <1>2

\* A pending call that loses its record is settled, alone or with others.
LEMMA CallEnds ==
    ASSUME ClientIInv, NEW t \in Calls, future[t] # "none", next_call' = next_call,
           future' = [future EXCEPT ![t] = "none"]
    PROVE  CallLedger!Settle(t)
<1>1. t < next_call /\ CallState[t] = "pending"
  BY CallStateIs
<1>2. \A u \in Calls : future'[u] = IF u = t THEN "none" ELSE future[u]
  BY DEF ClientIInv, NativeClientTypeOK
<1>3. CallState' = [CallState EXCEPT ![t] = "settled"]
  <2> DEFINE F == [CallState EXCEPT ![t] = "settled"]
  <2>1. /\ DOMAIN F = Calls /\ F = [u \in Calls |-> F[u]] /\ F[t] = "settled"
        /\ \A u \in Calls : u # t => F[u] = CallState[u]
    BY CallStateIs
  <2> HIDE DEF F
  <2>2. CallState' = F
    BY <1>1, <1>2, <2>1, CallStateIs, CallStateBecomes
  <2> QED
    BY <2>2 DEF F
<1> QED
  BY <1>1, <1>3 DEF CallLedger!Settle, CallLedger!Pending, CallLedger!Settled

\* A new call becomes what its record says.
LEMMA CallStarts ==
    ASSUME ClientIInv, next_call \in Calls, next_call' = next_call + 1,
           NEW r, future'[next_call] = r,
           \A u \in Calls : u # next_call => future'[u] = future[u],
           NEW new, r = "none" => new = "settled", r # "none" => new = "pending"
    PROVE  CallState' = [CallState EXCEPT ![next_call] = new]
<1> DEFINE F == [CallState EXCEPT ![next_call] = new]
<1>1. /\ DOMAIN F = Calls /\ F = [u \in Calls |-> F[u]] /\ F[next_call] = new
      /\ \A u \in Calls : u # next_call => F[u] = CallState[u]
  BY CallStateIs
<1>2. next_call' \in Nat /\ ~(next_call >= next_call')
  BY CallStateIs
<1>3. \A u \in Calls : u # next_call => (u >= next_call' <=> u >= next_call)
  <2>1. next_call \in Nat /\ \A u \in Calls : u \in Nat
    BY ClientBounds DEF ClientIInv, NativeClientTypeOK, Calls
  <2> QED
    BY <2>1
<1> HIDE DEF F
<1>4. CallState' = F
  BY <1>1, <1>2, <1>3, CallStateIs, CallStateBecomes
<1> QED
  BY <1>4 DEF F

LEMMA SendMaps == ASSUME ClientIInv, Send PROVE [CallLedger!Next]_CallState
<1>1. next_call \in Calls /\ next_call' = next_call + 1
  BY DEF Send
<1>2. next_call >= next_call /\ future[next_call] = "none"
      /\ CallState[next_call] = "unknown"
  BY <1>1, CallStateIs
<1>3. CASE future' = [future EXCEPT ![next_call] = "waiting"]
  <2>1. /\ future'[next_call] = "waiting"
        /\ \A u \in Calls : u # next_call => future'[u] = future[u]
    BY <1>1, <1>3 DEF ClientIInv, NativeClientTypeOK
  <2>2. CallState' = [CallState EXCEPT ![next_call] = "pending"]
    BY <1>1, <2>1, CallStarts
  <2>3. CallLedger!Admit(next_call)
    BY <1>2, <2>2 DEF CallLedger!Admit, CallLedger!Unknown, CallLedger!Pending
  <2> QED
    BY <1>1, <2>3 DEF CallLedger!Next
<1>4. CASE UNCHANGED future
  <2>1. CallState' = [CallState EXCEPT ![next_call] = "settled"]
    BY <1>1, <1>2, <1>4, CallStarts
  <2>2. CallLedger!Refuse(next_call)
    BY <1>2, <2>1 DEF CallLedger!Refuse, CallLedger!Unknown, CallLedger!Settled
  <2> QED
    BY <1>1, <2>2 DEF CallLedger!Next
<1> QED
  BY <1>3, <1>4 DEF Send

LEMMA CloseMaps == ASSUME ClientIInv, NativeClientClose PROVE [CallLedger!Next]_CallState
<1>1. /\ next_call' = next_call /\ PendingCalls \in SUBSET Calls
      /\ \A t \in Calls : future'[t] = "none"
  BY DEF NativeClientClose, PendingCalls
<1>2. \A t \in Calls : /\ t \in PendingCalls <=> future[t] # "none"
                       /\ t \in PendingCalls => CallState[t] = "pending"
  BY CallStateIs DEF PendingCalls
<1>3. CallState' = [t \in Calls |-> IF t \in PendingCalls THEN "settled" ELSE CallState[t]]
  <2> DEFINE F == [t \in Calls |-> IF t \in PendingCalls THEN "settled" ELSE CallState[t]]
  <2>1. /\ DOMAIN F = Calls /\ F = [t \in Calls |-> F[t]]
        /\ \A t \in Calls : F[t] = IF t \in PendingCalls THEN "settled" ELSE CallState[t]
    OBVIOUS
  <2> HIDE DEF F
  <2>2. CallState' = F
    BY <1>1, <1>2, <2>1, CallStateIs, CallStateBecomes
  <2> QED
    BY <2>2 DEF F
<1>4. CASE PendingCalls = {}
  <2>1. CallState' = CallState
    BY <1>3, <1>4 DEF CallState
  <2> QED
    BY <2>1
<1>5. CASE PendingCalls # {}
  <2>1. CallLedger!SettleAll(PendingCalls)
    BY <1>2, <1>1, <1>3, <1>5 DEF CallLedger!SettleAll, CallLedger!Pending, CallLedger!Settled
  <2> QED
    BY <1>1, <2>1 DEF CallLedger!Next
<1> QED
  BY <1>4, <1>5

LEMMA CallStepMaps ==
    ClientIInv /\ [NativeClientNext]_clientVars => [CallLedger!Next]_CallState
<1> SUFFICES ASSUME ClientIInv, [NativeClientNext]_clientVars
             PROVE  [CallLedger!Next]_CallState
  OBVIOUS
<1>1. CASE Send \/ NativeClientClose
  BY <1>1, SendMaps, CloseMaps
<1>2. CASE FulfilPromise \/ UNCHANGED clientVars
  <2>1. /\ next_call' = next_call
        /\ \A t \in Calls : future'[t] = "none" <=> future[t] = "none"
    BY <1>2 DEF FulfilPromise, clientVars, ClientIInv, NativeClientTypeOK
  <2> QED
    BY <2>1, CallsStay
<1>3. ASSUME NEW t \in Calls, Take(t) \/ Cancel(t)
      PROVE  [CallLedger!Next]_CallState
  <2>1. /\ future[t] # "none" /\ next_call' = next_call
        /\ future' = [future EXCEPT ![t] = "none"]
    BY <1>3 DEF Take, Cancel, PendingCalls
  <2>2. CallLedger!Settle(t)
    BY <2>1, CallEnds
  <2> QED
    BY <2>2 DEF CallLedger!Next
<1>4. ASSUME NEW t \in Calls, ResponseArrives(t) \/ PruneThroughRawClient(t)
      PROVE  [CallLedger!Next]_CallState
  <2>1. t \in rcl_pending => future[t] = "waiting"
    BY DEF ClientIInv, NoLeakedCall
  <2>2. /\ next_call' = next_call
        /\ \A u \in Calls : future'[u] = "none" <=> future[u] = "none"
    BY <1>4, <2>1 DEF ResponseArrives, PruneThroughRawClient, ClientIInv, NativeClientTypeOK
  <2> QED
    BY <2>2, CallsStay
<1> QED
  BY <1>1, <1>2, <1>3, <1>4 DEF NativeClientNext

\* The client implements the ledger of Settlement: a call is settled once, by
\* take, cancel or close, and nothing that comes late brings it back.
THEOREM CallsImplementSettlement == NativeClientSpec => CallsSettleOnce
<1>1. NativeClientInit => CallLedger!Init
  BY DEF NativeClientInit, CallLedger!Init, CallLedger!Unknown, CallState, Calls
<1> QED
  BY <1>1, InductiveClientIInv, CallStepMaps, PTL
     DEF NativeClientSpec, CallsSettleOnce, CallLedger!Spec

-----------------------------------------------------------------------------
(* Services: every request is settled.                                     *)

ServicesTypeOK ==
    /\ service_kind \in ServiceKinds
    /\ service_set \in BOOLEAN /\ callback_set \in BOOLEAN
    /\ service_closed \in BOOLEAN
    /\ serving \in [ServiceWorkers -> {"idle", "entered", "calling", "dispatch", "threw"}]
    /\ holder \in ServiceWorkers \cup {NoHolder}
    /\ scope \in [ServiceWorkers -> {"none", "active", "expired"}]
    /\ retained \subseteq ServiceWorkers
    /\ service_counts \in [ServiceCounters -> Nat]

UnderWay == {w \in ServiceWorkers : serving[w] \notin {"idle", "threw"}}

\* The sum that ServiceCallsSettle states.
RequestsBalance ==
    service_counts.begun =
        service_counts.requests + service_counts.exceptions + Cardinality(UnderWay)

\* Only the services with a Python callback count their crossings, and each
\* at once.
CrossingsCounted ==
    service_counts.crossings =
        IF service_kind = "native" THEN 0 ELSE service_counts.begun

ViewsExpire ==
    \A w \in ServiceWorkers :
        scope[w] = "active" <=> service_kind = "borrowed" /\ serving[w] = "dispatch"

ServicesIInv ==
    /\ ServicesTypeOK
    /\ RequestsBalance /\ CrossingsCounted
    /\ service_counts.rejected <= service_counts.exceptions
    /\ ViewsExpire

-----------------------------------------------------------------------------
LEMMA InitServicesIInv == ServicesInit => ServicesIInv
<1> SUFFICES ASSUME ServicesInit PROVE ServicesIInv
  OBVIOUS
<1>1. service_set \in BOOLEAN /\ callback_set \in BOOLEAN /\ service_closed \in BOOLEAN
  BY Zenon DEF ServicesInit
<1>2. ServicesTypeOK
  BY <1>1 DEF ServicesInit, ServicesTypeOK
<1>3. UnderWay = {}
  BY DEF ServicesInit, UnderWay
<1>4. RequestsBalance
  BY <1>3, FS_EmptySet DEF ServicesInit, RequestsBalance, ServiceCounters
<1> QED
  BY <1>2, <1>4 DEF ServicesInit, ServicesIInv, CrossingsCounted, ViewsExpire,
     ServiceCounters

\* A worker that enters the lambda, and one that leaves it.
LEMMA UnderWayCounts ==
    ASSUME ServicesTypeOK, NEW w \in ServiceWorkers, NEW place,
           Enters(w, place),
           place \in {"idle", "entered", "calling", "dispatch", "threw"}
    PROVE  LET before == serving[w] \notin {"idle", "threw"}
               after == place \notin {"idle", "threw"}
           IN  /\ Cardinality(UnderWay) \in Nat /\ Cardinality(UnderWay') \in Nat
               /\ before = after => Cardinality(UnderWay') = Cardinality(UnderWay)
               /\ ~before /\ after => Cardinality(UnderWay') = Cardinality(UnderWay) + 1
               /\ before /\ ~after => Cardinality(UnderWay') = Cardinality(UnderWay) - 1
<1>1. /\ serving'[w] = place
      /\ \A v \in ServiceWorkers : v # w => serving'[v] = serving[v]
  BY DEF ServicesTypeOK, Enters
<1>2. IsFiniteSet(UnderWay) /\ IsFiniteSet(UnderWay')
  BY ServiceThreads, FS_Subset DEF UnderWay
<1>3. CASE (serving[w] \notin {"idle", "threw"}) = (place \notin {"idle", "threw"})
  <2>1. UnderWay' = UnderWay
    BY <1>1, <1>3 DEF UnderWay
  <2> QED
    BY <1>2, <1>3, <2>1, FS_CardinalityType
<1>4. CASE serving[w] \in {"idle", "threw"} /\ place \notin {"idle", "threw"}
  <2>1. w \notin UnderWay /\ UnderWay' = UnderWay \cup {w}
    BY <1>1, <1>4 DEF UnderWay
  <2> QED
    BY <1>2, <1>4, <2>1, FS_CardinalityType, FS_AddElement
<1>5. CASE serving[w] \notin {"idle", "threw"} /\ place \in {"idle", "threw"}
  <2>1. w \in UnderWay /\ UnderWay' = UnderWay \ {w}
    BY <1>1, <1>5 DEF UnderWay
  <2> QED
    BY <1>2, <1>5, <2>1, FS_CardinalityType, FS_RemoveElement
<1> QED
  BY <1>3, <1>4, <1>5

LEMMA AddsCounts ==
    ASSUME ServicesTypeOK, NEW C \in SUBSET ServiceCounters, Adds(C)
    PROVE  /\ service_counts' \in [ServiceCounters -> Nat]
           /\ \A c \in C : service_counts'[c] = service_counts[c] + 1
           /\ \A c \in ServiceCounters \ C : service_counts'[c] = service_counts[c]
BY DEF ServicesTypeOK, Adds

\* A call begins.
LEMMA ServiceRequestStep ==
    ASSUME ServicesIInv, NEW w \in ServiceWorkers, ServiceRequest(w)
    PROVE  ServicesIInv'
<1> DEFINE C == IF service_kind = "native" THEN {"begun"} ELSE {"begun", "crossings"}
<1> USE DEF ServicesIInv
<1>1. C \in SUBSET ServiceCounters /\ Adds(C) /\ Enters(w, "entered")
  BY Zenon DEF ServiceRequest, ServiceCounters
<1>2. /\ service_counts' \in [ServiceCounters -> Nat]
      /\ service_counts'.begun = service_counts.begun + 1
      /\ service_counts'.requests = service_counts.requests
      /\ service_counts'.exceptions = service_counts.exceptions
      /\ service_counts'.rejected = service_counts.rejected
      /\ service_counts'.crossings =
           service_counts.crossings + IF service_kind = "native" THEN 0 ELSE 1
  BY DEF ServiceRequest, Adds, ServicesTypeOK, ServiceCounters
<1>3. ServicesTypeOK'
  BY <1>2 DEF ServiceRequest, ServicesTypeOK, Enters
<1>4. RequestsBalance'
  <2>1. Cardinality(UnderWay) \in Nat /\ Cardinality(UnderWay') = Cardinality(UnderWay) + 1
    BY <1>1, UnderWayCounts DEF ServiceRequest
  <2> QED
    BY <1>2, <2>1 DEF RequestsBalance, ServicesTypeOK, ServiceCounters
<1>5. CrossingsCounted'
  BY <1>2 DEF ServiceRequest, CrossingsCounted, ServicesTypeOK, ServiceCounters
<1>6. ViewsExpire'
  BY DEF ServiceRequest, Enters, ViewsExpire, ServicesTypeOK
<1> QED
  BY <1>2, <1>3, <1>4, <1>5, <1>6

\* A call ends: as a request, as an exception, or as one that was refused.
LEMMA ServiceEndStep ==
    ASSUME ServicesIInv, NEW w \in ServiceWorkers, NEW place \in {"idle", "threw"},
           serving[w] \notin {"idle", "threw"}, Enters(w, place),
           \/ Adds({"requests"}) \/ Adds({"exceptions"})
           \/ Adds({"exceptions", "rejected"}),
           ServicesTypeOK', UNCHANGED service_kind, ViewsExpire'
    PROVE  ServicesIInv'
<1> USE DEF ServicesIInv
<1>1. Cardinality(UnderWay) \in Nat /\ Cardinality(UnderWay') = Cardinality(UnderWay) - 1
      /\ Cardinality(UnderWay') \in Nat
  BY UnderWayCounts
<1>2. /\ UNCHANGED <<service_counts.begun, service_counts.crossings>>
      /\ \/ /\ service_counts'.requests = service_counts.requests + 1
            /\ UNCHANGED <<service_counts.exceptions, service_counts.rejected>>
         \/ /\ service_counts'.exceptions = service_counts.exceptions + 1
            /\ UNCHANGED <<service_counts.requests>>
            /\ service_counts'.rejected \in {service_counts.rejected,
                                             service_counts.rejected + 1}
  BY DEF Adds, ServiceCounters, ServicesTypeOK
<1> QED
  BY <1>1, <1>2 DEF RequestsBalance, CrossingsCounted, ServicesTypeOK, ServiceCounters

\* What moves within a call.
LEMMA ServiceMovesStep ==
    ASSUME ServicesIInv, ServicesTypeOK', UNCHANGED service_kind, ViewsExpire',
           UnderWay' = UnderWay,
           UNCHANGED service_counts \/ Adds({"expired"})
    PROVE  ServicesIInv'
<1>1. \A c \in ServiceCounters \ {"expired"} : service_counts'[c] = service_counts[c]
  BY DEF Adds, ServicesIInv, ServicesTypeOK, ServiceCounters
<1> QED
  BY <1>1 DEF ServicesIInv, RequestsBalance, CrossingsCounted, ServiceCounters

LEMMA ServiceWorkerStep ==
    ASSUME ServicesIInv, NEW w \in ServiceWorkers,
           \/ NativeBody(w) \/ CallCallback(w) \/ BeginDispatch(w) \/ SwitchAway(w)
           \/ SwitchBack(w) \/ RetainView(w) \/ ServiceCallbackReturns(w) \/ UseView(w)
    PROVE  ServicesIInv'
<1> USE DEF ServicesIInv
<1>1. CASE NativeBody(w)
  <2>1. service_counts' \in [ServiceCounters -> Nat]
    BY <1>1, AddsCounts DEF NativeBody, ServiceCounters
  <2>2. ServicesTypeOK' /\ ViewsExpire'
    BY <1>1, <2>1 DEF NativeBody, ServicesTypeOK, Enters, ViewsExpire
  <2> QED
    BY <1>1, <2>2, ServiceEndStep DEF NativeBody
<1>2. CASE CallCallback(w)
  <2>1. CASE callback_set /\ Enters(w, "calling") /\ UNCHANGED service_counts
    <3>1. ServicesTypeOK' /\ ViewsExpire' /\ UnderWay' = UnderWay
      BY <1>2, <2>1 DEF CallCallback, ServicesTypeOK, Enters, ViewsExpire, UnderWay
    <3> QED
      BY <1>2, <2>1, <3>1, ServiceMovesStep DEF CallCallback
  <2>2. CASE ~callback_set /\ Enters(w, "threw") /\ Adds({"exceptions"})
    <3>1. service_counts' \in [ServiceCounters -> Nat]
      BY <2>2, AddsCounts DEF ServiceCounters
    <3>2. ServicesTypeOK' /\ ViewsExpire'
      BY <1>2, <2>2, <3>1 DEF CallCallback, ServicesTypeOK, Enters, ViewsExpire
    <3> QED
      BY <1>2, <2>2, <3>2, ServiceEndStep DEF CallCallback
  <2> QED
    BY <1>2, <2>1, <2>2 DEF CallCallback
<1>3. CASE BeginDispatch(w)
  <2>1. ServicesTypeOK' /\ UnderWay' = UnderWay
    BY <1>3 DEF BeginDispatch, ServicesTypeOK, Enters, UnderWay
  <2>2. ViewsExpire'
    BY <1>3 DEF BeginDispatch, ServicesTypeOK, Enters, ViewsExpire
  <2> QED
    BY <1>3, <2>1, <2>2, ServiceMovesStep DEF BeginDispatch
<1>4. CASE SwitchAway(w) \/ SwitchBack(w) \/ RetainView(w)
  <2>1. ServicesTypeOK' /\ UnderWay' = UnderWay /\ ViewsExpire'
    BY <1>4 DEF SwitchAway, SwitchBack, RetainView, ServicesTypeOK, UnderWay, ViewsExpire
  <2> QED
    BY <1>4, <2>1, ServiceMovesStep DEF SwitchAway, SwitchBack, RetainView
<1>5. CASE ServiceCallbackReturns(w)
  <2>1. PICK place \in {"idle", "threw"} :
           /\ Enters(w, place)
           /\ \/ Adds({"requests"}) \/ Adds({"exceptions"})
              \/ Adds({"exceptions", "rejected"})
    BY <1>5 DEF ServiceCallbackReturns, OwningOutcome, BorrowedOutcome
  <2>2. service_counts' \in [ServiceCounters -> Nat]
    BY <2>1, AddsCounts DEF ServiceCounters
  <2>3. scope' = IF service_kind = "borrowed" THEN [scope EXCEPT ![w] = "expired"] ELSE scope
    BY <1>5 DEF ServiceCallbackReturns, OwningOutcome, BorrowedOutcome
  <2>4. ServicesTypeOK' /\ ViewsExpire'
    BY <1>5, <2>1, <2>2, <2>3 DEF ServiceCallbackReturns, ServicesTypeOK, Enters, ViewsExpire
  <2> QED
    BY <1>5, <2>1, <2>4, ServiceEndStep DEF ServiceCallbackReturns
<1>6. CASE UseView(w)
  <2>1. service_counts' \in [ServiceCounters -> Nat]
    BY <1>6, AddsCounts DEF UseView, ServiceCounters
  <2>2. ServicesTypeOK' /\ UnderWay' = UnderWay /\ ViewsExpire'
    BY <1>6, <2>1 DEF UseView, ServicesTypeOK, UnderWay, ViewsExpire
  <2> QED
    BY <1>6, <2>2, ServiceMovesStep DEF UseView
<1> QED
  BY <1>1, <1>2, <1>3, <1>4, <1>5, <1>6

LEMMA StepServicesIInv == ServicesIInv /\ [ServicesNext]_serviceVars => ServicesIInv'
<1> SUFFICES ASSUME ServicesIInv, [ServicesNext]_serviceVars PROVE ServicesIInv'
  OBVIOUS
<1>1. CASE CloseService
  <2>1. service_set' \in BOOLEAN /\ callback_set' \in BOOLEAN /\ service_closed' \in BOOLEAN
    <3>1. ServicesTypeOK
      BY DEF ServicesIInv
    <3> QED
      BY <1>1, <3>1, Zenon DEF CloseService, CloseOwning, CloseBorrowed, ServicesTypeOK
  <2>2. ServicesTypeOK' /\ UnderWay' = UnderWay /\ ViewsExpire'
    BY <1>1, <2>1 DEF CloseService, ServicesIInv, ServicesTypeOK, UnderWay, ViewsExpire
  <2> QED
    BY <1>1, <2>2, ServiceMovesStep DEF CloseService
<1>2. CASE UNCHANGED serviceVars
  <2>1. ServicesTypeOK' /\ UnderWay' = UnderWay /\ ViewsExpire'
    BY <1>2 DEF serviceVars, ServicesIInv, ServicesTypeOK, UnderWay, ViewsExpire
  <2> QED
    BY <1>2, <2>1, ServiceMovesStep DEF serviceVars
<1> QED
  BY <1>1, <1>2, ServiceRequestStep, ServiceWorkerStep DEF ServicesNext

LEMMA InductiveServicesIInv == ServicesSpec => []ServicesIInv
BY InitServicesIInv, StepServicesIInv, PTL DEF ServicesSpec

\* The state of a service and of its calls stays well typed, for any number of
\* executor threads and requests.
THEOREM ServicesTypeCorrect == ServicesSpec => []ServicesTypeOK
<1>1. ServicesIInv => ServicesTypeOK
  BY DEF ServicesIInv
<1> QED
  BY <1>1, InductiveServicesIInv, PTL

\* Every call of a compiled service's lambda ends as one request or one
\* exception, also when close() or another thread gets in between, and a
\* borrowed view is good while its own callback runs and no longer.
THEOREM ServiceCallsSettleAlways == ServicesSpec => []ServiceCallsSettle
<1>1. ServicesIInv => ServiceCallsSettle
  BY DEF ServicesIInv, RequestsBalance, UnderWay, CrossingsCounted, ViewsExpire,
         ServiceCallsSettle
<1> QED
  BY <1>1, InductiveServicesIInv, PTL

-----------------------------------------------------------------------------
(* PythonCallbacks: references and crossings.                              *)

DispatchPlaces == {"idle", "called", "python", "leaving"}
Tally == [crossings : Nat, callbacks : Nat, errors : Nat]

CallbacksTypeOK ==
    /\ kind \in [Entities -> CallbackKinds]
    /\ facade_open \in [Entities -> BOOLEAN] /\ attached \in [Entities -> BOOLEAN]
    /\ dispatching \in [Workers -> DispatchPlaces]
    /\ executed \in [Workers -> Entities \cup {NoEntity}]
    /\ interpreter \in Workers \cup {NoGil}
    /\ references \in [Entities -> Nat]
    /\ reaped \subseteq Entities
    /\ executions \in Nat
    /\ tally \in [Entities -> Tally] /\ snapshot \in [Entities -> Tally]

\* A worker keeps its entity until it is idle again.
WorkersKeep == \A w \in Workers : dispatching[w] = "idle" <=> executed[w] = NoEntity

CallbacksIInv ==
    /\ CallbacksTypeOK /\ WorkersKeep
    /\ ReferencesHeld /\ CrossingsAccounted

-----------------------------------------------------------------------------
LEMMA ReferencesArePositive ==
    ASSUME NEW k \in CallbackKinds PROVE ReferencesOf(k) \in Nat /\ ReferencesOf(k) > 0
BY DEF CallbackKinds, ReferencesOf

LEMMA InitCallbacksIInv == PythonCallbacksInit => CallbacksIInv
<1> SUFFICES ASSUME PythonCallbacksInit PROVE CallbacksIInv
  OBVIOUS
<1>1. CallbacksTypeOK
  BY ReferencesArePositive DEF PythonCallbacksInit, CallbacksTypeOK, DispatchPlaces, Tally
<1>2. WorkersKeep
  BY DEF PythonCallbacksInit, WorkersKeep
<1>3. ReferencesHeld
  BY ReferencesArePositive DEF PythonCallbacksInit, ReferencesHeld, Shared
<1>4. CrossingsAccounted
  <2>1. \A e \in Entities : InCallback(e) = {}
    BY DEF PythonCallbacksInit, InCallback, Executing
  <2>2. \A e \in Entities : Cardinality(InCallback(e)) = 0
    BY <2>1, FS_EmptySet
  <2>3. \A e \in Entities : /\ tally[e].crossings = 0 /\ tally[e].callbacks = 0
                            /\ tally[e].errors = 0 /\ snapshot[e] = tally[e]
    BY DEF PythonCallbacksInit
  <2> QED
    BY <2>2, <2>3 DEF CrossingsAccounted
<1> QED
  BY <1>1, <1>2, <1>3, <1>4 DEF CallbacksIInv

\* Whatever does not touch the owners leaves the references where they are.
LEMMA SameOwners ==
    ASSUME ReferencesHeld, UNCHANGED <<kind, references, reaped>>,
           \A e \in Entities : Shared(e)' = Shared(e)
    PROVE  ReferencesHeld'
BY DEF ReferencesHeld

\* An owner that lets go leaves what nobody owns any more to the reaper.
LEMMA ReapKeepsReferences ==
    ASSUME CallbacksTypeOK, ReferencesHeld, UNCHANGED <<kind, references>>, Reap,
           \A e \in Entities : Shared(e)' => Shared(e)
    PROVE  ReferencesHeld' /\ reaped' \subseteq Entities
<1>1. reaped' = reaped \cup {e \in Entities : references[e] > 0 /\ ~Shared(e)'}
  BY Zenon DEF Reap
<1>2. reaped' \subseteq Entities
  BY <1>1 DEF CallbacksTypeOK
<1>3. ASSUME NEW e \in Entities
      PROVE  /\ references'[e] \in {0, ReferencesOf(kind'[e])}
             /\ Shared(e)' => references'[e] > 0 /\ e \notin reaped'
             /\ ~Shared(e)' => (e \in reaped' <=> references'[e] > 0)
  BY <1>1, <1>3 DEF ReferencesHeld
<1> QED
  BY <1>2, <1>3, Zenon DEF ReferencesHeld

\* A worker enters the callback of its entity, or leaves it.
LEMMA InCallbackCounts ==
    ASSUME CallbacksTypeOK, NEW w \in Workers, NEW e \in Entities
    PROVE  /\ IsFiniteSet(InCallback(e)) /\ Cardinality(InCallback(e)) \in Nat
           /\ w \notin InCallback(e) =>
                Cardinality(InCallback(e) \cup {w}) = Cardinality(InCallback(e)) + 1
           /\ w \in InCallback(e) =>
                Cardinality(InCallback(e) \ {w}) = Cardinality(InCallback(e)) - 1
<1>1. IsFiniteSet(InCallback(e))
  BY CallbackThreads, FS_Subset DEF InCallback, Executing
<1> QED
  BY <1>1, FS_CardinalityType, FS_AddElement, FS_RemoveElement

LEMMA ExecuteStep ==
    ASSUME CallbacksIInv, NEW w \in Workers, NEW e \in Entities, ExecuteEntity(w, e)
    PROVE  CallbacksIInv'
<1> USE DEF CallbacksIInv
<1>1. CallbacksTypeOK' /\ WorkersKeep'
  BY EntityNames DEF ExecuteEntity, CallbacksTypeOK, WorkersKeep, Moves, DispatchPlaces
<1>2. ReferencesHeld'
  <2>1. executed[w] = NoEntity
    BY DEF ExecuteEntity, WorkersKeep
  <2>2. \A d \in Entities : Shared(d)' = Shared(d)
    BY <2>1, EntityNames DEF ExecuteEntity, Shared, Executing, CallbacksTypeOK
  <2> QED
    BY <2>2, SameOwners DEF ExecuteEntity
<1>3. CrossingsAccounted'
  <2>1. \A d \in Entities : InCallback(d)' = InCallback(d)
    BY EntityNames DEF ExecuteEntity, InCallback, Executing, CallbacksTypeOK, WorkersKeep,
       Moves
  <2> QED
    BY <2>1 DEF CrossingsAccounted, ExecuteEntity
<1> QED
  BY <1>1, <1>2, <1>3

\* Inside a dispatch only the tally of its own entity changes.
LEMMA DispatchStep ==
    ASSUME CallbacksIInv, NEW w \in Workers, NEW crossings \in {0, 1},
           NEW canFail \in BOOLEAN, Dispatch(w, crossings, canFail),
           executed[w] # NoEntity,
           kind[executed[w]] # "event" => crossings = 1
    PROVE  CallbacksIInv'
<1> DEFINE e == executed[w]
<1> USE DEF CallbacksIInv
<1>1. /\ e \in Entities
      /\ dispatching[w] = "called"
      /\ UNCHANGED <<kind, facade_open, attached, executed, references, reaped,
                     executions, snapshot>>
  BY DEF Dispatch, CallbacksTypeOK
<1>2. PICK place \in {"leaving", "python"} :
         /\ Moves(w, place)
         /\ \/ place = "leaving" /\ tally' = tally
            \/ /\ facade_open[e] /\ place = "python"
               /\ tally' = [tally EXCEPT ![e].crossings = @ + crossings]
            \/ /\ facade_open[e] /\ place = "leaving"
               /\ tally' = [tally EXCEPT ![e].crossings = @ + crossings,
                                         ![e].errors = @ + 1]
  BY DEF Dispatch
<1>3. interpreter' \in Workers \cup {NoGil}
  BY DEF Dispatch, CallbacksTypeOK
<1>4. tally' \in [Entities -> Tally]
  <2>1. /\ tally \in [Entities -> Tally]
        /\ tally[e].crossings + crossings \in Nat /\ tally[e].errors + 1 \in Nat
    BY <1>1 DEF CallbacksTypeOK, Tally
  <2>2. CASE tally' = tally
    BY <2>1, <2>2
  <2>3. CASE tally' = [tally EXCEPT ![e].crossings = @ + crossings]
    BY <1>1, <2>1, <2>3 DEF Tally
  <2>4. CASE tally' = [tally EXCEPT ![e].crossings = @ + crossings,
                                    ![e].errors = @ + 1]
    BY <1>1, <2>1, <2>4 DEF Tally
  <2> QED
    BY <1>2, <2>2, <2>3, <2>4
<1>5. CallbacksTypeOK' /\ WorkersKeep'
  BY <1>1, <1>2, <1>3, <1>4 DEF CallbacksTypeOK, WorkersKeep, Moves, DispatchPlaces
<1>6. ReferencesHeld'
  <2>1. \A d \in Entities : Shared(d)' = Shared(d)
    BY <1>1 DEF Shared, Executing
  <2> QED
    BY <1>1, <2>1, SameOwners
<1>7. ASSUME NEW d \in Entities
      PROVE  /\ kind'[d] # "event" => tally'[d].crossings =
                  tally'[d].callbacks + tally'[d].errors + Cardinality(InCallback(d)')
             /\ ~facade_open'[d] => snapshot'[d].crossings = tally'[d].crossings
  <2>1. CASE d # e
    <3>1. InCallback(d)' = InCallback(d) /\ tally'[d] = tally[d]
      BY <1>1, <1>2, <2>1 DEF InCallback, Executing, Moves, CallbacksTypeOK
    <3> QED
      BY <1>1, <3>1 DEF CrossingsAccounted
  <2>2. CASE d = e
    <3>1. w \notin InCallback(d)
      BY <1>1 DEF InCallback
    <3>2. InCallback(d)' = IF dispatching'[w] = "python" THEN InCallback(d) \cup {w}
                           ELSE InCallback(d)
      BY <1>1, <1>2, <2>2, <3>1 DEF InCallback, Executing, Moves, CallbacksTypeOK
    <3>3. /\ Cardinality(InCallback(d)) \in Nat
          /\ Cardinality(InCallback(d)') =
               IF dispatching'[w] = "python" THEN Cardinality(InCallback(d)) + 1
               ELSE Cardinality(InCallback(d))
      BY <3>1, <3>2, InCallbackCounts
    <3>4. /\ tally[e].crossings \in Nat /\ tally[e].callbacks \in Nat
          /\ tally[e].errors \in Nat
          /\ kind[e] # "event" => tally[e].crossings =
               tally[e].callbacks + tally[e].errors + Cardinality(InCallback(e))
          /\ ~facade_open[e] => snapshot[e].crossings = tally[e].crossings
      BY <1>1 DEF CallbacksTypeOK, Tally, CrossingsAccounted
    <3>5. dispatching'[w] = "python" \/ dispatching'[w] = "leaving"
      BY <1>2 DEF Moves, CallbacksTypeOK
    <3>6. CASE tally' = tally /\ dispatching'[w] = "leaving"
      BY <1>1, <2>2, <3>3, <3>4, <3>6
    <3>7. CASE /\ facade_open[e] /\ dispatching'[w] = "python"
               /\ tally' = [tally EXCEPT ![e].crossings = @ + crossings]
      <4>1. /\ tally'[e].crossings = tally[e].crossings + crossings
            /\ tally'[e].callbacks = tally[e].callbacks
            /\ tally'[e].errors = tally[e].errors
        BY <1>1, <3>7 DEF CallbacksTypeOK, Tally
      <4> QED
        BY <1>1, <2>2, <3>3, <3>4, <3>7, <4>1
    <3>8. CASE /\ facade_open[e] /\ dispatching'[w] = "leaving"
               /\ tally' = [tally EXCEPT ![e].crossings = @ + crossings,
                                         ![e].errors = @ + 1]
      <4>1. /\ tally'[e].crossings = tally[e].crossings + crossings
            /\ tally'[e].callbacks = tally[e].callbacks
            /\ tally'[e].errors = tally[e].errors + 1
        BY <1>1, <3>8 DEF CallbacksTypeOK, Tally
      <4> QED
        BY <1>1, <2>2, <3>3, <3>4, <3>8, <4>1
    <3> QED
      BY <1>2, <3>6, <3>7, <3>8 DEF Moves, CallbacksTypeOK
  <2> QED
    BY <2>1, <2>2
<1>8. CrossingsAccounted'
  BY <1>7, Zenon DEF CrossingsAccounted
<1> QED
  BY <1>5, <1>6, <1>8

LEMMA CallbackReturnsStep ==
    ASSUME CallbacksIInv, NEW w \in Workers, CallbackReturns(w) PROVE CallbacksIInv'
<1> DEFINE e == executed[w]
<1> USE DEF CallbacksIInv
<1>1. /\ e \in Entities /\ dispatching[w] = "python" /\ interpreter' = NoGil
      /\ UNCHANGED <<kind, facade_open, attached, executed, references, reaped,
                     executions, snapshot>>
      /\ Moves(w, "leaving")
  BY DEF CallbackReturns, CallbacksTypeOK, WorkersKeep
<1>2. \/ tally' = [tally EXCEPT ![e].callbacks = @ + 1]
      \/ tally' = [tally EXCEPT ![e].errors = @ + 1]
  BY DEF CallbackReturns
<1>3. CallbacksTypeOK' /\ WorkersKeep'
  <2>1. tally' \in [Entities -> Tally]
    BY <1>1, <1>2 DEF CallbacksTypeOK, Tally
  <2> QED
    BY <1>1, <2>1 DEF CallbacksTypeOK, WorkersKeep, Moves, DispatchPlaces
<1>4. ReferencesHeld'
  <2>1. \A d \in Entities : Shared(d)' = Shared(d)
    BY <1>1 DEF Shared, Executing
  <2> QED
    BY <1>1, <2>1, SameOwners
<1>5. ASSUME NEW d \in Entities
      PROVE  /\ kind'[d] # "event" => tally'[d].crossings =
                  tally'[d].callbacks + tally'[d].errors + Cardinality(InCallback(d)')
             /\ ~facade_open'[d] => snapshot'[d].crossings = tally'[d].crossings
  <2>1. CASE d # e
    <3>1. InCallback(d)' = InCallback(d) /\ tally'[d] = tally[d]
      BY <1>1, <1>2, <2>1 DEF InCallback, Executing, Moves, CallbacksTypeOK
    <3> QED
      BY <1>1, <3>1 DEF CrossingsAccounted
  <2>2. CASE d = e
    <3>1. w \in InCallback(d)
      BY <1>1, <2>2 DEF InCallback, Executing
    <3>2. InCallback(d)' = InCallback(d) \ {w}
      BY <1>1, <2>2 DEF InCallback, Executing, Moves, CallbacksTypeOK
    <3>3. /\ Cardinality(InCallback(d)) \in Nat
          /\ Cardinality(InCallback(d)') = Cardinality(InCallback(d)) - 1
      BY <3>1, <3>2, InCallbackCounts
    <3>4. /\ tally[e].crossings \in Nat /\ tally[e].callbacks \in Nat
          /\ tally[e].errors \in Nat
          /\ kind[e] # "event" => tally[e].crossings =
               tally[e].callbacks + tally[e].errors + Cardinality(InCallback(e))
          /\ ~facade_open[e] => snapshot[e].crossings = tally[e].crossings
      BY <1>1 DEF CallbacksTypeOK, Tally, CrossingsAccounted
    <3>5. /\ tally'[e].crossings = tally[e].crossings
          /\ \/ /\ tally'[e].callbacks = tally[e].callbacks + 1
                /\ tally'[e].errors = tally[e].errors
             \/ /\ tally'[e].callbacks = tally[e].callbacks
                /\ tally'[e].errors = tally[e].errors + 1
      BY <1>1, <1>2 DEF CallbacksTypeOK, Tally
    <3> QED
      BY <1>1, <2>2, <3>3, <3>4, <3>5
  <2> QED
    BY <2>1, <2>2
<1>6. CrossingsAccounted'
  BY <1>5, Zenon DEF CrossingsAccounted
<1> QED
  BY <1>3, <1>4, <1>6

\* What leaves the crossings alone.
LEMMA SameCrossings ==
    ASSUME CrossingsAccounted,
           UNCHANGED <<kind, facade_open, tally, snapshot>>,
           \A e \in Entities : InCallback(e)' = InCallback(e)
    PROVE  CrossingsAccounted'
BY DEF CrossingsAccounted

LEMMA LeaveStep ==
    ASSUME CallbacksIInv, NEW w \in Workers, LeaveEntity(w) PROVE CallbacksIInv'
<1> USE DEF CallbacksIInv
<1>1. /\ dispatching[w] = "leaving" /\ Moves(w, "idle")
      /\ executed' = [executed EXCEPT ![w] = NoEntity]
      /\ UNCHANGED <<kind, facade_open, attached, interpreter, references,
                     tally, executions, snapshot>>
      /\ Reap
  BY Zenon DEF LeaveEntity
<1>2. ReferencesHeld' /\ reaped' \subseteq Entities
  <2>1. \A d \in Entities : Shared(d)' => Shared(d)
    BY <1>1, EntityNames DEF Shared, Executing, CallbacksTypeOK
  <2> QED
    BY <1>1, <2>1, ReapKeepsReferences
<1>3. CallbacksTypeOK' /\ WorkersKeep'
  BY <1>1, <1>2 DEF CallbacksTypeOK, WorkersKeep, Moves, DispatchPlaces
<1>4. CrossingsAccounted'
  <2>1. \A d \in Entities : InCallback(d)' = InCallback(d)
    BY <1>1, EntityNames DEF InCallback, Executing, Moves, CallbacksTypeOK
  <2> QED
    BY <1>1, <2>1, SameCrossings
<1> QED
  BY <1>2, <1>3, <1>4

\* close() keeps the counters, then lets go and drains.
LEMMA CloseEntityStep ==
    ASSUME CallbacksIInv, NEW e \in Entities, CloseUnderGil(e) PROVE CallbacksIInv'
<1> USE DEF CallbacksIInv
<1>1. /\ UNCHANGED <<kind, dispatching, executed, interpreter, executions, tally>>
      /\ snapshot' = [snapshot EXCEPT ![e] = tally[e]]
      /\ facade_open' = [facade_open EXCEPT ![e] = FALSE]
      /\ attached' = [attached EXCEPT ![e] = kind[e] = "event" /\ @]
      /\ references' = Drained(reaped \cup {d \in Entities : ~Shared(d)'})
      /\ reaped' = {}
  BY Zenon DEF CloseUnderGil, CloseImplementation
<1>2. CallbacksTypeOK' /\ WorkersKeep'
  BY <1>1 DEF CallbacksTypeOK, WorkersKeep, Drained
<1>3. \A d \in Entities : Shared(d)' => Shared(d)
  BY <1>1 DEF Shared, Executing, CallbacksTypeOK
<1>4. ReferencesHeld'
  <2>1. \A d \in Entities : references'[d] =
           IF d \in reaped \/ ~Shared(d)' THEN 0 ELSE references[d]
    BY <1>1 DEF Drained
  <2> QED
    BY <1>1, <1>3, <2>1 DEF ReferencesHeld
<1>5. CrossingsAccounted'
  <2>1. \A d \in Entities : InCallback(d)' = InCallback(d)
    BY <1>1 DEF InCallback, Executing
  <2>2. \A d \in Entities : ~facade_open'[d] => snapshot'[d].crossings = tally'[d].crossings
    BY <1>1 DEF CrossingsAccounted, CallbacksTypeOK
  <2> QED
    BY <1>1, <2>1, <2>2 DEF CrossingsAccounted
<1> QED
  BY <1>2, <1>4, <1>5

LEMMA DetachStep ==
    ASSUME CallbacksIInv, NEW e \in Entities, DetachEvent(e) PROVE CallbacksIInv'
<1> USE DEF CallbacksIInv
<1>1. /\ attached' = [attached EXCEPT ![e] = FALSE]
      /\ UNCHANGED <<kind, facade_open, dispatching, executed, interpreter,
                     references, tally, executions, snapshot>>
      /\ Reap
  BY Zenon DEF DetachEvent
<1>2. ReferencesHeld' /\ reaped' \subseteq Entities
  <2>1. \A d \in Entities : Shared(d)' => Shared(d)
    BY <1>1 DEF Shared, Executing, CallbacksTypeOK
  <2> QED
    BY <1>1, <2>1, ReapKeepsReferences
<1>3. CallbacksTypeOK' /\ WorkersKeep'
  BY <1>1, <1>2 DEF CallbacksTypeOK, WorkersKeep
<1>4. CrossingsAccounted'
  BY <1>1, SameCrossings DEF InCallback, Executing
<1> QED
  BY <1>2, <1>3, <1>4

LEMMA DrainStep ==
    ASSUME CallbacksIInv, DrainReaped PROVE CallbacksIInv'
<1> USE DEF CallbacksIInv
<1>1. /\ references' = Drained(reaped) /\ reaped' = {}
      /\ UNCHANGED <<kind, facade_open, attached, dispatching, executed,
                     interpreter, tally, executions, snapshot>>
  BY DEF DrainReaped
<1>2. CallbacksTypeOK' /\ WorkersKeep'
  BY <1>1 DEF CallbacksTypeOK, WorkersKeep, Drained
<1>3. ReferencesHeld'
  <2>1. \A d \in Entities : Shared(d)' = Shared(d)
    BY <1>1 DEF Shared, Executing
  <2> QED
    BY <1>1, <2>1 DEF ReferencesHeld, Drained
<1>4. CrossingsAccounted'
  BY <1>1, SameCrossings DEF InCallback, Executing
<1> QED
  BY <1>2, <1>3, <1>4

LEMMA YieldStep ==
    ASSUME CallbacksIInv,
           \/ \E w \in Workers : CallbackYields(w) \/ Resume(w)
           \/ UNCHANGED callbackVars
    PROVE  CallbacksIInv'
<1> USE DEF CallbacksIInv
<1>1. /\ UNCHANGED <<kind, facade_open, attached, dispatching, executed,
                     references, reaped, tally, executions, snapshot>>
      /\ interpreter' \in Workers \cup {NoGil}
  BY DEF CallbackYields, Resume, callbackVars, CallbacksTypeOK
<1>2. CallbacksTypeOK' /\ WorkersKeep'
  BY <1>1 DEF CallbacksTypeOK, WorkersKeep
<1>3. ReferencesHeld'
  BY <1>1, SameOwners DEF Shared, Executing
<1>4. CrossingsAccounted'
  BY <1>1, SameCrossings DEF InCallback, Executing
<1> QED
  BY <1>2, <1>3, <1>4

LEMMA StepCallbacksIInv ==
    CallbacksIInv /\ [PythonCallbacksNext]_callbackVars => CallbacksIInv'
<1> SUFFICES ASSUME CallbacksIInv, [PythonCallbacksNext]_callbackVars
             PROVE  CallbacksIInv'
  OBVIOUS
<1>1. CASE \E w \in Workers : \/ DispatchEvent(w) \/ DispatchSubscription(w)
                              \/ DispatchGeneric(w) \/ DispatchService(w)
                              \/ DispatchTimer(w)
  <2>1. PICK w \in Workers : \/ DispatchEvent(w) \/ DispatchSubscription(w)
                             \/ DispatchGeneric(w) \/ DispatchService(w)
                             \/ DispatchTimer(w)
    BY <1>1
  <2>2. \E crossings \in {0, 1}, canFail \in BOOLEAN :
           /\ Dispatch(w, crossings, canFail)
           /\ executed[w] # NoEntity
           /\ kind[executed[w]] # "event" => crossings = 1
    BY <2>1 DEF DispatchEvent, DispatchSubscription, DispatchGeneric, DispatchService,
       DispatchTimer, Runs
  <2> QED
    BY <2>2, DispatchStep
<1>2. CASE \E w \in Workers : \/ \E e \in Entities : ExecuteEntity(w, e)
                              \/ CallbackReturns(w) \/ LeaveEntity(w)
  BY <1>2, ExecuteStep, CallbackReturnsStep, LeaveStep
<1>3. CASE \E e \in Entities : \/ CloseEntity(e) \/ DetachEvent(e)
                               \/ \E w \in Workers : CloseInCallback(w, e)
  BY <1>3, CloseEntityStep, DetachStep DEF CloseEntity, CloseInCallback
<1>4. CASE DrainReaped
  BY <1>4, DrainStep
<1>5. CASE \/ \E w \in Workers : CallbackYields(w) \/ Resume(w)
           \/ UNCHANGED callbackVars
  BY <1>5, YieldStep
<1> QED
  BY <1>1, <1>2, <1>3, <1>4, <1>5, Zenon DEF PythonCallbacksNext

LEMMA InductiveCallbacksIInv == PythonCallbacksSpec => []CallbacksIInv
BY InitCallbacksIInv, StepCallbacksIInv, PTL DEF PythonCallbacksSpec

\* The state of the entities and of their dispatches stays well typed, for any
\* entities of any kinds, any workers and any number of dispatches.
THEOREM CallbacksTypeCorrect == PythonCallbacksSpec => []CallbacksTypeOK
<1>1. CallbacksIInv => CallbacksTypeOK
  BY DEF CallbacksIInv
<1> QED
  BY <1>1, InductiveCallbacksIInv, PTL

\* However close(), a dispatch and an executor that lets go cross: the
\* references of an entity are all there while anyone can dispatch through it
\* and in the reaper after that, and every crossing is a callback, an error or
\* still under way.
THEOREM CallbacksAccounted == PythonCallbacksSpec => []CallbacksAccountedFor
<1>1. CallbacksIInv => CallbacksAccountedFor
  BY DEF CallbacksIInv, CallbacksAccountedFor
<1> QED
  BY <1>1, InductiveCallbacksIInv, PTL

-----------------------------------------------------------------------------
(* NativeLifecycle: the executors that have the node.                      *)

LifecycleStates == {"unconfigured", "inactive", "active", "finalized"}

LifecycleTypeOK ==
    /\ node_set \in BOOLEAN
    /\ executors_ \subseteq NodeExecutors /\ hosting \subseteq NodeExecutors
    /\ adopted \subseteq NodeExecutors /\ live_executors \subseteq NodeExecutors
    /\ lc_state \in LifecycleStates \cup {"transitioning", "errorprocessing"}
    /\ started_in \in LifecycleStates
    /\ transition \in Kinds \cup {"none", "on_error"}
    /\ trigger \in {"none", "python", "service"}
    /\ failures \in Nat
    /\ outcomes \in [TransitionOutcomes \cup {"taken"} -> Nat]
    /\ lc_bounds \in [transitions : Nat, raw : Nat]

\* What was adopted lives, has the node and is listed: the list is purged of
\* the executors that are gone, and of no other.
AdoptedLives == adopted \subseteq executors_ \cap live_executors \cap hosting

\* The machine is in one of its own states when no transition is under way.
MachineRests == transition = "none" => lc_state \in LifecycleStates

\* close() has taken the node back from every executor that adopted it.
ClosedIsAdoptedByNone == ~node_set => adopted = {}

LifecycleIInv ==
    /\ LifecycleTypeOK
    /\ AdoptedLives /\ ClosedIsAdoptedByNone
    /\ MachineRests

-----------------------------------------------------------------------------
LEMMA InitLifecycleIInv == LifecycleInit => LifecycleIInv
<1> SUFFICES ASSUME LifecycleInit PROVE LifecycleIInv
  OBVIOUS
<1>1. node_set \in BOOLEAN
  BY Zenon DEF LifecycleInit
<1> QED
  BY <1>1 DEF LifecycleInit, LifecycleIInv, LifecycleTypeOK, AdoptedLives, ClosedIsAdoptedByNone,
     MachineRests,
     LifecycleStates

\* Executors come and go; the machine stands still.
LEMMA MembershipStep ==
    ASSUME LifecycleIInv, NEW e \in NodeExecutors,
           \/ AttachExecutor(e) \/ AttachRefused(e) \/ DetachExecutor(e)
           \/ ExecutorGoes(e) \/ RawMembership(e)
    PROVE  LifecycleIInv'
<1> USE DEF LifecycleIInv
<1>1. UNCHANGED <<node_set, lc_state, transition, started_in, trigger, failures, outcomes>>
  BY DEF AttachExecutor, AttachRefused, DetachExecutor, ExecutorGoes, RawMembership, machine
<1>2. lc_bounds' \in [transitions : Nat, raw : Nat]
  <2>1. lc_bounds' \in {lc_bounds, [lc_bounds EXCEPT !.raw = @ + 1]}
    BY DEF AttachExecutor, AttachRefused, DetachExecutor, ExecutorGoes, RawMembership
  <2> QED
    BY <2>1 DEF LifecycleTypeOK
<1>3. /\ executors_' \subseteq NodeExecutors /\ hosting' \subseteq NodeExecutors
      /\ adopted' \subseteq NodeExecutors /\ live_executors' \subseteq NodeExecutors
      /\ AdoptedLives' /\ ClosedIsAdoptedByNone'
  <2>1. CASE AttachExecutor(e)
    BY <2>1 DEF AttachExecutor, LifecycleTypeOK, AdoptedLives,
       ClosedIsAdoptedByNone
  <2>2. CASE AttachRefused(e)
    BY <2>2 DEF AttachRefused, LifecycleTypeOK, AdoptedLives,
       ClosedIsAdoptedByNone
  <2>3. CASE DetachExecutor(e)
    BY <2>3 DEF DetachExecutor, LifecycleTypeOK, AdoptedLives,
       ClosedIsAdoptedByNone
  <2>4. CASE ExecutorGoes(e)
    BY <2>4 DEF ExecutorGoes, LifecycleTypeOK, AdoptedLives,
       ClosedIsAdoptedByNone
  <2>5. CASE RawMembership(e)
    BY <2>5 DEF RawMembership, LifecycleTypeOK, AdoptedLives,
       ClosedIsAdoptedByNone
  <2> QED
    BY <2>1, <2>2, <2>3, <2>4, <2>5
<1> QED
  BY <1>1, <1>2, <1>3 DEF LifecycleTypeOK, MachineRests

LEMMA LifecycleCloseStep == LifecycleIInv /\ LifecycleClose => LifecycleIInv'
<1> SUFFICES ASSUME LifecycleIInv, LifecycleClose PROVE LifecycleIInv'
  OBVIOUS
<1>1. node_set' \in BOOLEAN
  BY Zenon DEF LifecycleClose
<1> QED
  BY <1>1 DEF LifecycleClose, LifecycleIInv, LifecycleTypeOK, AdoptedLives, ClosedIsAdoptedByNone,
     MachineRests,
     machine

LEMMA TransitionStep ==
    ASSUME LifecycleIInv,
           \/ \E k \in Kinds, by \in {"python", "service"} : TriggerTransition(k, by)
           \/ TransitionCallback \/ TakeFailure
    PROVE  LifecycleIInv'
<1> USE DEF LifecycleIInv
<1>1. CASE \E k \in Kinds, by \in {"python", "service"} : TriggerTransition(k, by)
  <2>1. PICK k \in Kinds, by \in {"python", "service"} : TriggerTransition(k, by)
    BY <1>1
  <2>2. lc_state \in LifecycleStates
    BY <2>1 DEF TriggerTransition, StartsOf, Kinds, LifecycleStates
  <2>3. lc_bounds' \in [transitions : Nat, raw : Nat]
    BY <2>1 DEF TriggerTransition, LifecycleTypeOK
  <2>4. transition' # "none"
    BY <2>1 DEF TriggerTransition, Kinds
  <2>5. UNCHANGED <<node_set, executors_, hosting, adopted, live_executors, failures,
                    outcomes>>
    BY <2>1 DEF TriggerTransition, membership
  <2>6. LifecycleTypeOK'
    BY <2>1, <2>2, <2>3, <2>5 DEF TriggerTransition, LifecycleTypeOK
  <2> QED
    BY <2>4, <2>5, <2>6 DEF AdoptedLives, ClosedIsAdoptedByNone, MachineRests
<1>2. CASE TransitionCallback
  <2>1. PICK outcome \in TransitionOutcomes :
           /\ DispatchTransition(outcome) \/ (outcome = "error" /\ DispatchContains)
           /\ lc_state' = Concluded(outcome)
           /\ transition' = IF lc_state' = "errorprocessing" THEN "on_error" ELSE "none"
           /\ trigger' = IF transition' = "none" THEN "none" ELSE trigger
    BY <1>2 DEF TransitionCallback
  <2>2. transition \in Kinds \cup {"on_error"}
    BY <1>2 DEF TransitionCallback, LifecycleTypeOK
  <2>3. Concluded(outcome) \in LifecycleStates \cup {"errorprocessing"}
    <3>1. CASE transition = "on_error"
      BY <3>1 DEF Concluded, LifecycleStates
    <3>2. CASE transition \in Kinds
      BY <3>2 DEF Concluded, LifecycleStates, GoalOf, Kinds, TransitionOutcomes,
         LifecycleTypeOK
    <3> QED
      BY <2>2, <3>1, <3>2
  <2>4. /\ failures' \in Nat
        /\ outcomes' \in [TransitionOutcomes \cup {"taken"} -> Nat]
    BY <2>1 DEF DispatchTransition, DispatchContains, LifecycleTypeOK
  <2>5. UNCHANGED <<node_set, executors_, hosting, adopted, live_executors, started_in,
                    lc_bounds>>
    BY <1>2 DEF TransitionCallback, membership
  <2>6. LifecycleTypeOK' /\ MachineRests'
    BY <2>1, <2>3, <2>4, <2>5 DEF LifecycleTypeOK, MachineRests, LifecycleStates
  <2> QED
    BY <2>5, <2>6 DEF AdoptedLives, ClosedIsAdoptedByNone
<1>3. CASE TakeFailure
  BY <1>3 DEF TakeFailure, LifecycleTypeOK, AdoptedLives, ClosedIsAdoptedByNone,
     MachineRests, membership
<1> QED
  BY <1>1, <1>2, <1>3

LEMMA StepLifecycleIInv == LifecycleIInv /\ [LifecycleNext]_lifecycleVars => LifecycleIInv'
<1> SUFFICES ASSUME LifecycleIInv, [LifecycleNext]_lifecycleVars PROVE LifecycleIInv'
  OBVIOUS
<1>1. CASE \E e \in NodeExecutors :
             \/ AttachExecutor(e) \/ AttachRefused(e) \/ DetachExecutor(e)
             \/ ExecutorGoes(e) \/ RawMembership(e)
  BY <1>1, MembershipStep
<1>2. CASE \/ \E k \in Kinds : \/ TriggerTransition(k, "python")
                               \/ TriggerTransition(k, "service")
           \/ TransitionCallback \/ TakeFailure
  BY <1>2, TransitionStep
<1>3. CASE LifecycleClose
  BY <1>3, LifecycleCloseStep
<1>4. CASE UNCHANGED lifecycleVars
  BY <1>4 DEF lifecycleVars, LifecycleIInv, LifecycleTypeOK, AdoptedLives, ClosedIsAdoptedByNone,
     MachineRests
<1> QED
  BY <1>1, <1>2, <1>3, <1>4 DEF LifecycleNext

LEMMA InductiveLifecycleIInv == LifecycleSpec => []LifecycleIInv
BY InitLifecycleIInv, StepLifecycleIInv, PTL DEF LifecycleSpec

\* The state of a lifecycle node and its executors stays well typed, for any
\* executors and any number of transitions.
THEOREM LifecycleTypeCorrect == LifecycleSpec => []LifecycleTypeOK
<1>1. LifecycleIInv => LifecycleTypeOK
  BY DEF LifecycleIInv
<1> QED
  BY <1>1, InductiveLifecycleIInv, PTL

\* An executor that attach_executor gave the node to is in the list for as
\* long as it lives and has it, so close() finds it.
THEOREM AdoptedIsListedHolds == LifecycleSpec => []AdoptedIsListed
<1>1. LifecycleIInv => AdoptedIsListed
  BY DEF LifecycleIInv, AdoptedLives, AdoptedIsListed
<1> QED
  BY <1>1, InductiveLifecycleIInv, PTL

\* Once close() has returned, no executor has the node through
\* attach_executor, whatever expired or was refused before.
THEOREM ClosedLeavesExecutors == LifecycleSpec => []ClosedIsAdoptedByNone
<1>1. LifecycleIInv => ClosedIsAdoptedByNone
  BY DEF LifecycleIInv
<1> QED
  BY <1>1, InductiveLifecycleIInv, PTL

-----------------------------------------------------------------------------
(* NativeParameters: one change at a time.                                 *)

Places == {"idle", "enter", "staged", "bind", "callback", "returned", "reading",
           "closing", "closed"}
Stages == Bridges \cup {"apply", "done"}
Holders == ParameterThreads \cup {Unowned}

ParameterTypeOK ==
    /\ node_mutex \in Holders /\ bridge_gil \in Holders
    /\ at \in [ParameterThreads -> Places]
    /\ stage \in [ParameterThreads -> Stages]
    /\ from_python \in [ParameterThreads -> BOOLEAN]
    /\ batch \in [ParameterThreads -> BOOLEAN]
    /\ verdict \in [ParameterThreads -> BOOLEAN]
    /\ erred \in [ParameterThreads -> BOOLEAN]
    /\ bridge_open \in [Bridges -> BOOLEAN]
    /\ owner \in [Bridges -> {"state", "reaper", "nobody"}]
    /\ changes \in Nat /\ applied \in Nat
    /\ parameter_counts \in [Bridges -> [ParameterCounters -> Nat]]

\* A change has the mutex from its first stage to its last, bridges included.
ChangeHasMutex ==
    \A t \in ParameterThreads :
        at[t] \in {"staged", "bind", "callback", "returned"} <=> node_mutex = t

\* An invocation is at a bridge, and a change starts at the first.
StagesFit ==
    \A t \in ParameterThreads :
        /\ at[t] \in {"bind", "callback", "returned", "closing"} => stage[t] \in Bridges
        /\ at[t] = "enter" => stage[t] = "pre"
        /\ stage[t] = "apply" => at[t] = "staged"

\* What a change knows of its callbacks on the way to being applied: none
\* failed, there is something left, or what it has now will be its end.
TroubleEnds ==
    \A t \in ParameterThreads :
        /\ stage[t] = "pre" /\ at[t] \in {"enter", "staged", "bind"} =>
                batch[t] /\ ~erred[t]
        /\ stage[t] = "pre" /\ at[t] = "callback" => ~erred[t]
        /\ stage[t] = "pre" /\ at[t] = "returned" => (erred[t] => ~batch[t])
        /\ stage[t] = "on" /\ at[t] \in {"staged", "bind", "callback"} =>
                batch[t] /\ ~erred[t]
        /\ stage[t] = "on" /\ at[t] = "returned" =>
                batch[t] /\ (erred[t] => ~verdict[t])

Inside(b) == {t \in Invoked(b) : at[t] # "returned"}
Refused(b) == {t \in Invoked(b) : at[t] = "returned" /\ ~verdict[t]}

\* The counters of one bridge.
Balanced(b) ==
    /\ parameter_counts[b]["calls"] = parameter_counts[b]["clean"]
            + parameter_counts[b]["exceptions"] + Cardinality(Inside(b))
    /\ parameter_counts[b]["bridge_errors"] <= parameter_counts[b]["exceptions"]
    /\ b = "on" => parameter_counts[b]["rejections"] + Cardinality(Refused(b))
                        >= parameter_counts[b]["exceptions"]

AllBalanced == \A b \in Bridges : Balanced(b)

ParameterIInv ==
    /\ ParameterTypeOK /\ ChangeHasMutex /\ StagesFit /\ TroubleEnds
    /\ AppliedIsUntroubled /\ AllBalanced /\ ReferencesOwned

-----------------------------------------------------------------------------
LEMMA TalliedCounts ==
    ASSUME NEW b \in Bridges, NEW added, Tallied(b, added),
           parameter_counts \in [Bridges -> [ParameterCounters -> Nat]]
    PROVE  /\ parameter_counts' \in [Bridges -> [ParameterCounters -> Nat]]
           /\ \A c \in ParameterCounters : parameter_counts'[b][c] =
                parameter_counts[b][c] + IF c \in added THEN 1 ELSE 0
           /\ \A d \in Bridges : d # b => parameter_counts'[d] = parameter_counts[d]
<1>1. PICK row : row = [c \in ParameterCounters |-> parameter_counts[b][c] +
                                IF c \in added THEN 1 ELSE 0]
  OBVIOUS
<1>2. row \in [ParameterCounters -> Nat]
  BY <1>1
<1>3. parameter_counts' = [parameter_counts EXCEPT ![b] = row]
  BY <1>1 DEF Tallied
<1> QED
  BY <1>1, <1>2, <1>3

\* Only the thread with the mutex is in an invocation.
LEMMA InvokedHasMutex ==
    ASSUME ParameterIInv, NEW b \in Bridges, NEW t \in Invoked(b)
    PROVE  t = node_mutex /\ t \in ParameterThreads /\ stage[t] = b
BY DEF ParameterIInv, ChangeHasMutex, Invoked

LEMMA Sizes == /\ Cardinality({}) = 0
               /\ \A x : Cardinality({x}) = 1
<1>1. Cardinality({}) = 0
  BY FS_EmptySet, Zenon
<1>2. \A x : Cardinality({x}) = 1
  BY FS_Singleton, Zenon
<1> QED
  BY <1>1, <1>2

LEMMA InitParameterIInv == NativeParametersInit => ParameterIInv
<1> SUFFICES ASSUME NativeParametersInit PROVE ParameterIInv
  OBVIOUS
<1>1. ParameterTypeOK
  <2>1. /\ from_python \in [ParameterThreads -> BOOLEAN]
        /\ batch \in [ParameterThreads -> BOOLEAN]
        /\ verdict \in [ParameterThreads -> BOOLEAN]
        /\ erred \in [ParameterThreads -> BOOLEAN]
    BY DEF NativeParametersInit
  <2>2. owner \in [Bridges -> {"state", "reaper", "nobody"}]
    BY DEF NativeParametersInit
  <2>3. parameter_counts \in [Bridges -> [ParameterCounters -> Nat]]
    BY DEF NativeParametersInit
  <2> QED
    BY <2>1, <2>2, <2>3 DEF NativeParametersInit, ParameterTypeOK, Holders, Places,
       Stages, Bridges
<1>2. ChangeHasMutex /\ StagesFit /\ AppliedIsUntroubled
  BY ParameterAssumption DEF NativeParametersInit, ChangeHasMutex, StagesFit,
     AppliedIsUntroubled
<1>3. TroubleEnds
  BY DEF NativeParametersInit, TroubleEnds
<1>4. \A b \in Bridges : Invoked(b) = {} /\ Inside(b) = {} /\ Refused(b) = {}
  BY DEF NativeParametersInit, Invoked, Inside, Refused
<1>5. AllBalanced
  <2>1. \A b \in Bridges : parameter_counts[b] = [c \in ParameterCounters |-> 0]
    BY DEF NativeParametersInit
  <2>2. \A b \in Bridges : \A c \in ParameterCounters : parameter_counts[b][c] = 0
    BY <2>1
  <2> QED
    BY <1>4, <2>2, Sizes DEF AllBalanced, Balanced, ParameterCounters
<1>6. ReferencesOwned
  BY <1>4 DEF NativeParametersInit, ReferencesOwned
<1> QED
  BY <1>1, <1>2, <1>3, <1>5, <1>6 DEF ParameterIInv

InInvocation(t) == at[t] \in {"bind", "callback", "returned"}

\* A step of a thread that is in no invocation before or after it.
LEMMA StepOutside ==
    ASSUME NEW t \in ParameterThreads, ~InInvocation(t), ~InInvocation(t)',
           \A u \in ParameterThreads : u # t =>
                /\ at'[u] = at[u] /\ stage'[u] = stage[u] /\ verdict'[u] = verdict[u]
    PROVE  \A b \in Bridges :
                Invoked(b)' = Invoked(b) /\ Inside(b)' = Inside(b) /\ Refused(b)' = Refused(b)
<1>1. \A b \in Bridges : Invoked(b)' = Invoked(b)
  BY DEF InInvocation, Invoked
<1>2. \A b \in Bridges : \A u \in Invoked(b) :
        u # t /\ at'[u] = at[u] /\ verdict'[u] = verdict[u]
  BY DEF InInvocation, Invoked
<1>3. \A b \in Bridges : Inside(b)' = Inside(b)
  BY <1>1, <1>2 DEF Inside
<1>4. \A b \in Bridges : Refused(b)' = Refused(b)
  BY <1>1, <1>2 DEF Refused
<1> QED
  BY <1>1, <1>3, <1>4

\* Then the counters and the owners that do not change still fit.
LEMMA QuietStep ==
    ASSUME ParameterIInv,
           \A b \in Bridges :
                Invoked(b)' = Invoked(b) /\ Inside(b)' = Inside(b) /\ Refused(b)' = Refused(b)
    PROVE  /\ UNCHANGED parameter_counts => AllBalanced'
           /\ UNCHANGED <<bridge_open, owner>> => ReferencesOwned'
BY DEF ParameterIInv, AllBalanced, Balanced, ReferencesOwned

\* A change begins, from a service or from Python.
LEMMA BeginStep ==
    ASSUME ParameterIInv, NEW t \in ParameterThreads, NEW python \in BOOLEAN,
           BeginChange(t, python), bridge_gil' \in Holders
    PROVE  ParameterIInv'
<1> USE DEF ParameterIInv
<1>1. /\ at[t] = "idle" /\ at' = [at EXCEPT ![t] = "enter"]
      /\ stage' = [stage EXCEPT ![t] = "pre"]
      /\ UNCHANGED <<node_mutex, bridge_open, owner, applied, parameter_counts>>
  BY DEF BeginChange, StepsTo
<1>2. /\ batch' = [batch EXCEPT ![t] = TRUE] /\ verdict' = [verdict EXCEPT ![t] = FALSE]
      /\ erred' = [erred EXCEPT ![t] = FALSE]
      /\ from_python' = [from_python EXCEPT ![t] = python]
  BY DEF BeginChange
<1>3. /\ batch' \in [ParameterThreads -> BOOLEAN] /\ batch'[t]
      /\ verdict' \in [ParameterThreads -> BOOLEAN]
      /\ erred' \in [ParameterThreads -> BOOLEAN] /\ ~erred'[t]
      /\ from_python' \in [ParameterThreads -> BOOLEAN]
      /\ \A u \in ParameterThreads : u # t =>
            batch'[u] = batch[u] /\ verdict'[u] = verdict[u] /\ erred'[u] = erred[u]
  BY <1>2 DEF ParameterTypeOK
<1>4. /\ at'[t] = "enter" /\ stage'[t] = "pre"
      /\ at' \in [ParameterThreads -> Places] /\ stage' \in [ParameterThreads -> Stages]
      /\ \A u \in ParameterThreads : u # t => at'[u] = at[u] /\ stage'[u] = stage[u]
  BY <1>1 DEF ParameterTypeOK, Places, Stages, Bridges
<1>5. changes' \in Nat
  BY DEF BeginChange, ParameterTypeOK
<1>6. ParameterTypeOK'
  BY <1>1, <1>3, <1>4, <1>5 DEF ParameterTypeOK
<1>7. ChangeHasMutex'
  BY <1>1, <1>4 DEF ChangeHasMutex
<1>8. StagesFit'
  BY <1>4 DEF StagesFit
<1>9. TroubleEnds'
  BY <1>3, <1>4 DEF TroubleEnds
<1>10. AppliedIsUntroubled'
  BY <1>3, <1>4 DEF AppliedIsUntroubled
<1>11. ~InInvocation(t) /\ ~InInvocation(t)'
  BY <1>1, <1>4 DEF InInvocation
<1>12. AllBalanced' /\ ReferencesOwned'
  BY <1>1, <1>3, <1>4, <1>11, StepOutside, QuietStep
<1> QED
  BY <1>6, <1>7, <1>8, <1>9, <1>10, <1>12

\* What a thread's move to a place does to the others: nothing.
LEMMA MoveTo ==
    ASSUME ParameterTypeOK, NEW t \in ParameterThreads, NEW place \in Places,
           StepsTo(t, place)
    PROVE  /\ at' \in [ParameterThreads -> Places] /\ at'[t] = place
           /\ \A u \in ParameterThreads : u # t => at'[u] = at[u]
BY DEF ParameterTypeOK, StepsTo

LEMMA StageTo ==
    ASSUME ParameterTypeOK, NEW t \in ParameterThreads, NEW s \in Stages,
           stage' = [stage EXCEPT ![t] = s]
    PROVE  /\ stage' \in [ParameterThreads -> Stages] /\ stage'[t] = s
           /\ \A u \in ParameterThreads : u # t => stage'[u] = stage[u]
BY DEF ParameterTypeOK

LEMMA EnterStep ==
    ASSUME ParameterIInv, NEW t \in ParameterThreads, EnterNode(t)
    PROVE  ParameterIInv'
<1> USE DEF ParameterIInv
<1>1. /\ at[t] = "enter" /\ node_mutex = Unowned /\ node_mutex' = t
      /\ StepsTo(t, "staged") /\ UNCHANGED changing
      /\ UNCHANGED <<bridge_gil, bridge_open, owner, changes, applied, parameter_counts>>
  BY DEF EnterNode
<1>2. /\ at' \in [ParameterThreads -> Places] /\ at'[t] = "staged"
      /\ \A u \in ParameterThreads : u # t => at'[u] = at[u]
  BY <1>1, MoveTo DEF Places
<1>3. UNCHANGED <<stage, from_python, batch, verdict, erred>>
  BY <1>1 DEF changing
<1>4. ParameterTypeOK'
  BY <1>1, <1>2, <1>3 DEF ParameterTypeOK, Holders
<1>5. ChangeHasMutex'
  BY <1>1, <1>2, ParameterAssumption DEF ChangeHasMutex
<1>6. StagesFit'
  BY <1>1, <1>2, <1>3 DEF StagesFit
<1>7. TroubleEnds'
  BY <1>1, <1>2, <1>3 DEF TroubleEnds, StagesFit
<1>8. AppliedIsUntroubled'
  BY <1>3 DEF AppliedIsUntroubled
<1>9. ~InInvocation(t) /\ ~InInvocation(t)'
  BY <1>1, <1>2 DEF InInvocation
<1>10. AllBalanced' /\ ReferencesOwned'
  BY <1>1, <1>2, <1>3, <1>9, StepOutside, QuietStep
<1> QED
  BY <1>4, <1>5, <1>6, <1>7, <1>8, <1>10

LEMMA BridgeLeaveStep ==
    ASSUME ParameterIInv, NEW t \in ParameterThreads, LeaveNode(t)
    PROVE  ParameterIInv'
<1> USE DEF ParameterIInv
<1>1. /\ at[t] = "staged" /\ stage[t] = "done" /\ node_mutex' = Unowned
      /\ bridge_gil' \in {Unowned, bridge_gil}
      /\ StepsTo(t, "idle") /\ UNCHANGED changing
      /\ UNCHANGED <<bridge_open, owner, changes, applied, parameter_counts>>
  BY DEF LeaveNode
<1>2. /\ at' \in [ParameterThreads -> Places] /\ at'[t] = "idle"
      /\ \A u \in ParameterThreads : u # t => at'[u] = at[u]
  BY <1>1, MoveTo DEF Places
<1>3. UNCHANGED <<stage, from_python, batch, verdict, erred>>
  BY <1>1 DEF changing
<1>4. ParameterTypeOK'
  BY <1>1, <1>2, <1>3 DEF ParameterTypeOK, Holders
<1>5. ChangeHasMutex'
  BY <1>1, <1>2, ParameterAssumption DEF ChangeHasMutex
<1>6. StagesFit'
  BY <1>1, <1>2, <1>3 DEF StagesFit
<1>7. TroubleEnds'
  BY <1>1, <1>2, <1>3 DEF TroubleEnds
<1>8. AppliedIsUntroubled'
  BY <1>3 DEF AppliedIsUntroubled
<1>9. ~InInvocation(t) /\ ~InInvocation(t)'
  BY <1>1, <1>2 DEF InInvocation
<1>10. AllBalanced' /\ ReferencesOwned'
  BY <1>1, <1>2, <1>3, <1>9, StepOutside, QuietStep
<1> QED
  BY <1>4, <1>5, <1>6, <1>7, <1>8, <1>10

LEMMA ApplyStep ==
    ASSUME ParameterIInv, NEW t \in ParameterThreads, ApplyChange(t)
    PROVE  ParameterIInv'
<1> USE DEF ParameterIInv
<1>1. /\ at[t] = "staged" /\ stage[t] = "apply" /\ applied' = applied + 1
      /\ stage' = [stage EXCEPT ![t] = "post"]
      /\ UNCHANGED <<node_mutex, bridge_gil, at, from_python, batch, verdict, erred,
                     bridge_open, owner, changes, parameter_counts>>
  BY DEF ApplyChange
<1>2. /\ stage' \in [ParameterThreads -> Stages] /\ stage'[t] = "post"
      /\ \A u \in ParameterThreads : u # t => stage'[u] = stage[u]
  BY <1>1, StageTo DEF Stages, Bridges
<1>3. ParameterTypeOK'
  BY <1>1, <1>2 DEF ParameterTypeOK
<1>4. ChangeHasMutex'
  BY <1>1 DEF ChangeHasMutex
<1>5. StagesFit'
  BY <1>1, <1>2 DEF StagesFit
<1>6. TroubleEnds'
  BY <1>1, <1>2 DEF TroubleEnds
<1>7. AppliedIsUntroubled'
  BY <1>1, <1>2 DEF AppliedIsUntroubled
<1>8. ~InInvocation(t) /\ ~InInvocation(t)'
  BY <1>1 DEF InInvocation
<1>9. AllBalanced' /\ ReferencesOwned'
  BY <1>1, <1>2, <1>8, StepOutside, QuietStep
<1> QED
  BY <1>3, <1>4, <1>5, <1>6, <1>7, <1>9

\* Whoever takes or gives the GIL, nothing else is about it.
LEMMA GilStep ==
    ASSUME ParameterIInv, bridge_gil' \in Holders,
           UNCHANGED <<node_mutex, at, changing, bridge_open, owner, changes, applied,
                       parameter_counts>>
    PROVE  ParameterIInv'
<1>1. UNCHANGED <<stage, from_python, batch, verdict, erred>>
  BY DEF changing
<1>2. \A b \in Bridges :
        Invoked(b)' = Invoked(b) /\ Inside(b)' = Inside(b) /\ Refused(b)' = Refused(b)
  BY <1>1 DEF Invoked, Inside, Refused
<1>3. AllBalanced' /\ ReferencesOwned'
  BY <1>2, QuietStep
<1>4. ParameterTypeOK'
  BY <1>1 DEF ParameterIInv, ParameterTypeOK
<1> QED
  BY <1>1, <1>3, <1>4 DEF ParameterIInv, ChangeHasMutex, StagesFit, TroubleEnds,
     AppliedIsUntroubled

\* A read, or the way through close(): at places where no change is.
LEMMA AsideStep ==
    ASSUME ParameterIInv, NEW t \in ParameterThreads,
           NEW place \in {"idle", "reading", "closed"}, StepsTo(t, place),
           at[t] \in {"idle", "reading", "closing", "closed"}, bridge_gil' \in Holders,
           bridge_open' \in [Bridges -> BOOLEAN],
           owner' \in [Bridges -> {"state", "reaper", "nobody"}], ReferencesOwned',
           UNCHANGED <<node_mutex, changing, changes, applied, parameter_counts>>
    PROVE  ParameterIInv'
<1> USE DEF ParameterIInv
<1>1. /\ at' \in [ParameterThreads -> Places] /\ at'[t] = place
      /\ \A u \in ParameterThreads : u # t => at'[u] = at[u]
  BY MoveTo DEF Places
<1>2. UNCHANGED <<stage, from_python, batch, verdict, erred>>
  BY DEF changing
<1>3. ParameterTypeOK'
  BY <1>1, <1>2 DEF ParameterTypeOK
<1>4. ChangeHasMutex'
  BY <1>1 DEF ChangeHasMutex
<1>5. StagesFit'
  BY <1>1, <1>2 DEF StagesFit
<1>6. TroubleEnds'
  BY <1>1, <1>2 DEF TroubleEnds
<1>7. AppliedIsUntroubled'
  BY <1>2 DEF AppliedIsUntroubled
<1>8. ~InInvocation(t) /\ ~InInvocation(t)'
  BY <1>1 DEF InInvocation
<1>9. AllBalanced'
  BY <1>1, <1>2, <1>8, StepOutside, QuietStep
<1> QED
  BY <1>3, <1>4, <1>5, <1>6, <1>7, <1>9

\* Such a step leaves the invocations alone.
LEMMA InvocationsAside ==
    ASSUME ParameterIInv, NEW t \in ParameterThreads,
           NEW place \in {"idle", "reading", "closing", "closed"}, StepsTo(t, place),
           at[t] \in {"idle", "reading", "closing", "closed"},
           \A u \in ParameterThreads : u # t => stage'[u] = stage[u]
    PROVE  \A b \in Bridges : Invoked(b)' = Invoked(b)
<1>1. /\ at'[t] = place /\ \A u \in ParameterThreads : u # t => at'[u] = at[u]
  BY MoveTo DEF ParameterIInv, Places
<1> QED
  BY <1>1 DEF Invoked

LEMMA ReadSteps ==
    ASSUME ParameterIInv, NEW t \in ParameterThreads, PythonRead(t) \/ ReadReturns(t)
    PROVE  ParameterIInv'
<1>1. PICK place \in {"idle", "reading"} : StepsTo(t, place)
  BY DEF PythonRead, ReadReturns
<1>2. /\ at[t] \in {"idle", "reading"} /\ bridge_gil' \in Holders
      /\ UNCHANGED <<node_mutex, changing, bridge_open, owner, changes, applied,
                     parameter_counts>>
  BY DEF PythonRead, ReadReturns, Holders
<1>3. UNCHANGED stage
  BY <1>2 DEF changing
<1>4. \A b \in Bridges : Invoked(b)' = Invoked(b)
  BY <1>1, <1>2, <1>3, InvocationsAside
<1>5. ReferencesOwned'
  BY <1>2, <1>4 DEF ParameterIInv, ReferencesOwned
<1> QED
  BY <1>1, <1>2, <1>5, AsideStep DEF ParameterIInv, ParameterTypeOK

LEMMA CloseBegins ==
    ASSUME ParameterIInv, NEW t \in ParameterThreads, NEW b \in Bridges,
           CloseBridgeBegins(t, b)
    PROVE  ParameterIInv'
<1> USE DEF ParameterIInv
<1>1. /\ at[t] = "idle" /\ StepsTo(t, "closing") /\ stage' = [stage EXCEPT ![t] = b]
      /\ UNCHANGED <<node_mutex, bridge_gil, from_python, batch, verdict, erred,
                     bridge_open, owner, changes, applied, parameter_counts>>
  BY DEF CloseBridgeBegins
<1>2. /\ at' \in [ParameterThreads -> Places] /\ at'[t] = "closing"
      /\ \A u \in ParameterThreads : u # t => at'[u] = at[u]
  BY <1>1, MoveTo DEF Places
<1>3. /\ stage' \in [ParameterThreads -> Stages] /\ stage'[t] = b
      /\ \A u \in ParameterThreads : u # t => stage'[u] = stage[u]
  BY <1>1, StageTo DEF Stages
<1>4. b \notin {"apply", "done"}
  BY DEF Bridges
<1>5. ParameterTypeOK'
  BY <1>1, <1>2, <1>3 DEF ParameterTypeOK
<1>6. ChangeHasMutex'
  BY <1>1, <1>2 DEF ChangeHasMutex
<1>7. StagesFit'
  BY <1>2, <1>3, <1>4 DEF StagesFit
<1>8. TroubleEnds'
  BY <1>1, <1>2, <1>3 DEF TroubleEnds
<1>9. AppliedIsUntroubled'
  BY <1>1, <1>3, <1>4 DEF AppliedIsUntroubled
<1>10. ~InInvocation(t) /\ ~InInvocation(t)'
  BY <1>1, <1>2 DEF InInvocation
<1>11. AllBalanced' /\ ReferencesOwned'
  BY <1>1, <1>2, <1>3, <1>10, StepOutside, QuietStep
<1> QED
  BY <1>5, <1>6, <1>7, <1>8, <1>9, <1>11

\* The state of the bridge goes, for no thread is in the node.
LEMMA CloseRemovesStep ==
    ASSUME ParameterIInv, NEW t \in ParameterThreads, CloseRemoves(t)
    PROVE  ParameterIInv'
<1> USE DEF ParameterIInv
<1>1. PICK b \in Bridges : b = stage[t]
  BY DEF StagesFit, CloseRemoves
<1>2. /\ at[t] = "closing" /\ node_mutex = Unowned /\ StepsTo(t, "closed")
      /\ bridge_open' = [bridge_open EXCEPT ![b] = FALSE]
      /\ Retire(IF Invoked(b) = {} THEN {b} ELSE {})
      /\ UNCHANGED <<node_mutex, bridge_gil, changing, changes, applied,
                     parameter_counts>>
  BY <1>1 DEF CloseRemoves
<1>3. \A c \in Bridges : Invoked(c) = {}
  BY <1>2, InvokedHasMutex, ParameterAssumption
<1>4. /\ owner' \in [Bridges -> {"state", "reaper", "nobody"}] /\ owner'[b] # "state"
      /\ \A c \in Bridges : c # b => owner'[c] = owner[c]
  BY <1>2, <1>3 DEF Retire, ParameterTypeOK
<1>5. /\ bridge_open' \in [Bridges -> BOOLEAN] /\ ~bridge_open'[b]
      /\ \A c \in Bridges : c # b => bridge_open'[c] = bridge_open[c]
  BY <1>2 DEF ParameterTypeOK
<1>6. UNCHANGED stage
  BY <1>2 DEF changing
<1>7. \A c \in Bridges : Invoked(c)' = {}
  BY <1>2, <1>3, <1>6, InvocationsAside
<1>8. ReferencesOwned'
  <2>1. ASSUME NEW c \in Bridges PROVE bridge_open'[c] <=> owner'[c] = "state"
    <3>1. CASE c = b
      BY <1>4, <1>5, <3>1
    <3>2. CASE c # b
      BY <1>3, <1>4, <1>5, <3>2 DEF ReferencesOwned
    <3> QED
      BY <3>1, <3>2
  <2> QED
    BY <1>7, <2>1 DEF ReferencesOwned
<1> QED
  BY <1>2, <1>4, <1>5, <1>8, AsideStep DEF ParameterTypeOK

LEMMA BridgeDrained ==
    ASSUME NEW before \in [Bridges -> {"state", "reaper", "nobody"}]
    PROVE  /\ DrainedOwners(before) \in [Bridges -> {"state", "reaper", "nobody"}]
           /\ \A b \in Bridges : DrainedOwners(before)[b] = "state" <=> before[b] = "state"
BY DEF DrainedOwners

LEMMA CloseDrainsStep ==
    ASSUME ParameterIInv, NEW t \in ParameterThreads, CloseBridgeDrains(t)
    PROVE  ParameterIInv'
<1> USE DEF ParameterIInv
<1>1. /\ at[t] = "closed" /\ owner' = DrainedOwners(owner) /\ StepsTo(t, "idle")
      /\ UNCHANGED <<node_mutex, bridge_gil, changing, bridge_open, changes, applied,
                     parameter_counts>>
  BY DEF CloseBridgeDrains
<1>2. owner \in [Bridges -> {"state", "reaper", "nobody"}]
  BY DEF ParameterTypeOK
<1>3. /\ owner' \in [Bridges -> {"state", "reaper", "nobody"}]
      /\ \A b \in Bridges : owner'[b] = "state" <=> owner[b] = "state"
  BY <1>1, <1>2, BridgeDrained
<1>4. UNCHANGED stage
  BY <1>1 DEF changing
<1>5. \A b \in Bridges : Invoked(b)' = Invoked(b)
  BY <1>1, <1>4, InvocationsAside
<1>6. ReferencesOwned'
  BY <1>1, <1>3, <1>5 DEF ReferencesOwned
<1> QED
  BY <1>1, <1>3, <1>6, AsideStep DEF ParameterTypeOK

\* Owners and handles change under threads that stay where they are.
LEMMA OwnersStep ==
    ASSUME ParameterIInv, bridge_open' \in [Bridges -> BOOLEAN],
           owner' \in [Bridges -> {"state", "reaper", "nobody"}],
           UNCHANGED <<node_mutex, bridge_gil, at, changing, changes, applied,
                       parameter_counts>>,
           \A b \in Bridges :
                bridge_open'[b] \/ Invoked(b) # {} <=> owner'[b] = "state"
    PROVE  ParameterIInv'
<1>1. UNCHANGED <<stage, from_python, batch, verdict, erred>>
  BY DEF changing
<1>2. \A b \in Bridges :
        Invoked(b)' = Invoked(b) /\ Inside(b)' = Inside(b) /\ Refused(b)' = Refused(b)
  BY <1>1 DEF Invoked, Inside, Refused
<1>3. AllBalanced'
  BY <1>2, QuietStep
<1>4. ReferencesOwned'
  BY <1>2 DEF ReferencesOwned
<1>5. ParameterTypeOK'
  BY <1>1 DEF ParameterIInv, ParameterTypeOK
<1> QED
  BY <1>1, <1>3, <1>4, <1>5 DEF ParameterIInv, ChangeHasMutex, StagesFit, TroubleEnds,
     AppliedIsUntroubled

LEMMA BridgeDrainStep == ASSUME ParameterIInv, DrainParameters PROVE ParameterIInv'
<1>1. owner \in [Bridges -> {"state", "reaper", "nobody"}]
  BY DEF ParameterIInv, ParameterTypeOK
<1>2. /\ owner' \in [Bridges -> {"state", "reaper", "nobody"}]
      /\ \A b \in Bridges : owner'[b] = "state" <=> owner[b] = "state"
  BY <1>1, BridgeDrained DEF DrainParameters
<1> QED
  BY <1>2, OwnersStep DEF DrainParameters, ParameterIInv, ParameterTypeOK, ReferencesOwned

LEMMA CloseInsideStep ==
    ASSUME ParameterIInv, NEW t \in ParameterThreads, NEW b \in Bridges,
           CloseInsideCallback(t, b)
    PROVE  ParameterIInv'
<1> USE DEF ParameterIInv
<1>1. /\ bridge_open[b] /\ bridge_open' = [bridge_open EXCEPT ![b] = FALSE]
      /\ UNCHANGED <<node_mutex, bridge_gil, at, changing, changes, applied,
                     parameter_counts>>
  BY DEF CloseInsideCallback
<1>2. PICK before : before = [owner EXCEPT ![b] = IF Invoked(b) = {} THEN "reaper" ELSE @]
  OBVIOUS
<1>3. owner \in [Bridges -> {"state", "reaper", "nobody"}] /\ owner[b] = "state"
  BY <1>1 DEF ParameterTypeOK, ReferencesOwned
<1>4. /\ before \in [Bridges -> {"state", "reaper", "nobody"}]
      /\ before[b] = "state" <=> Invoked(b) # {}
      /\ \A c \in Bridges : c # b => before[c] = owner[c]
  BY <1>2, <1>3
<1>5. owner' = DrainedOwners(before)
  BY <1>2 DEF CloseInsideCallback
<1>6. /\ owner' \in [Bridges -> {"state", "reaper", "nobody"}]
      /\ \A c \in Bridges : owner'[c] = "state" <=> before[c] = "state"
  BY <1>4, <1>5, BridgeDrained
<1>7. /\ bridge_open' \in [Bridges -> BOOLEAN] /\ ~bridge_open'[b]
      /\ \A c \in Bridges : c # b => bridge_open'[c] = bridge_open[c]
  BY <1>1 DEF ParameterTypeOK
<1>8. ASSUME NEW c \in Bridges
      PROVE  bridge_open'[c] \/ Invoked(c) # {} <=> owner'[c] = "state"
  <2>1. CASE c = b
    BY <1>4, <1>6, <1>7, <2>1
  <2>2. CASE c # b
    BY <1>4, <1>6, <1>7, <2>2 DEF ReferencesOwned
  <2> QED
    BY <2>1, <2>2
<1> QED
  BY <1>1, <1>6, <1>7, <1>8, OwnersStep

-----------------------------------------------------------------------------
(* Inside the node a thread is alone, so the counters are about it.        *)

LEMMA AloneBefore ==
    ASSUME ChangeHasMutex, NEW t \in ParameterThreads, node_mutex = t
    PROVE  \A c \in Bridges :
            /\ Invoked(c) = IF InInvocation(t) /\ stage[t] = c THEN {t} ELSE {}
            /\ Cardinality(Inside(c)) =
                    IF at[t] \in {"bind", "callback"} /\ stage[t] = c THEN 1 ELSE 0
            /\ Cardinality(Refused(c)) =
                    IF at[t] = "returned" /\ stage[t] = c /\ ~verdict[t] THEN 1 ELSE 0
<1>1. ASSUME NEW c \in Bridges
      PROVE  Invoked(c) = IF InInvocation(t) /\ stage[t] = c THEN {t} ELSE {}
  BY DEF ChangeHasMutex, Invoked, InInvocation
<1>2. ASSUME NEW c \in Bridges
      PROVE  Inside(c) = IF at[t] \in {"bind", "callback"} /\ stage[t] = c
                         THEN {t} ELSE {}
  BY <1>1 DEF Inside, InInvocation
<1>3. ASSUME NEW c \in Bridges
      PROVE  Refused(c) = IF at[t] = "returned" /\ stage[t] = c /\ ~verdict[t]
                          THEN {t} ELSE {}
  BY <1>1 DEF Refused, InInvocation
<1> QED
  BY <1>1, <1>2, <1>3, Sizes

LEMMA AloneAfter ==
    ASSUME ChangeHasMutex', NEW t \in ParameterThreads, node_mutex' = t
    PROVE  \A c \in Bridges :
            /\ Invoked(c)' = IF InInvocation(t)' /\ stage'[t] = c THEN {t} ELSE {}
            /\ Cardinality(Inside(c)') =
                    IF at'[t] \in {"bind", "callback"} /\ stage'[t] = c THEN 1 ELSE 0
            /\ Cardinality(Refused(c)') =
                    IF at'[t] = "returned" /\ stage'[t] = c /\ ~verdict'[t] THEN 1 ELSE 0
<1>1. ASSUME NEW c \in Bridges
      PROVE  Invoked(c)' = IF InInvocation(t)' /\ stage'[t] = c THEN {t} ELSE {}
  BY DEF ChangeHasMutex, Invoked, InInvocation
<1>2. ASSUME NEW c \in Bridges
      PROVE  Inside(c)' = IF at'[t] \in {"bind", "callback"} /\ stage'[t] = c
                          THEN {t} ELSE {}
  BY <1>1 DEF Inside, InInvocation
<1>3. ASSUME NEW c \in Bridges
      PROVE  Refused(c)' = IF at'[t] = "returned" /\ stage'[t] = c /\ ~verdict'[t]
                           THEN {t} ELSE {}
  BY <1>1 DEF Refused, InInvocation
<1> QED
  BY <1>1, <1>2, <1>3, Sizes

\* A thread stays inside the node: what it does to its bridge decides.
LEMMA StayStep ==
    ASSUME ParameterIInv, NEW t \in ParameterThreads, node_mutex = t,
           UNCHANGED <<node_mutex, from_python, changes, applied>>,
           bridge_gil' \in Holders,
           at' \in [ParameterThreads -> Places],
           at'[t] \in {"staged", "bind", "callback", "returned"},
           stage' \in [ParameterThreads -> Stages],
           batch' \in [ParameterThreads -> BOOLEAN],
           verdict' \in [ParameterThreads -> BOOLEAN],
           erred' \in [ParameterThreads -> BOOLEAN],
           bridge_open' = bridge_open,
           owner' \in [Bridges -> {"state", "reaper", "nobody"}],
           parameter_counts' \in [Bridges -> [ParameterCounters -> Nat]],
           \A u \in ParameterThreads : u # t =>
                /\ at'[u] = at[u] /\ stage'[u] = stage[u] /\ batch'[u] = batch[u]
                /\ verdict'[u] = verdict[u] /\ erred'[u] = erred[u],
           stage'[t] = "apply" => ~erred'[t] /\ batch'[t]
    PROVE  ParameterTypeOK' /\ ChangeHasMutex' /\ AppliedIsUntroubled'
<1> USE DEF ParameterIInv
<1>1. ParameterTypeOK'
  BY DEF ParameterTypeOK
<1>2. ChangeHasMutex'
  BY DEF ChangeHasMutex
<1>3. AppliedIsUntroubled'
  BY DEF AppliedIsUntroubled
<1> QED
  BY <1>1, <1>2, <1>3

LEMMA BridgesElsewhere ==
    ASSUME ParameterIInv, NEW t \in ParameterThreads, node_mutex = t,
           ChangeHasMutex', node_mutex' = t, NEW c \in Bridges,
           c # stage[t], c # stage'[t], parameter_counts'[c] = parameter_counts[c]
    PROVE  Balanced(c)' /\ Invoked(c) = {} /\ Invoked(c)' = {}
<1>1. /\ Invoked(c) = {} /\ Cardinality(Inside(c)) = 0 /\ Cardinality(Refused(c)) = 0
  BY AloneBefore DEF ParameterIInv
<1>2. /\ Invoked(c)' = {} /\ Cardinality(Inside(c)') = 0 /\ Cardinality(Refused(c)') = 0
  BY AloneAfter
<1>3. Balanced(c)
  BY DEF ParameterIInv, AllBalanced
<1> QED
  BY <1>1, <1>2, <1>3 DEF Balanced

LEMMA CallBridgeStep ==
    ASSUME ParameterIInv, NEW t \in ParameterThreads, CallBridge(t)
    PROVE  ParameterIInv'
<1> USE DEF ParameterIInv
<1>1. PICK b \in Bridges : b = stage[t]
  BY DEF CallBridge
<1>2. /\ at[t] = "staged" /\ node_mutex = t
      /\ UNCHANGED <<node_mutex, bridge_gil, from_python, batch, verdict, erred,
                     bridge_open, owner, changes, applied>>
  BY DEF CallBridge, ChangeHasMutex
<1>3. /\ \A c \in Bridges : Invoked(c) = {} /\ Cardinality(Inside(c)) = 0
                                /\ Cardinality(Refused(c)) = 0
  BY <1>2, AloneBefore DEF InInvocation
<1>4. CASE bridge_open[b]
  <2>1. /\ StepsTo(t, "bind") /\ Tallied(b, {"calls"}) /\ UNCHANGED stage
    BY <1>1, <1>4 DEF CallBridge
  <2>2. /\ at' \in [ParameterThreads -> Places] /\ at'[t] = "bind"
        /\ \A u \in ParameterThreads : u # t => at'[u] = at[u]
    BY <2>1, MoveTo DEF Places
  <2>3. /\ parameter_counts' \in [Bridges -> [ParameterCounters -> Nat]]
        /\ \A c \in ParameterCounters : parameter_counts'[b][c] =
                parameter_counts[b][c] + IF c \in {"calls"} THEN 1 ELSE 0
        /\ \A d \in Bridges : d # b => parameter_counts'[d] = parameter_counts[d]
    BY <2>1, TalliedCounts DEF ParameterTypeOK
  <2>4. ParameterTypeOK'
    BY <1>2, <2>1, <2>2, <2>3 DEF ParameterTypeOK
  <2>5. ChangeHasMutex' /\ StagesFit'
    <3>1. ChangeHasMutex'
      BY <1>2, <2>2 DEF ChangeHasMutex
    <3>2. b \notin {"apply", "done"}
      BY DEF Bridges
    <3>3. StagesFit'
      BY <1>1, <1>2, <2>1, <2>2, <3>2 DEF StagesFit
    <3> QED
      BY <3>1, <3>3
  <2>6. TroubleEnds' /\ AppliedIsUntroubled'
    BY <1>2, <2>1, <2>2 DEF TroubleEnds, AppliedIsUntroubled
  <2>7. /\ Cardinality(Inside(b)') = 1 /\ Cardinality(Refused(b)') = 0
        /\ Invoked(b)' # {}
    BY <1>1, <1>2, <2>1, <2>2, <2>5, AloneAfter DEF InInvocation
  <2>8. Balanced(b)'
    <3>1. Balanced(b)
      BY DEF AllBalanced
    <3>2. /\ \A c \in ParameterCounters : parameter_counts[b][c] \in Nat
          /\ parameter_counts'[b]["calls"] = parameter_counts[b]["calls"] + 1
          /\ parameter_counts'[b]["clean"] = parameter_counts[b]["clean"]
          /\ parameter_counts'[b]["exceptions"] = parameter_counts[b]["exceptions"]
          /\ parameter_counts'[b]["bridge_errors"] = parameter_counts[b]["bridge_errors"]
          /\ parameter_counts'[b]["rejections"] = parameter_counts[b]["rejections"]
      BY <2>3 DEF ParameterTypeOK, ParameterCounters
    <3> QED
      BY <1>3, <2>7, <3>1, <3>2 DEF Balanced, ParameterCounters
  <2>9. \A c \in Bridges : c # b => Balanced(c)' /\ Invoked(c)' = {}
    BY <1>1, <1>2, <2>1, <2>3, <2>5, BridgesElsewhere
  <2>10. AllBalanced'
    BY <2>8, <2>9 DEF AllBalanced
  <2>11. ReferencesOwned'
    BY <1>2, <1>3, <1>4, <2>7, <2>9 DEF ReferencesOwned
  <2> QED
    BY <2>4, <2>5, <2>6, <2>10, <2>11
<1>5. CASE ~bridge_open[b]
  <2>1. /\ stage' = [stage EXCEPT ![t] = NextStage(b)]
        /\ UNCHANGED <<at, parameter_counts>>
    BY <1>1, <1>5 DEF CallBridge
  <2>2. NextStage(b) \in Stages
    BY DEF NextStage, Stages, Bridges
  <2>3. /\ stage' \in [ParameterThreads -> Stages] /\ stage'[t] = NextStage(b)
        /\ \A u \in ParameterThreads : u # t => stage'[u] = stage[u]
    BY <2>1, <2>2, StageTo
  <2>4. ParameterTypeOK' /\ ChangeHasMutex'
    BY <1>2, <2>1, <2>3 DEF ParameterTypeOK, ChangeHasMutex
  <2>5. StagesFit'
    BY <1>2, <2>1, <2>3 DEF StagesFit
  <2>6. TroubleEnds'
    BY <1>1, <1>2, <2>1, <2>3 DEF TroubleEnds, NextStage, Bridges
  <2>7. AppliedIsUntroubled'
    BY <1>1, <1>2, <2>1, <2>3 DEF TroubleEnds, AppliedIsUntroubled, NextStage, Bridges
  <2>8. ~InInvocation(t) /\ ~InInvocation(t)'
    BY <1>2, <2>1 DEF InInvocation
  <2>9. AllBalanced' /\ ReferencesOwned'
    BY <1>2, <2>1, <2>3, <2>8, StepOutside, QuietStep
  <2> QED
    BY <2>4, <2>5, <2>6, <2>7, <2>9
<1> QED
  BY <1>4, <1>5

\* The callback of an invocation does not run, or is over: dispatch gives a
\* verdict on the change and counts what happened.
LEMMA DispatchOver ==
    ASSUME ParameterIInv, NEW t \in ParameterThreads, NEW b \in Bridges, b = stage[t],
           at[t] \in {"bind", "callback"}, StepsTo(t, "returned"),
           bridge_gil' \in Holders,
           NEW added \in SUBSET {"exceptions", "bridge_errors", "clean"},
           Tallied(b, added),
           "bridge_errors" \in added => "exceptions" \in added,
           "clean" \in added <=> "exceptions" \notin added,
           batch' \in [ParameterThreads -> BOOLEAN],
           verdict' \in [ParameterThreads -> BOOLEAN],
           erred' \in [ParameterThreads -> BOOLEAN],
           \A u \in ParameterThreads : u # t =>
                batch'[u] = batch[u] /\ verdict'[u] = verdict[u] /\ erred'[u] = erred[u],
           b # "pre" => (batch'[t] <=> batch[t]),
           "exceptions" \in added => (b = "pre" => ~batch'[t]) /\ (b = "on" => ~verdict'[t]),
           "exceptions" \notin added => (erred'[t] <=> erred[t]),
           UNCHANGED <<node_mutex, stage, from_python, bridge_open, owner, changes,
                       applied>>
    PROVE  ParameterIInv'
<1> USE DEF ParameterIInv
<1>1. node_mutex = t
  BY DEF ChangeHasMutex
<1>2. /\ at' \in [ParameterThreads -> Places] /\ at'[t] = "returned"
      /\ \A u \in ParameterThreads : u # t => at'[u] = at[u]
  BY MoveTo DEF Places
<1>3. /\ parameter_counts' \in [Bridges -> [ParameterCounters -> Nat]]
      /\ \A c \in ParameterCounters : parameter_counts'[b][c] =
              parameter_counts[b][c] + IF c \in added THEN 1 ELSE 0
      /\ \A d \in Bridges : d # b => parameter_counts'[d] = parameter_counts[d]
  BY TalliedCounts DEF ParameterTypeOK
<1>4. ParameterTypeOK'
  BY <1>2, <1>3 DEF ParameterTypeOK
<1>5. ChangeHasMutex'
  BY <1>1, <1>2 DEF ChangeHasMutex
<1>6. b \notin {"apply", "done"}
  BY DEF Bridges
<1>7. StagesFit'
  BY <1>2, <1>6 DEF StagesFit
<1>8. TroubleEnds'
  <2>1. /\ stage[t] = "pre" => (erred'[t] => ~batch'[t])
        /\ stage[t] = "on" => batch'[t] /\ (erred'[t] => ~verdict'[t])
    BY DEF TroubleEnds
  <2> QED
    BY <1>2, <2>1 DEF TroubleEnds
<1>9. AppliedIsUntroubled'
  BY <1>6 DEF AppliedIsUntroubled
<1>10. /\ Cardinality(Inside(b)) = 1 /\ Cardinality(Refused(b)) = 0
       /\ Invoked(b) = {t}
  BY <1>1, AloneBefore DEF InInvocation
<1>11. /\ Cardinality(Inside(b)') = 0 /\ Invoked(b)' = {t}
       /\ Cardinality(Refused(b)') = IF ~verdict'[t] THEN 1 ELSE 0
  BY <1>1, <1>2, <1>5, AloneAfter DEF InInvocation
<1>12. Balanced(b)'
  <2>1. Balanced(b)
    BY DEF AllBalanced
  <2>2. /\ \A c \in ParameterCounters : parameter_counts[b][c] \in Nat
        /\ parameter_counts'[b]["calls"] = parameter_counts[b]["calls"]
        /\ parameter_counts'[b]["rejections"] = parameter_counts[b]["rejections"]
    BY <1>3 DEF ParameterTypeOK, ParameterCounters
  <2>3. /\ parameter_counts'[b]["clean"] = parameter_counts[b]["clean"]
                + IF "clean" \in added THEN 1 ELSE 0
        /\ parameter_counts'[b]["exceptions"] = parameter_counts[b]["exceptions"]
                + IF "exceptions" \in added THEN 1 ELSE 0
        /\ parameter_counts'[b]["bridge_errors"] = parameter_counts[b]["bridge_errors"]
                + IF "bridge_errors" \in added THEN 1 ELSE 0
    BY <1>3 DEF ParameterCounters
  <2>4. CASE "exceptions" \in added
    <3>1. b = "on" => Cardinality(Refused(b)') = 1
      BY <1>11, <2>4
    <3> QED
      BY <1>10, <1>11, <2>1, <2>2, <2>3, <2>4, <3>1 DEF Balanced, ParameterCounters
  <2>5. CASE "exceptions" \notin added
    <3>1. Cardinality(Refused(b)') \in {0, 1}
      BY <1>11
    <3> QED
      BY <1>10, <1>11, <2>1, <2>2, <2>3, <2>5, <3>1 DEF Balanced, ParameterCounters
  <2> QED
    BY <2>4, <2>5
<1>13. \A c \in Bridges : c # b => Balanced(c)' /\ Invoked(c) = {} /\ Invoked(c)' = {}
  BY <1>1, <1>3, <1>5, BridgesElsewhere
<1>14. AllBalanced'
  BY <1>12, <1>13 DEF AllBalanced
<1>15. ReferencesOwned'
  BY <1>10, <1>11, <1>13 DEF ReferencesOwned
<1> QED
  BY <1>4, <1>5, <1>7, <1>8, <1>9, <1>14, <1>15

LEMMA BindStep ==
    ASSUME ParameterIInv, NEW t \in ParameterThreads, BindProxy(t)
    PROVE  ParameterIInv'
<1> USE DEF ParameterIInv
<1>1. /\ at[t] = "bind" /\ FreshInvocation(t)
      /\ UNCHANGED <<node_mutex, stage, from_python, bridge_open, owner, changes,
                     applied>>
  BY DEF BindProxy
<1>2. PICK b \in Bridges : b = stage[t]
  BY <1>1 DEF StagesFit
<1>3. /\ batch' \in [ParameterThreads -> BOOLEAN]
      /\ verdict' \in [ParameterThreads -> BOOLEAN]
      /\ \A u \in ParameterThreads : u # t => batch'[u] = batch[u] /\ verdict'[u] = verdict[u]
      /\ batch'[t] <=> batch[t] /\ b # "pre"
      /\ verdict'[t] <=> verdict[t] /\ b # "on"
  BY <1>1, <1>2 DEF FreshInvocation, ParameterTypeOK
<1>4. CASE /\ bridge_gil' = t /\ StepsTo(t, "callback")
           /\ UNCHANGED <<parameter_counts, erred>>
  <2>1. node_mutex = t
    BY <1>1 DEF ChangeHasMutex
  <2>2. /\ at' \in [ParameterThreads -> Places] /\ at'[t] = "callback"
        /\ \A u \in ParameterThreads : u # t => at'[u] = at[u]
    BY <1>4, MoveTo DEF Places
  <2>3. ParameterTypeOK'
    BY <1>1, <1>3, <1>4, <2>2 DEF ParameterTypeOK, Holders
  <2>4. ChangeHasMutex'
    BY <1>1, <2>1, <2>2 DEF ChangeHasMutex
  <2>5. StagesFit' /\ AppliedIsUntroubled'
    <3>1. b \notin {"apply", "done"}
      BY DEF Bridges
    <3>2. StagesFit'
      BY <1>1, <1>2, <2>2, <3>1 DEF StagesFit
    <3>3. AppliedIsUntroubled'
      BY <1>1, <1>2, <1>3, <1>4, <3>1 DEF AppliedIsUntroubled
    <3> QED
      BY <3>2, <3>3
  <2>6. TroubleEnds'
    BY <1>1, <1>2, <1>3, <1>4, <2>2 DEF TroubleEnds
  <2>7. \A c \in Bridges :
          /\ Invoked(c)' = Invoked(c)
          /\ Cardinality(Inside(c)') = Cardinality(Inside(c))
          /\ Cardinality(Refused(c)') = Cardinality(Refused(c))
    BY <1>1, <2>1, <2>2, <2>4, AloneBefore, AloneAfter DEF InInvocation
  <2>8. AllBalanced'
    BY <1>4, <2>7 DEF AllBalanced, Balanced
  <2>9. ReferencesOwned'
    BY <1>1, <2>7 DEF ReferencesOwned
  <2> QED
    BY <2>3, <2>4, <2>5, <2>6, <2>8, <2>9
<1>5. CASE /\ ReleaseGil(t) /\ StepsTo(t, "returned")
           /\ Tallied(b, {"bridge_errors", "exceptions"})
           /\ erred' = [erred EXCEPT ![t] = TRUE]
  <2>1. bridge_gil' \in Holders
    BY <1>5 DEF ReleaseGil, Holders
  <2>2. /\ erred' \in [ParameterThreads -> BOOLEAN]
        /\ \A u \in ParameterThreads : u # t => erred'[u] = erred[u]
    BY <1>5 DEF ParameterTypeOK
  <2> QED
    BY <1>1, <1>2, <1>3, <1>5, <2>1, <2>2, DispatchOver
<1> QED
  BY <1>2, <1>4, <1>5 DEF BindProxy

LEMMA ReturnStep ==
    ASSUME ParameterIInv, NEW t \in ParameterThreads, ParameterCallbackReturns(t)
    PROVE  ParameterIInv'
<1> USE DEF ParameterIInv
<1>1. /\ at[t] = "callback" /\ StepsTo(t, "returned") /\ ReleaseGil(t)
      /\ UNCHANGED <<node_mutex, stage, from_python, bridge_open, owner, changes,
                     applied>>
  BY DEF ParameterCallbackReturns
<1>2. PICK b \in Bridges : b = stage[t]
  BY <1>1 DEF StagesFit
<1>3. bridge_gil' \in Holders
  BY <1>1 DEF ReleaseGil, Holders
<1>4. CASE CallbackSets(t)
  <2>1. PICK kept \in BOOLEAN :
          /\ batch' = [batch EXCEPT ![t] = IF b = "pre" THEN kept ELSE @]
          /\ verdict' = [verdict EXCEPT ![t] = IF b = "on" THEN kept ELSE @]
    BY <1>2, <1>4 DEF CallbackSets
  <2>2. Tallied(b, {"clean"}) /\ UNCHANGED erred
    BY <1>2, <1>4 DEF CallbackSets
  <2>3. /\ batch' \in [ParameterThreads -> BOOLEAN]
        /\ verdict' \in [ParameterThreads -> BOOLEAN]
        /\ \A u \in ParameterThreads : u # t => batch'[u] = batch[u] /\ verdict'[u] = verdict[u]
        /\ b # "pre" => (batch'[t] <=> batch[t])
    BY <2>1 DEF ParameterTypeOK
  <2> QED
    BY <1>1, <1>2, <1>3, <2>2, <2>3, DispatchOver DEF ParameterTypeOK
<1>5. CASE CallbackRaises(t)
  <2>1. /\ batch' = [batch EXCEPT ![t] = @ /\ b # "pre"]
        /\ verdict' = [verdict EXCEPT ![t] = @ /\ b # "on"]
        /\ erred' = [erred EXCEPT ![t] = TRUE]
    BY <1>2, <1>5 DEF CallbackRaises
  <2>2. PICK added \in {{"exceptions"}, {"bridge_errors", "exceptions"}} : Tallied(b, added)
    BY <1>2, <1>5 DEF CallbackRaises
  <2>3. /\ batch' \in [ParameterThreads -> BOOLEAN]
        /\ verdict' \in [ParameterThreads -> BOOLEAN]
        /\ erred' \in [ParameterThreads -> BOOLEAN]
        /\ \A u \in ParameterThreads : u # t =>
                batch'[u] = batch[u] /\ verdict'[u] = verdict[u] /\ erred'[u] = erred[u]
        /\ b # "pre" => (batch'[t] <=> batch[t])
        /\ (b = "pre" => ~batch'[t]) /\ (b = "on" => ~verdict'[t])
    BY <2>1 DEF ParameterTypeOK
  <2> QED
    BY <1>1, <1>2, <1>3, <2>2, <2>3, DispatchOver
<1> QED
  BY <1>4, <1>5 DEF ParameterCallbackReturns

\* A refusal is counted, and the last invocation of a closed bridge lets go
\* of its references.
LEMMA FinishStep ==
    ASSUME ParameterIInv, NEW t \in ParameterThreads, FinishInvocation(t)
    PROVE  ParameterIInv'
<1> USE DEF ParameterIInv
<1>1. at[t] = "returned" /\ node_mutex = t /\ StepsTo(t, "staged")
  BY DEF FinishInvocation, ChangeHasMutex
<1>2. PICK b \in Bridges : b = stage[t]
  BY <1>1 DEF StagesFit
<1>3. PICK goesOn \in BOOLEAN :
        goesOn <=> (b = "pre" => batch[t]) /\ (b = "on" => verdict[t])
  OBVIOUS
<1>4. PICK added : added = IF b = "on" /\ ~verdict[t] THEN {"rejections"} ELSE {}
  OBVIOUS
<1>5. PICK released : released = IF bridge_open[b] \/ Invoked(b) # {t} THEN {} ELSE {b}
  OBVIOUS
<1>6. /\ Tallied(b, added) /\ Retire(released)
      /\ stage' = [stage EXCEPT ![t] = IF goesOn THEN NextStage(b) ELSE "done"]
      /\ UNCHANGED <<node_mutex, bridge_gil, from_python, batch, verdict, erred,
                     bridge_open, changes, applied>>
  BY <1>2, <1>3, <1>4, <1>5 DEF FinishInvocation
<1>7. PICK s \in Stages : s = IF goesOn THEN NextStage(b) ELSE "done"
  BY DEF NextStage, Stages, Bridges
<1>8. /\ at' \in [ParameterThreads -> Places] /\ at'[t] = "staged"
      /\ \A u \in ParameterThreads : u # t => at'[u] = at[u]
  BY <1>1, MoveTo DEF Places
<1>9. /\ stage' \in [ParameterThreads -> Stages] /\ stage'[t] = s
      /\ \A u \in ParameterThreads : u # t => stage'[u] = stage[u]
  BY <1>6, <1>7, StageTo
<1>10. /\ parameter_counts' \in [Bridges -> [ParameterCounters -> Nat]]
       /\ \A c \in ParameterCounters : parameter_counts'[b][c] =
               parameter_counts[b][c] + IF c \in added THEN 1 ELSE 0
       /\ \A d \in Bridges : d # b => parameter_counts'[d] = parameter_counts[d]
  BY <1>6, TalliedCounts DEF ParameterTypeOK
<1>11. \A c \in Bridges :
        /\ Invoked(c) = IF c = b THEN {t} ELSE {}
        /\ Cardinality(Inside(c)) = 0
        /\ Cardinality(Refused(c)) = IF c = b /\ ~verdict[t] THEN 1 ELSE 0
  BY <1>1, <1>2, AloneBefore DEF InInvocation
<1>12. /\ owner' \in [Bridges -> {"state", "reaper", "nobody"}]
       /\ \A c \in Bridges : owner'[c] = "state" <=> owner[c] = "state" /\ c \notin released
  BY <1>6 DEF Retire, ParameterTypeOK
<1>13. ParameterTypeOK'
  BY <1>6, <1>8, <1>9, <1>10, <1>12 DEF ParameterTypeOK
<1>14. ChangeHasMutex'
  BY <1>1, <1>6, <1>8 DEF ChangeHasMutex
<1>15. StagesFit'
  BY <1>8, <1>9 DEF StagesFit
<1>16. /\ s = "pre" => FALSE
       /\ s = "on" => b = "pre" /\ goesOn
       /\ s = "apply" => b = "on" /\ goesOn
  BY <1>7 DEF NextStage, Bridges
<1>17. TroubleEnds'
  <2>1. s = "on" => batch[t] /\ ~erred[t]
    BY <1>1, <1>2, <1>3, <1>16 DEF TroubleEnds
  <2> QED
    BY <1>6, <1>8, <1>9, <1>16, <2>1 DEF TroubleEnds
<1>18. AppliedIsUntroubled'
  <2>1. s = "apply" => batch[t] /\ ~erred[t]
    BY <1>1, <1>2, <1>3, <1>16 DEF TroubleEnds
  <2> QED
    BY <1>6, <1>9, <2>1 DEF AppliedIsUntroubled
<1>19. \A c \in Bridges :
        /\ Invoked(c)' = {} /\ Cardinality(Inside(c)') = 0 /\ Cardinality(Refused(c)') = 0
  BY <1>1, <1>6, <1>8, <1>14, AloneAfter DEF InInvocation
<1>20. AllBalanced'
  <2>1. Balanced(b)'
    <3>1. Balanced(b)
      BY DEF AllBalanced
    <3>2. /\ \A c \in ParameterCounters : parameter_counts[b][c] \in Nat
          /\ parameter_counts'[b]["calls"] = parameter_counts[b]["calls"]
          /\ parameter_counts'[b]["clean"] = parameter_counts[b]["clean"]
          /\ parameter_counts'[b]["exceptions"] = parameter_counts[b]["exceptions"]
          /\ parameter_counts'[b]["bridge_errors"] = parameter_counts[b]["bridge_errors"]
          /\ parameter_counts'[b]["rejections"] = parameter_counts[b]["rejections"]
                    + IF b = "on" /\ ~verdict[t] THEN 1 ELSE 0
      BY <1>4, <1>10 DEF ParameterTypeOK, ParameterCounters
    <3> QED
      BY <1>11, <1>19, <3>1, <3>2 DEF Balanced, ParameterCounters
  <2>2. \A c \in Bridges : c # b => Balanced(c)'
    <3>1. ASSUME NEW c \in Bridges, c # b PROVE Balanced(c)'
      <4>1. Balanced(c) /\ parameter_counts'[c] = parameter_counts[c]
        BY <1>10, <3>1 DEF AllBalanced
      <4> QED
        BY <1>11, <1>19, <3>1, <4>1 DEF Balanced
    <3> QED
      BY <3>1
  <2> QED
    BY <2>1, <2>2 DEF AllBalanced
<1>21. ReferencesOwned'
  <2>1. released = IF bridge_open[b] THEN {} ELSE {b}
    BY <1>5, <1>11
  <2> QED
    BY <1>6, <1>11, <1>12, <1>19, <2>1 DEF ReferencesOwned
<1> QED
  BY <1>13, <1>14, <1>15, <1>17, <1>18, <1>20, <1>21

-----------------------------------------------------------------------------
LEMMA StepParameterIInv ==
    ParameterIInv /\ [NativeParametersNext]_parameterVars => ParameterIInv'
<1> SUFFICES ASSUME ParameterIInv, [NativeParametersNext]_parameterVars
             PROVE  ParameterIInv'
  OBVIOUS
<1>1. CASE UNCHANGED parameterVars
  BY <1>1, GilStep DEF parameterVars, ParameterIInv, ParameterTypeOK
<1>2. CASE DrainParameters
  BY <1>2, BridgeDrainStep
<1>3. ASSUME NEW t \in ParameterThreads, ParameterStep(t) PROVE ParameterIInv'
  BY <1>3, EnterStep, CallBridgeStep, BindStep, ReturnStep, FinishStep, ApplyStep,
     BridgeLeaveStep, ReadSteps, CloseRemovesStep, CloseDrainsStep DEF ParameterStep
<1>4. ASSUME NEW t \in ParameterThreads, LetGo(t) \/ GoOn(t) PROVE ParameterIInv'
  BY <1>4, GilStep DEF LetGo, GoOn, Holders
<1>5. ASSUME NEW t \in ParameterThreads, NativeChange(t) \/ PythonChange(t)
      PROVE  ParameterIInv'
  <2>1. CASE NativeChange(t)
    BY <2>1, BeginStep DEF NativeChange, ParameterIInv, ParameterTypeOK
  <2>2. CASE PythonChange(t)
    BY <2>2, BeginStep DEF PythonChange, Holders
  <2> QED
    BY <1>5, <2>1, <2>2
<1> QED
  BY <1>1, <1>2, <1>3, <1>4, <1>5, ReadSteps, CloseBegins, CloseInsideStep
     DEF NativeParametersNext

LEMMA InductiveParameterIInv == NativeParametersSpec => []ParameterIInv
BY InitParameterIInv, StepParameterIInv, PTL DEF NativeParametersSpec

\* The node, the threads in it and the bridges stay well typed, for any
\* threads and any number of changes.
THEOREM ParameterTypeCorrect == NativeParametersSpec => []ParameterTypeOK
BY InductiveParameterIInv, PTL DEF ParameterIInv

\* Whatever fails in a callback is contained as a refusal, every invocation
\* is counted once, and a bridge keeps its references while a thread can
\* still call through it and no longer.
THEOREM BridgesSettleHolds == NativeParametersSpec => []BridgesSettle
<1>1. ParameterIInv => BridgesSettle
  <2> SUFFICES ASSUME ParameterIInv PROVE BridgesSettle
    OBVIOUS
  <2>1. InvocationsBalance
    <3>1. \A b \in Bridges : Balanced(b)
      BY DEF ParameterIInv, AllBalanced
    <3> QED
      BY <3>1 DEF InvocationsBalance, Balanced, Inside, Refused
  <2> QED
    BY <2>1 DEF BridgesSettle, ParameterIInv
<1> QED
  BY <1>1, InductiveParameterIInv, PTL

-----------------------------------------------------------------------------
(* Sums of natural numbers, as sets of pairs.                              *)

\* f[k] numbered things of every k of S: what is counted when they are added up.
Columns(f, S) == UNION {{k} \X (1 .. f[k]) : k \in S}

LEMMA IntervalSize ==
    ASSUME NEW n \in Nat PROVE IsFiniteSet(1 .. n) /\ Cardinality(1 .. n) = n
<1>1. 1 \in Int /\ n \in Int
  OBVIOUS
<1>2. IsFiniteSet(1 .. n) /\ Cardinality(1 .. n) = IF 1 > n THEN 0 ELSE n - 1 + 1
  BY <1>1, FS_Interval, Zenon
<1> QED
  BY <1>2

LEMMA ColumnsAreFinite ==
    ASSUME NEW f, NEW S, IsFiniteSet(S), \A k \in S : f[k] \in Nat
    PROVE  IsFiniteSet(Columns(f, S))
<1> DEFINE T == {{k} \X (1 .. f[k]) : k \in S}
           column == [k \in S |-> {k} \X (1 .. f[k])]
<1>1. column \in Surjection(S, T)
  BY DEF Surjection
<1>2. IsFiniteSet(T)
  BY <1>1, FS_Surjection
<1>3. ASSUME NEW k \in S PROVE IsFiniteSet({k} \X (1 .. f[k]))
  <2>1. IsFiniteSet({k})
    BY FS_Singleton, Zenon
  <2>2. IsFiniteSet(1 .. f[k])
    BY IntervalSize
  <2> QED
    BY <2>1, <2>2, FS_Product, Zenon
<1>4. \A t \in T : IsFiniteSet(t)
  BY <1>3
<1> QED
  BY <1>2, <1>4, FS_UNION DEF Columns

LEMMA ColumnsSplit ==
    ASSUME NEW f, NEW S, IsFiniteSet(S), \A k \in S : f[k] \in Nat,
           NEW R \in SUBSET S
    PROVE  /\ Cardinality(Columns(f, R)) \in Nat
           /\ Cardinality(Columns(f, S \ R)) \in Nat
           /\ Cardinality(Columns(f, S)) =
                Cardinality(Columns(f, R)) + Cardinality(Columns(f, S \ R))
<1>1. IsFiniteSet(R) /\ IsFiniteSet(S \ R)
  BY FS_Subset, FS_Difference
<1>2. IsFiniteSet(Columns(f, R)) /\ IsFiniteSet(Columns(f, S \ R))
  BY <1>1, ColumnsAreFinite
<1>3. Columns(f, S) = Columns(f, R) \cup Columns(f, S \ R)
  BY DEF Columns
<1>4. Columns(f, R) \cap Columns(f, S \ R) = {}
  BY DEF Columns
<1>5. Cardinality(Columns(f, R) \cap Columns(f, S \ R)) = 0
  BY <1>4, FS_EmptySet
<1>6. /\ Cardinality(Columns(f, R)) \in Nat
      /\ Cardinality(Columns(f, S \ R)) \in Nat
  BY <1>2, FS_CardinalityType
<1>7. Cardinality(Columns(f, R) \cup Columns(f, S \ R))
        = Cardinality(Columns(f, R)) + Cardinality(Columns(f, S \ R))
            - Cardinality(Columns(f, R) \cap Columns(f, S \ R))
  BY <1>2, FS_Union, Zenon
<1>8. Cardinality(Columns(f, S))
        = Cardinality(Columns(f, R)) + Cardinality(Columns(f, S \ R)) - 0
  BY <1>3, <1>5, <1>7, Zenon
<1> QED
  BY <1>6, <1>8

LEMMA OneColumn ==
    ASSUME NEW f, NEW k, f[k] \in Nat
    PROVE  Cardinality(Columns(f, {k})) = f[k]
<1>1. Columns(f, {k}) = {k} \X (1 .. f[k])
  BY DEF Columns
<1>2. IsFiniteSet({k}) /\ Cardinality({k}) = 1
  BY FS_Singleton, Zenon
<1>3. IsFiniteSet(1 .. f[k]) /\ Cardinality(1 .. f[k]) = f[k]
  BY IntervalSize
<1>4. Cardinality({k} \X (1 .. f[k])) = Cardinality({k}) * Cardinality(1 .. f[k])
  BY <1>2, <1>3, FS_Product, Zenon
<1>5. Cardinality(Columns(f, {k})) = 1 * f[k]
  BY <1>1, <1>2, <1>3, <1>4, Zenon
<1> QED
  BY <1>5

\* One of the columns apart from the others.
Apart(f, S, k) ==
    /\ Cardinality(Columns(f, S \ {k})) \in Nat
    /\ Cardinality(Columns(f, S)) = f[k] + Cardinality(Columns(f, S \ {k}))

LEMMA ColumnApart ==
    ASSUME NEW f, NEW S, IsFiniteSet(S), \A k \in S : f[k] \in Nat, NEW k \in S
    PROVE  Apart(f, S, k)
<1>1. {k} \in SUBSET S
  OBVIOUS
<1>2. Cardinality(Columns(f, {k})) = f[k]
  BY OneColumn
<1>3. /\ Cardinality(Columns(f, S \ {k})) \in Nat
      /\ Cardinality(Columns(f, S)) =
            Cardinality(Columns(f, {k})) + Cardinality(Columns(f, S \ {k}))
  <2>1. PICK R \in SUBSET S : R = {k}
    BY <1>1
  <2>2. /\ Cardinality(Columns(f, S \ R)) \in Nat
        /\ Cardinality(Columns(f, S)) =
             Cardinality(Columns(f, R)) + Cardinality(Columns(f, S \ R))
    BY ColumnsSplit
  <2> QED
    BY <2>1, <2>2, Zenon
<1> QED
  BY <1>2, <1>3, Zenon DEF Apart

LEMMA ColumnsSame ==
    ASSUME NEW f, NEW g, NEW S, \A k \in S : f[k] = g[k]
    PROVE  Columns(f, S) = Columns(g, S)
BY DEF Columns

-----------------------------------------------------------------------------
(* BorrowedPublish: the buffers of the pool.                               *)

Frames == [index : Nat, scratch : Nat, over : BOOLEAN, evict : BOOLEAN]

PoolTypeOK ==
    /\ depth \in Nat
    /\ slots \in Seq(Nat) /\ frames \in Seq(Frames)
    /\ oversized \subseteq Scratches
    /\ publishes \in [Scratches -> Nat]
    /\ pool_counts \in [created : Nat, reused : Nat, evictions : Nat, retired : Nat]
    /\ handed_over \in [begun : 0 .. MaxPublishes, sent : Nat]

Retained == ToSet(slots) \ {Evicted}

\* Buffers are numbered as they are made: one to come has no history.
MadeInOrder ==
    /\ \A i \in 1 .. Len(slots) : slots[i] <= pool_counts.created
    /\ \A s \in Scratches : s > pool_counts.created =>
            s \notin oversized /\ publishes[s] = 0

\* The frames stand on the first slots, and each knows its buffer and, once
\* it is over, whether that has to go.
FramesOnSlots ==
    /\ depth = Len(frames) /\ Len(frames) <= Len(slots)
    /\ \A i \in 1 .. Len(frames) :
        /\ frames[i].index = i
        /\ slots[i] = frames[i].scratch /\ slots[i] # Evicted
        /\ frames[i].over => (frames[i].evict <=> slots[i] \in oversized)

IdleAreSmall == \A i \in 1 .. Len(slots) : i > depth => slots[i] \notin oversized

SlotsDiffer ==
    \A i, j \in 1 .. Len(slots) : i # j /\ slots[i] = slots[j] => slots[i] = Evicted

\* What the counters of the state add up to.
BuffersCounted ==
    /\ pool_counts.created = Cardinality(Retained) + pool_counts.evictions
    /\ handed_over.begun = pool_counts.created + pool_counts.reused

PublishesCounted ==
    handed_over.sent =
        pool_counts.retired + Cardinality(Columns(publishes, Retained))

PoolIInv ==
    /\ PoolTypeOK /\ MadeInOrder /\ FramesOnSlots /\ IdleAreSmall /\ SlotsDiffer
    /\ BuffersCounted /\ PublishesCounted

-----------------------------------------------------------------------------
LEMMA BeforeProperties ==
    ASSUME NEW S, NEW s \in Seq(S), NEW i \in 1 .. Len(s)
    PROVE  /\ SubSeq(s, 1, i - 1) \in Seq(S) /\ Len(SubSeq(s, 1, i - 1)) = i - 1
           /\ \A j \in 1 .. i - 1 : SubSeq(s, 1, i - 1)[j] = s[j]
<1>1. Len(s) \in Nat /\ i \in Nat /\ 1 <= i /\ i <= Len(s)
  OBVIOUS
<1>2. 1 \in 1 .. Len(s) + 1 /\ i - 1 \in 1 - 1 .. Len(s)
  BY <1>1
<1> QED
  BY <1>1, <1>2, SubSeqProperties

LEMMA FrontType ==
    ASSUME NEW S, NEW s \in Seq(S), s # <<>>
    PROVE  /\ Front(s) \in Seq(S) /\ Len(Front(s)) = Len(s) - 1
           /\ Len(s) \in Nat /\ Len(s) >= 1
           /\ \A i \in 1 .. Len(s) - 1 : Front(s)[i] = s[i]
           /\ Last(s) = s[Len(s)] /\ Last(s) \in S
<1>1. Len(s) \in Nat /\ Len(s) >= 1
  BY EmptySeq
<1>2. Len(s) \in 1 .. Len(s) /\ s[Len(s)] \in S
  BY <1>1, ElementOfSeq
<1> QED
  BY <1>1, <1>2, BeforeProperties DEF Front, Last

\* The retained buffers are among those made.
LEMMA RetainedAreMade ==
    ASSUME PoolIInv
    PROVE  /\ Retained \subseteq 1 .. pool_counts.created
           /\ pool_counts.created <= handed_over.begun
           /\ Retained \subseteq Scratches /\ IsFiniteSet(Retained)
           /\ \A s \in Retained : publishes[s] \in Nat
           /\ Retained = {slots[i] : i \in 1 .. Len(slots)} \ {Evicted}
<1> USE DEF PoolIInv
<1>1. DOMAIN slots = 1 .. Len(slots) /\ \A i \in 1 .. Len(slots) : slots[i] \in Nat
  BY LenProperties, ElementOfSeq DEF PoolTypeOK
<1>2. Retained = {slots[i] : i \in 1 .. Len(slots)} \ {Evicted}
  BY <1>1 DEF Retained, ToSet
<1>3. /\ pool_counts.created \in Nat /\ pool_counts.reused \in Nat
      /\ handed_over.begun \in 0 .. MaxPublishes /\ MaxPublishes \in Nat
  BY PublishBound DEF PoolTypeOK
<1>4. Retained \subseteq 1 .. pool_counts.created
  BY <1>1, <1>2, <1>3 DEF MadeInOrder, Evicted
<1>5. pool_counts.created <= handed_over.begun
  BY <1>3 DEF BuffersCounted
<1>6. Retained \subseteq Scratches
  BY <1>3, <1>4, <1>5 DEF Scratches
<1>7. IsFiniteSet(Retained)
  BY <1>3, <1>4, IntervalSize, FS_Subset
<1>8. \A s \in Retained : publishes[s] \in Nat
  BY <1>6 DEF PoolTypeOK
<1> QED
  BY <1>2, <1>4, <1>5, <1>6, <1>7, <1>8

LEMMA InitPoolIInv == BorrowedPublishInit => PoolIInv
<1> SUFFICES ASSUME BorrowedPublishInit PROVE PoolIInv
  OBVIOUS
<1>1. /\ slots \in Seq(Nat) /\ frames \in Seq(Frames)
      /\ Len(slots) = 0 /\ Len(frames) = 0
  BY EmptySeq DEF BorrowedPublishInit
<1>2. Retained = {}
  BY DEF BorrowedPublishInit, Retained, ToSet
<1>3. Columns(publishes, Retained) = {}
  BY <1>2 DEF Columns
<1>4. Cardinality(Retained) = 0 /\ Cardinality(Columns(publishes, Retained)) = 0
  BY <1>2, <1>3, FS_EmptySet
<1>5. PoolTypeOK
  BY <1>1, PublishBound DEF BorrowedPublishInit, PoolTypeOK
<1>6. BuffersCounted /\ PublishesCounted
  BY <1>4 DEF BorrowedPublishInit, BuffersCounted, PublishesCounted
<1> QED
  BY <1>1, <1>5, <1>6 DEF BorrowedPublishInit, PoolIInv, MadeInOrder, FramesOnSlots,
     IdleAreSmall, SlotsDiffer

\* A publish begins with a buffer that is made for it ...
LEMMA AcquireFresh ==
    ASSUME PoolIInv, AcquireScratch, depth + 1 > Len(slots) \/ slots[depth + 1] = Evicted
    PROVE  PoolIInv'
<1> USE DEF PoolIInv
<1> DEFINE k == depth + 1
           s == pool_counts.created + 1
           f == [index |-> k, scratch |-> s, over |-> FALSE, evict |-> FALSE]
<1>0. /\ depth \in Nat /\ Len(slots) \in Nat /\ Len(frames) \in Nat
      /\ pool_counts.created \in Nat /\ handed_over.begun \in 0 .. MaxPublishes
      /\ handed_over.begun < MaxPublishes /\ MaxPublishes \in Nat
      /\ depth = Len(frames) /\ depth <= Len(slots)
  BY PublishBound, LenProperties DEF PoolTypeOK, FramesOnSlots, AcquireScratch
<1>1. /\ s \in Scratches /\ s > pool_counts.created /\ s # Evicted
      /\ s \notin oversized /\ publishes[s] = 0
  BY <1>0, RetainedAreMade DEF Scratches, MadeInOrder, Evicted
<1>2. /\ slots' = IF k > Len(slots) THEN Append(slots, s) ELSE [slots EXCEPT ![k] = s]
      /\ frames' = Append(frames, f) /\ depth' = k
      /\ UNCHANGED <<oversized, publishes>>
  BY DEF AcquireScratch
<1>3. /\ pool_counts' = [pool_counts EXCEPT !.created = @ + 1]
      /\ handed_over' = [handed_over EXCEPT !.begun = @ + 1]
  BY DEF AcquireScratch
<1>4. /\ slots' \in Seq(Nat) /\ Len(slots') \in Nat /\ Len(slots') >= k
      /\ slots'[k] = s /\ Len(slots') >= Len(slots)
      /\ k \in 1 .. Len(slots')
      /\ \A i \in 1 .. Len(slots') : i # k => i \in 1 .. Len(slots) /\ slots'[i] = slots[i]
      /\ k \in 1 .. Len(slots) => slots[k] = Evicted
      /\ 1 .. Len(slots) \subseteq 1 .. Len(slots')
  <2>1. CASE k > Len(slots)
    <3>1. /\ slots' \in Seq(Nat) /\ Len(slots') = Len(slots) + 1
          /\ slots'[Len(slots) + 1] = s
          /\ \A i \in 1 .. Len(slots) : slots'[i] = slots[i]
      BY <1>0, <1>2, <2>1, AppendProperties DEF PoolTypeOK
    <3> QED
      BY <1>0, <2>1, <3>1
  <2>2. CASE ~(k > Len(slots))
    <3>1. k \in 1 .. Len(slots) /\ s \in Nat
      BY <1>0, <2>2
    <3>2. /\ slots' \in Seq(Nat) /\ Len(slots') = Len(slots)
          /\ \A i \in 1 .. Len(slots) : slots'[i] = IF i = k THEN s ELSE slots[i]
      BY <1>2, <2>2, <3>1, ExceptSeq DEF PoolTypeOK
    <3> QED
      BY <1>0, <2>2, <3>1, <3>2
  <2> QED
    BY <2>1, <2>2
<1>5. /\ frames' \in Seq(Frames) /\ Len(frames') = k /\ frames'[k] = f
      /\ \A i \in 1 .. Len(frames) : frames'[i] = frames[i]
      /\ f \in Frames
  <2>1. f \in Frames
    BY <1>0 DEF Frames
  <2> QED
    BY <1>0, <1>2, <2>1, AppendProperties DEF PoolTypeOK
<1>6. Retained' = Retained \cup {s} /\ s \notin Retained
  <2>1. Retained' = {slots'[i] : i \in 1 .. Len(slots')} \ {Evicted}
    BY <1>4, LenProperties DEF Retained, ToSet
  <2>2. s \notin Retained
    BY <1>0, <1>1, RetainedAreMade
  <2>3. Retained = {slots[i] : i \in 1 .. Len(slots)} \ {Evicted}
    BY RetainedAreMade
  <2>4. \A x \in Retained' : x \in Retained \/ x = s
    BY <1>4, <2>1, <2>3
  <2>5. s \in Retained'
    BY <1>1, <1>4, <2>1
  <2>6. ASSUME NEW x \in Retained PROVE x \in Retained'
    <3>1. PICK i \in 1 .. Len(slots) : x = slots[i] /\ x # Evicted
      BY <2>3
    <3>2. i # k /\ i \in 1 .. Len(slots')
      BY <1>4, <3>1
    <3>3. slots'[i] = slots[i]
      BY <1>4, <3>2
    <3> QED
      BY <2>1, <3>1, <3>2, <3>3
  <2> QED
    BY <2>2, <2>4, <2>5, <2>6
<1>7. /\ pool_counts'.created = pool_counts.created + 1
      /\ pool_counts'.reused = pool_counts.reused
      /\ pool_counts'.evictions = pool_counts.evictions
      /\ pool_counts'.retired = pool_counts.retired
      /\ handed_over'.begun = handed_over.begun + 1 /\ handed_over'.sent = handed_over.sent
      /\ pool_counts.reused \in Nat /\ pool_counts.evictions \in Nat
  BY <1>3 DEF PoolTypeOK
<1>8. PoolTypeOK'
  <2>1. PoolTypeOK
    OBVIOUS
  <2>2. pool_counts \in [created : Nat, reused : Nat, evictions : Nat, retired : Nat]
    BY <2>1 DEF PoolTypeOK
  <2>3. pool_counts' \in [created : Nat, reused : Nat, evictions : Nat, retired : Nat]
    BY <1>3, <2>2
  <2>4. handed_over \in [begun : 0 .. MaxPublishes, sent : Nat]
    BY <2>1 DEF PoolTypeOK
  <2>5. handed_over' \in [begun : 0 .. MaxPublishes, sent : Nat]
    BY <1>0, <1>3, <2>4
  <2>6. depth' \in Nat
    BY <1>0, <1>2
  <2> QED
    BY <1>2, <1>4, <1>5, <2>1, <2>3, <2>5, <2>6 DEF PoolTypeOK
<1>9. MadeInOrder'
  <2>1. ASSUME NEW i \in 1 .. Len(slots') PROVE slots'[i] <= pool_counts'.created
    <3>1. CASE i = k
      BY <1>0, <1>4, <1>7, <3>1
    <3>2. CASE i # k
      <4>1. slots[i] <= pool_counts.created /\ slots[i] \in Nat
        BY <1>4, <3>2, ElementOfSeq DEF MadeInOrder, PoolTypeOK
      <4> QED
        BY <1>0, <1>4, <1>7, <3>2, <4>1
    <3> QED
      BY <3>1, <3>2
  <2>2. \A r \in Scratches : r > pool_counts'.created => r > pool_counts.created
    BY <1>0, <1>7 DEF Scratches
  <2> QED
    BY <1>2, <2>1, <2>2 DEF MadeInOrder
<1>10. FramesOnSlots'
  <2>1. ASSUME NEW i \in 1 .. Len(frames')
        PROVE  /\ frames'[i].index = i
               /\ slots'[i] = frames'[i].scratch /\ slots'[i] # Evicted
               /\ frames'[i].over => (frames'[i].evict <=> slots'[i] \in oversized')
    <3>1. CASE i = k
      BY <1>1, <1>4, <1>5, <3>1
    <3>2. CASE i # k
      <4>1. i \in 1 .. Len(frames) /\ i \in 1 .. Len(slots')
        BY <1>0, <1>4, <1>5, <3>2
      <4> QED
        BY <1>2, <1>4, <1>5, <3>2, <4>1 DEF FramesOnSlots
    <3> QED
      BY <3>1, <3>2
  <2> QED
    BY <1>2, <1>4, <1>5, <2>1 DEF FramesOnSlots
<1>11. IdleAreSmall'
  BY <1>0, <1>2, <1>4 DEF IdleAreSmall
<1>12. SlotsDiffer'
  <2>1. ASSUME NEW i \in 1 .. Len(slots'), i # k PROVE slots'[i] # s
    <3>1. /\ i \in 1 .. Len(slots) /\ slots'[i] = slots[i]
          /\ slots[i] <= pool_counts.created
      BY <1>4, <2>1 DEF MadeInOrder
    <3>2. slots[i] \in Nat
      BY <3>1, ElementOfSeq DEF PoolTypeOK
    <3> QED
      BY <1>0, <3>1, <3>2
  <2> QED
    BY <1>4, <2>1 DEF SlotsDiffer
<1>13. BuffersCounted'
  <2>1. Cardinality(Retained') = Cardinality(Retained) + 1 /\ Cardinality(Retained) \in Nat
    BY <1>6, RetainedAreMade, FS_AddElement, FS_CardinalityType
  <2> QED
    BY <1>0, <1>7, <2>1, SMTT(30) DEF BuffersCounted
<1>14. PublishesCounted'
  <2>1. Columns(publishes', Retained') = Columns(publishes, Retained)
    BY <1>1, <1>2, <1>6 DEF Columns
  <2> QED
    BY <1>7, <2>1 DEF PublishesCounted
<1> QED
  BY <1>8, <1>9, <1>10, <1>11, <1>12, <1>13, <1>14

\* ... or with the one that waits in its slot.
LEMMA AcquireKept ==
    ASSUME PoolIInv, AcquireScratch,
           ~(depth + 1 > Len(slots)), slots[depth + 1] # Evicted
    PROVE  PoolIInv'
<1> USE DEF PoolIInv
<1> DEFINE k == depth + 1
           f == [index |-> k, scratch |-> slots[k], over |-> FALSE, evict |-> FALSE]
<1>0. /\ depth \in Nat /\ Len(slots) \in Nat /\ Len(frames) \in Nat
      /\ handed_over.begun \in 0 .. MaxPublishes
      /\ handed_over.begun < MaxPublishes /\ MaxPublishes \in Nat
      /\ depth = Len(frames) /\ k \in 1 .. Len(slots)
  BY PublishBound, LenProperties DEF PoolTypeOK, FramesOnSlots, AcquireScratch
<1>1. slots[k] \in Nat
  BY <1>0, ElementOfSeq DEF PoolTypeOK
<1>2. /\ slots' = [slots EXCEPT ![k] = slots[k]]
      /\ frames' = Append(frames, f) /\ depth' = k
      /\ UNCHANGED <<oversized, publishes>>
  BY DEF AcquireScratch
<1>3. /\ pool_counts' = [pool_counts EXCEPT !.reused = @ + 1]
      /\ handed_over' = [handed_over EXCEPT !.begun = @ + 1]
  BY DEF AcquireScratch
<1>4. slots' = slots
  BY <1>0, <1>2, LenProperties DEF PoolTypeOK
<1>5. /\ frames' \in Seq(Frames) /\ Len(frames') = k /\ frames'[k] = f
      /\ \A i \in 1 .. Len(frames) : frames'[i] = frames[i]
      /\ f \in Frames
  <2>1. f \in Frames
    BY <1>0, <1>1 DEF Frames
  <2> QED
    BY <1>0, <1>2, <2>1, AppendProperties DEF PoolTypeOK
<1>6. Retained' = Retained
  BY <1>4 DEF Retained
<1>7. /\ pool_counts'.created = pool_counts.created
      /\ pool_counts'.reused = pool_counts.reused + 1
      /\ pool_counts'.evictions = pool_counts.evictions
      /\ pool_counts'.retired = pool_counts.retired
      /\ handed_over'.begun = handed_over.begun + 1 /\ handed_over'.sent = handed_over.sent
      /\ pool_counts.reused \in Nat /\ pool_counts.created \in Nat
  BY <1>3 DEF PoolTypeOK
<1>8. PoolTypeOK'
  <2>1. PoolTypeOK
    OBVIOUS
  <2>2. pool_counts \in [created : Nat, reused : Nat, evictions : Nat, retired : Nat]
    BY <2>1 DEF PoolTypeOK
  <2>3. pool_counts' \in [created : Nat, reused : Nat, evictions : Nat, retired : Nat]
    BY <1>3, <2>2
  <2>4. handed_over \in [begun : 0 .. MaxPublishes, sent : Nat]
    BY <2>1 DEF PoolTypeOK
  <2>5. handed_over' \in [begun : 0 .. MaxPublishes, sent : Nat]
    BY <1>0, <1>3, <2>4
  <2>6. depth' \in Nat
    BY <1>0, <1>2
  <2> QED
    BY <1>2, <1>4, <1>5, <2>1, <2>3, <2>5, <2>6 DEF PoolTypeOK
<1>9. MadeInOrder' /\ SlotsDiffer' /\ PublishesCounted'
  BY <1>2, <1>4, <1>6, <1>7 DEF MadeInOrder, SlotsDiffer, PublishesCounted
<1>10. FramesOnSlots'
  <2>1. ASSUME NEW i \in 1 .. Len(frames')
        PROVE  /\ frames'[i].index = i
               /\ slots'[i] = frames'[i].scratch /\ slots'[i] # Evicted
               /\ frames'[i].over => (frames'[i].evict <=> slots'[i] \in oversized')
    <3>1. CASE i = k
      BY <1>4, <1>5, <3>1
    <3>2. CASE i # k
      <4>1. i \in 1 .. Len(frames)
        BY <1>0, <1>5, <3>2
      <4> QED
        BY <1>2, <1>4, <1>5, <3>2, <4>1 DEF FramesOnSlots
    <3> QED
      BY <3>1, <3>2
  <2> QED
    BY <1>0, <1>2, <1>4, <1>5, <2>1 DEF FramesOnSlots
<1>11. IdleAreSmall'
  BY <1>0, <1>2, <1>4 DEF IdleAreSmall
<1>12. BuffersCounted'
  BY <1>0, <1>6, <1>7 DEF BuffersCounted
<1> QED
  BY <1>8, <1>9, <1>10, <1>11, <1>12

\* The innermost publish is over, with an exception or without: its buffer is
\* the only one that may have grown, and the only one that may go.
LEMMA InnermostEnds ==
    ASSUME PoolIInv, frames # <<>>, Serializes,
           Finishes(Innermost.scratch \in oversized'), UNCHANGED <<depth, slots>>
    PROVE  /\ Innermost.scratch \in Retained
           /\ frames' \in Seq(Frames) /\ oversized' \subseteq Scratches
           /\ FramesOnSlots' /\ IdleAreSmall' /\ SlotsDiffer'
           /\ Retained' = Retained
           /\ \A s \in Scratches : s > pool_counts.created => s \notin oversized'
<1> USE DEF PoolIInv
<1>1. PICK n : n = Len(frames)
  OBVIOUS
<1>2. /\ n \in 1 .. Len(frames) /\ n \in 1 .. Len(slots) /\ n = depth
      /\ n \in Nat /\ Len(slots) \in Nat
  BY <1>1, EmptySeq, LenProperties DEF PoolTypeOK, FramesOnSlots
<1>3. PICK s : s = slots[n]
  OBVIOUS
<1>4. /\ Innermost = frames[n] /\ frames[n] \in Frames /\ frames[n].scratch = s
      /\ frames[n].index = n /\ s # Evicted
  BY <1>1, <1>2, <1>3, ElementOfSeq DEF Innermost, Last, FramesOnSlots, PoolTypeOK
<1>5. s \in Retained /\ s \in Scratches /\ s <= pool_counts.created
  BY <1>2, <1>3, <1>4, RetainedAreMade DEF MadeInOrder
<1>6. PICK e \in BOOLEAN : e <=> s \in oversized'
  OBVIOUS
<1>7. PICK g : g = [frames[n] EXCEPT !.over = TRUE, !.evict = (s \in oversized')]
  OBVIOUS
<1>8. /\ g \in Frames /\ g.index = n /\ g.scratch = s
      /\ g.over /\ (g.evict <=> s \in oversized')
  <2>1. PICK h : h = [frames[n] EXCEPT !.over = TRUE]
    OBVIOUS
  <2>2. h \in Frames /\ h.index = n /\ h.scratch = s /\ h.over = TRUE
    BY <1>4, <2>1 DEF Frames
  <2>3. (s \in oversized') \in BOOLEAN
    OBVIOUS
  <2>4. g = [h EXCEPT !.evict = (s \in oversized')]
    BY <1>7, <2>1
  <2> QED
    BY <2>2, <2>3, <2>4 DEF Frames
<1>9. frames' = [frames EXCEPT ![n] = g]
  BY <1>1, <1>2, <1>4, <1>7, LenProperties DEF Finishes, PoolTypeOK
<1>10. /\ frames' \in Seq(Frames) /\ Len(frames') = Len(frames)
       /\ \A i \in 1 .. Len(frames) : frames'[i] = IF i = n THEN g ELSE frames[i]
  BY <1>2, <1>8, <1>9, ExceptSeq DEF PoolTypeOK
<1>11. oversized' = oversized \/ oversized' = oversized \cup {s}
  BY <1>4 DEF Serializes
<1>12. oversized' \subseteq Scratches
  BY <1>5, <1>11 DEF PoolTypeOK
<1>13. \A r \in Scratches : r > pool_counts.created => r \notin oversized'
  <2>1. pool_counts.created \in Nat /\ s \in Nat
    BY <1>5 DEF PoolTypeOK, Scratches
  <2> QED
    BY <1>5, <1>11, <2>1 DEF MadeInOrder, Scratches
<1>14. \A i \in 1 .. Len(slots) : i # n /\ slots[i] = s => FALSE
  BY <1>2, <1>3, <1>4 DEF SlotsDiffer
<1>15. FramesOnSlots'
  <2>1. ASSUME NEW i \in 1 .. Len(frames')
        PROVE  /\ frames'[i].index = i
               /\ slots'[i] = frames'[i].scratch /\ slots'[i] # Evicted
               /\ frames'[i].over => (frames'[i].evict <=> slots'[i] \in oversized')
    <3>1. CASE i = n
      BY <1>3, <1>4, <1>8, <1>10, <3>1
    <3>2. CASE i # n
      <4>1. i \in 1 .. Len(frames) /\ Len(frames) <= Len(slots)
        BY <1>10 DEF FramesOnSlots
      <4>2. i \in 1 .. Len(slots)
        BY <1>1, <1>2, <4>1
      <4>3. slots[i] \in oversized' <=> slots[i] \in oversized
        BY <1>11, <1>14, <3>2, <4>2
      <4> QED
        BY <1>10, <3>2, <4>1, <4>3 DEF FramesOnSlots
    <3> QED
      BY <3>1, <3>2
  <2> QED
    BY <1>10, <2>1 DEF FramesOnSlots
<1>16. IdleAreSmall'
  BY <1>2, <1>11, <1>14 DEF IdleAreSmall
<1> QED
  BY <1>4, <1>5, <1>10, <1>12, <1>13, <1>15, <1>16 DEF SlotsDiffer, Retained

LEMMA PublishStep ==
    ASSUME PoolIInv, PublishReturns \/ PublishThrows PROVE PoolIInv'
<1> USE DEF PoolIInv
<1>1. /\ frames # <<>> /\ Serializes /\ Finishes(Innermost.scratch \in oversized')
      /\ UNCHANGED <<depth, slots, pool_counts>>
  BY DEF PublishReturns, PublishThrows
<1>2. PICK s \in Retained : s = Innermost.scratch
  BY <1>1, InnermostEnds
<1>3. s \in Scratches /\ s <= pool_counts.created /\ s \in Nat /\ pool_counts.created \in Nat
  BY RetainedAreMade DEF PoolTypeOK, Scratches
<1>4. /\ publishes' \in [Scratches -> Nat]
      /\ \A r \in Scratches \ {s} : publishes'[r] = publishes[r]
      /\ handed_over' \in [begun : 0 .. MaxPublishes, sent : Nat]
      /\ handed_over'.begun = handed_over.begun
      /\ handed_over'.sent - handed_over.sent = publishes'[s] - publishes[s]
      /\ publishes[s] \in Nat /\ publishes'[s] \in Nat
      /\ handed_over.sent \in Nat /\ handed_over'.sent \in Nat
  <2>1. publishes \in [Scratches -> Nat] /\ publishes[s] \in Nat
    BY <1>3 DEF PoolTypeOK
  <2>2. handed_over \in [begun : 0 .. MaxPublishes, sent : Nat] /\ handed_over.sent \in Nat
    BY DEF PoolTypeOK
  <2>3. CASE PublishReturns
    <3>1. /\ publishes' = [publishes EXCEPT ![s] = @ + 1]
          /\ handed_over' = [handed_over EXCEPT !.sent = @ + 1]
      BY <1>2, <2>3 DEF PublishReturns
    <3> QED
      BY <1>3, <2>1, <2>2, <3>1
  <2>4. CASE PublishThrows
    BY <1>3, <2>1, <2>2, <2>4 DEF PublishThrows
  <2> QED
    BY <2>3, <2>4
<1>5. PoolTypeOK'
  BY <1>1, <1>4, InnermostEnds DEF PoolTypeOK
<1>6. MadeInOrder'
  <2>1. \A r \in Scratches : r > pool_counts.created => r # s
    BY <1>3 DEF Scratches
  <2> QED
    BY <1>1, <1>4, <2>1, InnermostEnds DEF MadeInOrder
<1>7. BuffersCounted'
  BY <1>1, <1>4, InnermostEnds DEF BuffersCounted
<1>8. PublishesCounted'
  <2> DEFINE rest == Retained \ {s}
  <2>1. /\ IsFiniteSet(Retained) /\ \A r \in Retained : publishes[r] \in Nat
        /\ \A r \in Retained : publishes'[r] \in Nat
    BY <1>4, RetainedAreMade
  <2>2. /\ Cardinality(Columns(publishes, rest)) \in Nat
        /\ Cardinality(Columns(publishes, Retained))
             = publishes[s] + Cardinality(Columns(publishes, rest))
    <3>1. Apart(publishes, Retained, s)
      BY <2>1, ColumnApart
    <3> QED
      BY <3>1 DEF Apart
  <2>3. Cardinality(Columns(publishes', Retained))
             = publishes'[s] + Cardinality(Columns(publishes', rest))
    <3>1. Apart(publishes', Retained, s)
      BY <2>1, ColumnApart
    <3> QED
      BY <3>1 DEF Apart
  <2>4. Columns(publishes', rest) = Columns(publishes, rest)
    BY <1>4, RetainedAreMade, ColumnsSame
  <2>5. Retained' = Retained
    BY <1>1, InnermostEnds
  <2>6. pool_counts.retired \in Nat
    BY DEF PoolTypeOK
  <2>7. PICK r \in Nat : r = Cardinality(Columns(publishes, rest))
    BY <2>2
  <2>8. /\ handed_over.sent = pool_counts.retired + (publishes[s] + r)
        /\ Cardinality(Columns(publishes', Retained)) = publishes'[s] + r
    BY <2>2, <2>3, <2>4, <2>7 DEF PublishesCounted
  <2>9. handed_over'.sent = pool_counts.retired + (publishes'[s] + r)
    BY <1>4, <2>6, <2>8
  <2> QED
    BY <1>1, <2>5, <2>8, <2>9 DEF PublishesCounted
<1> QED
  BY <1>1, <1>5, <1>6, <1>7, <1>8, InnermostEnds

\* The buffer goes back to its slot, or is taken out of it and its publishes
\* are kept in the sum of the retired ones.
LEMMA ReleaseStep == ASSUME PoolIInv, ReleaseScratch PROVE PoolIInv'
<1> USE DEF PoolIInv
<1>1. PICK n : n = Len(frames)
  OBVIOUS
<1>2. /\ n \in 1 .. Len(frames) /\ n \in 1 .. Len(slots) /\ n = depth
      /\ n \in Nat /\ Len(slots) \in Nat /\ n >= 1
  BY <1>1, EmptySeq, LenProperties DEF PoolTypeOK, FramesOnSlots, ReleaseScratch
<1>3. PICK s : s = slots[n]
  OBVIOUS
<1>4. /\ Innermost = frames[n] /\ frames[n].scratch = s /\ frames[n].index = n
      /\ s # Evicted /\ frames[n].over /\ (frames[n].evict <=> s \in oversized)
  BY <1>1, <1>2, <1>3 DEF Innermost, Last, FramesOnSlots, ReleaseScratch
<1>5. s \in Retained /\ s \in Scratches
  BY <1>2, <1>3, <1>4, RetainedAreMade
<1>6. /\ frames' \in Seq(Frames) /\ Len(frames') = n - 1
      /\ \A i \in 1 .. n - 1 : frames'[i] = frames[i]
      /\ depth' = n - 1 /\ UNCHANGED <<oversized, publishes, handed_over>>
  BY <1>1, <1>2, FrontType DEF ReleaseScratch, PoolTypeOK
<1>7. CASE ~frames[n].evict
  <2>1. UNCHANGED <<slots, pool_counts>> /\ s \notin oversized
    BY <1>4, <1>7 DEF ReleaseScratch
  <2>2. PoolTypeOK'
    BY <1>2, <1>6, <2>1 DEF PoolTypeOK
  <2>3. FramesOnSlots'
    BY <1>1, <1>2, <1>6, <2>1 DEF FramesOnSlots
  <2>4. IdleAreSmall'
    BY <1>2, <1>3, <1>6, <2>1 DEF IdleAreSmall
  <2>5. Retained' = Retained
    BY <2>1 DEF Retained
  <2> QED
    BY <1>6, <2>1, <2>2, <2>3, <2>4, <2>5
       DEF MadeInOrder, SlotsDiffer, BuffersCounted, PublishesCounted
<1>8. CASE frames[n].evict
  <2>1. /\ slots' = [slots EXCEPT ![n] = Evicted]
        /\ pool_counts' = [pool_counts EXCEPT !.evictions = @ + 1,
                                !.retired = @ + publishes[s]]
    BY <1>4, <1>8 DEF ReleaseScratch
  <2>2. /\ slots' \in Seq(Nat) /\ Len(slots') = Len(slots)
        /\ \A i \in 1 .. Len(slots) : slots'[i] = IF i = n THEN Evicted ELSE slots[i]
    BY <1>2, <2>1, ExceptSeq DEF PoolTypeOK, Evicted
  <2>3. \A i \in 1 .. Len(slots) : i # n => slots[i] # s
    BY <1>2, <1>3, <1>4 DEF SlotsDiffer
  <2>4. Retained' = Retained \ {s}
    <3>1. Retained' = {slots'[i] : i \in 1 .. Len(slots')} \ {Evicted}
      BY <2>2, LenProperties DEF Retained, ToSet
    <3>2. \A x : x \in Retained' <=> x \in Retained /\ x # s
      BY <1>3, <2>2, <2>3, <3>1, RetainedAreMade
    <3> QED
      BY <3>2
  <2>5. /\ pool_counts \in [created : Nat, reused : Nat, evictions : Nat, retired : Nat]
        /\ publishes[s] \in Nat
    BY <1>5 DEF PoolTypeOK
  <2>6. /\ pool_counts'.created = pool_counts.created
        /\ pool_counts'.reused = pool_counts.reused
        /\ pool_counts'.evictions = pool_counts.evictions + 1
        /\ pool_counts'.retired = pool_counts.retired + publishes[s]
        /\ pool_counts' \in [created : Nat, reused : Nat, evictions : Nat, retired : Nat]
        /\ pool_counts.created \in Nat /\ pool_counts.evictions \in Nat
        /\ pool_counts.retired \in Nat
    <3>1. PICK a \in Nat, b \in Nat, c \in Nat, d \in Nat :
            pool_counts = [created |-> a, reused |-> b, evictions |-> c, retired |-> d]
      BY <2>5
    <3>2. PICK p : p = [pool_counts EXCEPT !.evictions = @ + 1]
      OBVIOUS
    <3>3. p = [created |-> a, reused |-> b, evictions |-> c + 1, retired |-> d]
      BY <3>1, <3>2
    <3>4. pool_counts' = [p EXCEPT !.retired = @ + publishes[s]]
      BY <2>1, <3>2
    <3>5. pool_counts' = [created |-> a, reused |-> b, evictions |-> c + 1,
                          retired |-> d + publishes[s]]
      BY <3>3, <3>4
    <3> QED
      BY <2>5, <3>1, <3>5
  <2>7. PoolTypeOK'
    BY <1>2, <1>6, <2>2, <2>6, SMTT(30) DEF PoolTypeOK
  <2>8. MadeInOrder'
    <3>1. ASSUME NEW i \in 1 .. Len(slots') PROVE slots'[i] <= pool_counts'.created
      <4>1. i \in 1 .. Len(slots)
        BY <2>2
      <4>2. CASE i = n
        <5>1. slots'[i] = 0
          BY <2>2, <4>1, <4>2 DEF Evicted
        <5> QED
          BY <2>6, <5>1
      <4>3. CASE i # n
        <5>1. slots'[i] = slots[i]
          BY <2>2, <4>1, <4>3
        <5>2. slots[i] <= pool_counts.created
          BY <4>1 DEF MadeInOrder
        <5> QED
          BY <2>6, <5>1, <5>2
      <4> QED
        BY <4>2, <4>3
    <3>2. \A r \in Scratches : r > pool_counts'.created => r \notin oversized' /\ publishes'[r] = 0
      BY <1>6, <2>6 DEF MadeInOrder
    <3> QED
      BY <3>1, <3>2 DEF MadeInOrder
  <2>9. FramesOnSlots'
    <3>1. ASSUME NEW i \in 1 .. Len(frames')
          PROVE  /\ frames'[i].index = i
                 /\ slots'[i] = frames'[i].scratch /\ slots'[i] # Evicted
                 /\ frames'[i].over => (frames'[i].evict <=> slots'[i] \in oversized')
      <4>1. i \in 1 .. n - 1
        BY <1>6
      <4>2. i \in 1 .. Len(frames) /\ i \in 1 .. Len(slots) /\ i # n
        BY <1>1, <1>2, <4>1
      <4>3. frames'[i] = frames[i]
        BY <1>6, <4>1
      <4>4. slots'[i] = slots[i]
        BY <2>2, <4>2
      <4> QED
        BY <1>6, <4>2, <4>3, <4>4 DEF FramesOnSlots
    <3>2. depth' = Len(frames') /\ Len(frames') <= Len(slots')
      BY <1>2, <1>6, <2>2
    <3> QED
      BY <3>1, <3>2 DEF FramesOnSlots
  <2>10. IdleAreSmall'
    <3>1. ASSUME NEW i \in 1 .. Len(slots'), i > depth' PROVE slots'[i] \notin oversized'
      <4>1. i \in 1 .. Len(slots)
        BY <2>2
      <4>2. CASE i = n
        <5>1. slots'[i] = Evicted
          BY <2>2, <4>1, <4>2
        <5>2. Evicted \notin oversized
          BY DEF PoolTypeOK, Scratches, Evicted
        <5> QED
          BY <1>6, <5>1, <5>2
      <4>3. CASE i # n
        <5>1. slots'[i] = slots[i]
          BY <2>2, <4>1, <4>3
        <5>2. i > depth
          BY <1>2, <1>6, <3>1, <4>1, <4>3
        <5> QED
          BY <1>6, <4>1, <5>1, <5>2 DEF IdleAreSmall
      <4> QED
        BY <4>2, <4>3
    <3> QED
      BY <3>1 DEF IdleAreSmall
  <2>11. SlotsDiffer'
    BY <2>2 DEF SlotsDiffer
  <2>12. BuffersCounted'
    <3>1. /\ Cardinality(Retained') = Cardinality(Retained) - 1
          /\ Cardinality(Retained) \in Nat
      BY <1>5, <2>4, RetainedAreMade, FS_RemoveElement, FS_CardinalityType
    <3> QED
      BY <1>6, <2>6, <3>1 DEF BuffersCounted
  <2>13. PublishesCounted'
    <3>0. /\ IsFiniteSet(Retained) /\ \A r \in Retained : publishes[r] \in Nat
          /\ s \in Retained
      BY <1>5, RetainedAreMade
    <3>1. /\ Cardinality(Columns(publishes, Retained \ {s})) \in Nat
          /\ Cardinality(Columns(publishes, Retained))
               = publishes[s] + Cardinality(Columns(publishes, Retained \ {s}))
      <4>1. Apart(publishes, Retained, s)
        BY ONLY <3>0, ColumnApart
      <4> QED
        BY <4>1 DEF Apart
    <3>2. PICK r \in Nat : r = Cardinality(Columns(publishes, Retained \ {s}))
      BY <3>1
    <3>3. handed_over.sent = pool_counts.retired + (publishes[s] + r)
      BY <3>1, <3>2 DEF PublishesCounted
    <3>4. Columns(publishes', Retained') = Columns(publishes, Retained \ {s})
      BY <1>6, <2>4 DEF Columns
    <3> QED
      BY <1>6, <2>5, <2>6, <3>2, <3>3, <3>4 DEF PublishesCounted
  <2> QED
    BY <2>7, <2>8, <2>9, <2>10, <2>11, <2>12, <2>13
<1> QED
  BY <1>7, <1>8

LEMMA StepPoolIInv == PoolIInv /\ [BorrowedPublishNext]_poolVars => PoolIInv'
<1> SUFFICES ASSUME PoolIInv, [BorrowedPublishNext]_poolVars PROVE PoolIInv'
  OBVIOUS
<1>1. CASE AcquireScratch
  BY <1>1, AcquireFresh, AcquireKept
<1>2. CASE UNCHANGED poolVars
  <2>1. Retained' = Retained
    BY <1>2 DEF poolVars, Retained
  <2> QED
    BY <1>2, <2>1 DEF poolVars, PoolIInv, PoolTypeOK, MadeInOrder, FramesOnSlots,
       IdleAreSmall, SlotsDiffer, BuffersCounted, PublishesCounted
<1> QED
  BY <1>1, <1>2, PublishStep, ReleaseStep DEF BorrowedPublishNext

LEMMA InductivePoolIInv == BorrowedPublishSpec => []PoolIInv
BY InitPoolIInv, StepPoolIInv, PTL DEF BorrowedPublishSpec

\* The pool, its frames and its counters stay well typed, for any number of
\* publishes nested in any way.
THEOREM PoolTypeCorrect == BorrowedPublishSpec => []PoolTypeOK
BY InductivePoolIInv, PTL DEF PoolIInv

\* Publishes that nest and fail share no buffer, leave no idle buffer above
\* the limit, and the statistics of the pool are complete.
THEOREM PoolBalancesHolds == BorrowedPublishSpec => []PoolBalances
<1>1. PoolIInv => PoolBalances
  <2> SUFFICES ASSUME PoolIInv PROVE PoolBalances
    OBVIOUS
  <2>1. DOMAIN slots = 1 .. Len(slots) /\ DOMAIN frames = 1 .. Len(frames)
    BY LenProperties DEF PoolIInv, PoolTypeOK
  <2>2. Through(Retained) = Columns(publishes, Retained)
    BY DEF Through, Columns
  <2> QED
    BY <2>1, <2>2 DEF PoolBalances, PoolIInv, FramesOnSlots, IdleAreSmall, SlotsDiffer,
       BuffersCounted, PublishesCounted, Retained
<1> QED
  BY <1>1, InductivePoolIInv, PTL

-----------------------------------------------------------------------------
(* NativeActionClient: goals, their answers and their feedback.            *)

AcceptedRecords == {k \in Tokens : response[k] = "accepted"}
KnownRecords == {k \in Tokens : Known(k)}
CancelsAwaited == {k \in Tokens : cancel[k] \in {"sent", "ready"}}

\* Tokens are never reused: nothing is known of one to come, and nothing but
\* its record of one that is being sent.
TokensAreUnused ==
    /\ \A k \in Tokens : k >= next_token =>
            response[k] = "none" /\ k \notin requested /\ k \notin goal_handles
    /\ calling.op \in {"send", "unsend"} =>
            \A k \in calling.goals :
                Known(k) /\ k \notin requested /\ k \notin goal_handles

\* A goal in rclcpp_action's map has a record with its handle, or a thread is
\* on its way to store it or to stop it; an answer is to one request.
HandlesAreHeld ==
    /\ requested \intersect goal_handles = {}
    /\ executing.op = "rejected" => executing.goals \intersect goal_handles = {}
    /\ \A k \in goal_handles :
        \/ response[k] = "accepted"
        \/ executing.op \in {"accepted", "retain", "stop"} /\ k \in executing.goals
        \/ calling.op = "stop" /\ k \in calling.goals

One(condition) == IF condition THEN 1 ELSE 0

\* Each counter runs with what it counts.
AnswersCounted ==
    counts["accepted"] + counts["rejected"] + Cardinality(requested)
        + One(executing.op \in {"accepted", "retain", "rejected"})
            <= counts["sent"] + One(calling.op = "count")
RecordsCounted ==
    ~goals_closed =>
        Cardinality(KnownRecords) + counts["results"] + counts["forgotten"]
            = counts["sent"] + One(calling.op \in {"send", "count", "unsend"})
ResultsCounted ==
    counts["results"] + Cardinality(AcceptedRecords) <= counts["accepted"]
CancelsCounted ==
    counts["answers"] + Cardinality(CancelsAwaited) <= counts["cancels"]

\* Only a record has a queue, and a closed client has no record.
QueuesHaveRecords ==
    /\ \A k \in Tokens : ~Known(k) => feedback[k] = <<>>
    /\ goals_closed => \A k \in Tokens : ~Known(k)

FeedbackCounted ==
    counts["received"] = counts["taken"] + counts["dropped"]
                            + Cardinality(Queued(Tokens)) + discarded

ActionClientIInv ==
    /\ ActionClientTypeOK /\ TokensAreUnused /\ HandlesAreHeld
    /\ AnswersCounted /\ RecordsCounted /\ ResultsCounted /\ CancelsCounted
    /\ QueuesHaveRecords /\ NewestKept /\ FeedbackCounted

-----------------------------------------------------------------------------
LEMMA TokensFinite ==
    /\ MaxGoals \in Nat /\ IsFiniteSet(Tokens)
    /\ \A S : S \subseteq Tokens => IsFiniteSet(S) /\ Cardinality(S) \in Nat
<1>1. MaxGoals \in Nat /\ IsFiniteSet(Tokens)
  BY ActionClientBounds, IntervalSize DEF Tokens
<1> QED
  BY <1>1, FS_Subset, FS_CardinalityType

\* How many tokens have a property, when one gets or loses it.
LEMMA TokenAdded ==
    ASSUME NEW S \in SUBSET Tokens, NEW k \in Tokens
    PROVE  /\ Cardinality(S) \in Nat /\ Cardinality(S \cup {k}) \in Nat
           /\ Cardinality(S \cup {k}) <= Cardinality(S) + 1
           /\ k \notin S => Cardinality(S \cup {k}) = Cardinality(S) + 1
<1>1. IsFiniteSet(S) /\ Cardinality(S) \in Nat /\ Cardinality(S \cup {k}) \in Nat
  BY TokensFinite
<1>2. Cardinality(S \cup {k}) = IF k \in S THEN Cardinality(S) ELSE Cardinality(S) + 1
  BY <1>1, FS_AddElement, Zenon
<1> QED
  BY <1>1, <1>2

LEMMA TokenRemoved ==
    ASSUME NEW S \in SUBSET Tokens, NEW k \in Tokens
    PROVE  /\ Cardinality(S) \in Nat /\ Cardinality(S \ {k}) \in Nat
           /\ Cardinality(S \ {k}) <= Cardinality(S)
           /\ k \in S => Cardinality(S) = Cardinality(S \ {k}) + 1
<1>1. IsFiniteSet(S) /\ Cardinality(S) \in Nat /\ Cardinality(S \ {k}) \in Nat
  BY TokensFinite
<1>2. Cardinality(S \ {k}) = IF k \in S THEN Cardinality(S) - 1 ELSE Cardinality(S)
  BY <1>1, FS_RemoveElement, Zenon
<1> QED
  BY <1>1, <1>2

LEMMA TokensFewer ==
    ASSUME NEW S \in SUBSET Tokens, NEW R \in SUBSET S
    PROVE  /\ Cardinality(S) \in Nat /\ Cardinality(R) \in Nat
           /\ Cardinality(R) <= Cardinality(S)
<1>1. IsFiniteSet(S) /\ Cardinality(S) \in Nat /\ Cardinality(R) \in Nat
  BY TokensFinite
<1>2. Cardinality(R) <= Cardinality(S)
  BY <1>1, FS_Subset, Zenon
<1> QED
  BY <1>1, <1>2

LEMMA CountedOne ==
    ASSUME ActionClientTypeOK, NEW c \in Counters, Count(c)
    PROVE  /\ counts' \in [Counters -> Nat] /\ counts'[c] = counts[c] + 1
           /\ \A d \in Counters : d # c => counts'[d] = counts[d]
BY DEF ActionClientTypeOK, Count

LEMMA CountersAre ==
    /\ "sent" \in Counters /\ "accepted" \in Counters /\ "rejected" \in Counters
    /\ "results" \in Counters /\ "received" \in Counters /\ "taken" \in Counters
    /\ "dropped" \in Counters /\ "cancels" \in Counters /\ "answers" \in Counters
    /\ "forgotten" \in Counters /\ "exceptions" \in Counters
BY DEF Counters

LEMMA TokenColumn ==
    ASSUME NEW f, \A j \in Tokens : f[j] \in Nat, NEW k \in Tokens
    PROVE  /\ Cardinality(Columns(f, Tokens \ {k})) \in Nat
           /\ Cardinality(Columns(f, Tokens))
                = f[k] + Cardinality(Columns(f, Tokens \ {k}))
<1>1. IsFiniteSet(Tokens) /\ (\A j \in Tokens : f[j] \in Nat) /\ k \in Tokens
  BY TokensFinite
<1>2. Apart(f, Tokens, k)
  BY ONLY <1>1, ColumnApart
<1> QED
  BY <1>2 DEF Apart

\* The queues as a sum.
LEMMA QueuedIsSum ==
    ASSUME ActionClientTypeOK
    PROVE  \E lengths \in [Tokens -> Nat] :
            /\ \A k \in Tokens : lengths[k] = Len(feedback[k])
            /\ \A S \in SUBSET Tokens : Queued(S) = Columns(lengths, S)
<1>1. \A k \in Tokens : feedback[k] \in Seq(Nat) /\ Len(feedback[k]) \in Nat
                            /\ DOMAIN feedback[k] = 1 .. Len(feedback[k])
  BY LenProperties DEF ActionClientTypeOK
<1>2. PICK lengths : lengths = [k \in Tokens |-> Len(feedback[k])]
  OBVIOUS
<1>3. lengths \in [Tokens -> Nat] /\ \A k \in Tokens : lengths[k] = Len(feedback[k])
  BY <1>1, <1>2
<1>4. \A S \in SUBSET Tokens : Queued(S) = Columns(lengths, S)
  BY <1>1, <1>3 DEF Queued, Columns
<1> QED
  BY <1>3, <1>4

LEMMA QueuedNextIsSum ==
    ASSUME ActionClientTypeOK'
    PROVE  \E lengths \in [Tokens -> Nat] :
            /\ \A k \in Tokens : lengths[k] = Len(feedback'[k])
            /\ \A S \in SUBSET Tokens : Queued(S)' = Columns(lengths, S)
<1>1. \A k \in Tokens : feedback'[k] \in Seq(Nat) /\ Len(feedback'[k]) \in Nat
                            /\ DOMAIN feedback'[k] = 1 .. Len(feedback'[k])
  BY LenProperties DEF ActionClientTypeOK
<1>2. PICK lengths : lengths = [k \in Tokens |-> Len(feedback'[k])]
  OBVIOUS
<1>3. lengths \in [Tokens -> Nat] /\ \A k \in Tokens : lengths[k] = Len(feedback'[k])
  BY <1>1, <1>2
<1>4. \A S \in SUBSET Tokens : Queued(S)' = Columns(lengths, S)
  BY <1>1, <1>3 DEF Queued, Columns
<1> QED
  BY <1>3, <1>4

LEMMA InitActionClientIInv == ActionClientInit => ActionClientIInv
<1> SUFFICES ASSUME ActionClientInit PROVE ActionClientIInv
  OBVIOUS
<1>1. ActionClientTypeOK
  <2>1. feedback \in [Tokens -> Seq(Nat)]
    BY EmptySeq DEF ActionClientInit
  <2>2. /\ executing \in [op : {"idle", "accepted", "rejected", "retain", "stop",
                             "feedback"}, goals : SUBSET Tokens]
        /\ calling \in [op : {"idle", "send", "count", "unsend", "cancel", "stop"},
                       goals : SUBSET Tokens]
    BY DEF ActionClientInit, Idle
  <2>3. goals_closed \in BOOLEAN
    BY DEF ActionClientInit
  <2>4. next_token \in 1 .. MaxGoals + 1
    BY ActionClientBounds DEF ActionClientInit
  <2>5. /\ response \in [Tokens -> {"none", "pending", "accepted", "rejected"}]
        /\ result \in [Tokens -> {"invalid", "waiting", "ready"}]
        /\ cancel \in [Tokens -> {"none", "sent", "ready", "taken"}]
        /\ published \in [Tokens -> Nat] /\ counts \in [Counters -> Nat]
    BY DEF ActionClientInit
  <2>6. requested \subseteq Tokens /\ goal_handles \subseteq Tokens /\ discarded \in Nat
    BY DEF ActionClientInit
  <2> QED
    BY <2>1, <2>2, <2>3, <2>4, <2>5, <2>6 DEF ActionClientTypeOK
<1>2. AcceptedRecords = {} /\ KnownRecords = {} /\ CancelsAwaited = {} /\ requested = {}
  BY DEF ActionClientInit, AcceptedRecords, KnownRecords, CancelsAwaited, Known
<1>3. Queued(Tokens) = {}
  BY DEF ActionClientInit, Queued
<1>4. Cardinality({}) = 0
  BY FS_EmptySet
<1>5. executing.op = "idle" /\ calling.op = "idle" /\ \A c \in Counters : counts[c] = 0
  BY DEF ActionClientInit, Idle
<1>6. AnswersCounted /\ RecordsCounted /\ ResultsCounted /\ CancelsCounted
  BY <1>2, <1>4, <1>5, CountersAre
     DEF AnswersCounted, RecordsCounted, ResultsCounted, CancelsCounted, One
<1>7. FeedbackCounted
  BY <1>3, <1>4, <1>5, CountersAre DEF FeedbackCounted, ActionClientInit
<1>8. TokensAreUnused /\ HandlesAreHeld
  BY <1>5 DEF ActionClientInit, TokensAreUnused, HandlesAreHeld
<1>9. QueuesHaveRecords
  BY DEF ActionClientInit, QueuesHaveRecords
<1>10. NewestKept
  <2>1. \A k \in Tokens : Len(feedback[k]) = 0 /\ DOMAIN feedback[k] = {}
    BY DEF ActionClientInit
  <2> QED
    BY <2>1, CapacityAssumption DEF NewestKept
<1> QED
  BY <1>1, <1>6, <1>7, <1>8, <1>9, <1>10 DEF ActionClientIInv

LEMMA BusyIs ==
    ASSUME NEW op, NEW k
    PROVE  /\ Busy(op, k).op = op /\ Busy(op, k).goals = {k}
           /\ Idle.op = "idle" /\ Idle.goals = {}
BY DEF Busy, Idle

Gaugings == {"received", "taken", "dropped"}

\* Nothing happens to a queue.
LEMMA QueuesAside ==
    ASSUME ActionClientIInv, UNCHANGED <<feedback, published, discarded>>,
           \A c \in Gaugings : counts'[c] = counts[c],
           \A k \in Tokens : executing' = Busy("feedback", k) <=> executing = Busy("feedback", k)
    PROVE  NewestKept' /\ FeedbackCounted'
<1>1. NewestKept'
  BY DEF ActionClientIInv, NewestKept
<1>2. Queued(Tokens)' = Queued(Tokens)
  BY DEF Queued
<1>3. /\ counts'["received"] = counts["received"] /\ counts'["taken"] = counts["taken"]
      /\ counts'["dropped"] = counts["dropped"]
  BY DEF Gaugings
<1> QED
  BY <1>1, <1>2, <1>3 DEF ActionClientIInv, FeedbackCounted

\* Records go, and their queues with them.
LEMMA ErasedRecords ==
    ASSUME ActionClientTypeOK, NEW goals \in SUBSET Tokens, Erase(goals)
    PROVE  /\ response' \in [Tokens -> {"none", "pending", "accepted", "rejected"}]
           /\ cancel' \in [Tokens -> {"none", "sent", "ready", "taken"}]
           /\ feedback' \in [Tokens -> Seq(Nat)] /\ discarded' \in Nat
           /\ \A k \in Tokens :
                /\ k \in goals => response'[k] = "none" /\ feedback'[k] = <<>>
                /\ k \notin goals => response'[k] = response[k] /\ feedback'[k] = feedback[k]
           /\ AcceptedRecords' = AcceptedRecords \ goals
           /\ KnownRecords' = KnownRecords \ goals
           /\ CancelsAwaited' \in SUBSET CancelsAwaited
<1>1. /\ response' = [k \in Tokens |-> IF k \in goals THEN "none" ELSE response[k]]
      /\ cancel' = [k \in Tokens |-> IF k \in goals THEN "none" ELSE cancel[k]]
      /\ feedback' = [k \in Tokens |-> IF k \in goals THEN <<>> ELSE feedback[k]]
  BY DEF Erase
<1>2. feedback' \in [Tokens -> Seq(Nat)]
  BY <1>1, EmptySeq DEF ActionClientTypeOK
<1>3. discarded' \in Nat
  <2>1. PICK lengths \in [Tokens -> Nat] : Queued(goals) = Columns(lengths, goals)
    BY QueuedIsSum
  <2>2. IsFiniteSet(goals) /\ \A k \in goals : lengths[k] \in Nat
    BY TokensFinite
  <2>3. IsFiniteSet(Queued(goals))
    BY <2>1, <2>2, ColumnsAreFinite
  <2>4. Cardinality(Queued(goals)) \in Nat
    BY <2>3, FS_CardinalityType
  <2> QED
    BY <2>4 DEF Erase, ActionClientTypeOK
<1>4. /\ response' \in [Tokens -> {"none", "pending", "accepted", "rejected"}]
      /\ cancel' \in [Tokens -> {"none", "sent", "ready", "taken"}]
  BY <1>1 DEF ActionClientTypeOK
<1>5. /\ AcceptedRecords' = AcceptedRecords \ goals
      /\ KnownRecords' = KnownRecords \ goals
      /\ CancelsAwaited' \in SUBSET CancelsAwaited
  BY <1>1 DEF AcceptedRecords, KnownRecords, CancelsAwaited, Known
<1> QED
  BY <1>1, <1>2, <1>3, <1>4, <1>5

LEMMA ErasedQueues ==
    ASSUME ActionClientIInv, ActionClientTypeOK', NEW goals \in SUBSET Tokens, Erase(goals),
           UNCHANGED <<published, executing>>, \A c \in Gaugings : counts'[c] = counts[c]
    PROVE  NewestKept' /\ FeedbackCounted'
<1> USE DEF ActionClientIInv
<1>1. \A k \in Tokens :
        /\ k \in goals => feedback'[k] = <<>>
        /\ k \notin goals => feedback'[k] = feedback[k]
  BY ErasedRecords
<1>2. NewestKept'
  <2>1. ASSUME NEW k \in Tokens, k \in goals
        PROVE  Len(feedback'[k]) = 0 /\ DOMAIN feedback'[k] = {}
    BY <1>1, <2>1
  <2> QED
    BY <1>1, <2>1, CapacityAssumption DEF NewestKept
<1>3. PICK lengths \in [Tokens -> Nat] :
        /\ \A k \in Tokens : lengths[k] = Len(feedback[k])
        /\ \A S \in SUBSET Tokens : Queued(S) = Columns(lengths, S)
  BY QueuedIsSum
<1>4. PICK left \in [Tokens -> Nat] :
        /\ \A k \in Tokens : left[k] = Len(feedback'[k])
        /\ \A S \in SUBSET Tokens : Queued(S)' = Columns(left, S)
  BY QueuedNextIsSum
<1>5. /\ \A k \in Tokens \ goals : left[k] = lengths[k]
      /\ \A k \in goals : left[k] = 0
  BY <1>1, <1>3, <1>4
<1>6. Columns(left, goals) = {}
  BY <1>5 DEF Columns
<1>7. Columns(left, Tokens \ goals) = Columns(lengths, Tokens \ goals)
  BY <1>5, ColumnsSame
<1>8. Columns(left, Tokens) = Columns(lengths, Tokens \ goals)
  <2>1. Columns(left, Tokens) = Columns(left, goals) \cup Columns(left, Tokens \ goals)
    BY DEF Columns
  <2> QED
    BY <1>6, <1>7, <2>1
<1>9. IsFiniteSet(Tokens) /\ \A k \in Tokens : lengths[k] \in Nat
  BY TokensFinite
<1>10. PICK a \in Nat, b \in Nat :
        /\ a = Cardinality(Columns(lengths, goals))
        /\ b = Cardinality(Columns(lengths, Tokens \ goals))
        /\ Cardinality(Columns(lengths, Tokens)) = a + b
  BY <1>9, ColumnsSplit
<1>11. Cardinality(Queued(Tokens)) = a + b /\ Cardinality(Queued(Tokens)') = b
       /\ discarded' = discarded + a
  <2>1. Tokens \in SUBSET Tokens
    OBVIOUS
  <2>2. Queued(Tokens) = Columns(lengths, Tokens) /\ Queued(goals) = Columns(lengths, goals)
    BY <1>3, <2>1
  <2>3. Queued(Tokens)' = Columns(left, Tokens)
    BY <1>4, <2>1
  <2> QED
    BY <1>8, <1>10, <2>2, <2>3 DEF Erase
<1>12. /\ counts'["received"] = counts["received"] /\ counts'["taken"] = counts["taken"]
       /\ counts'["dropped"] = counts["dropped"] /\ discarded \in Nat
       /\ counts["taken"] \in Nat /\ counts["dropped"] \in Nat
  BY CountersAre DEF Gaugings, ActionClientTypeOK
<1>13. FeedbackCounted'
  BY <1>10, <1>11, <1>12 DEF FeedbackCounted
<1> QED
  BY <1>2, <1>13

LEMMA SizesAreNat ==
    ASSUME ActionClientTypeOK
    PROVE  /\ Cardinality(KnownRecords) \in Nat /\ Cardinality(AcceptedRecords) \in Nat
           /\ Cardinality(CancelsAwaited) \in Nat /\ Cardinality(requested) \in Nat
           /\ counts["sent"] \in Nat /\ counts["accepted"] \in Nat
           /\ counts["rejected"] \in Nat /\ counts["results"] \in Nat
           /\ counts["forgotten"] \in Nat /\ counts["cancels"] \in Nat
           /\ counts["answers"] \in Nat /\ counts["received"] \in Nat
           /\ counts["taken"] \in Nat /\ counts["dropped"] \in Nat
           /\ KnownRecords \in SUBSET Tokens /\ AcceptedRecords \in SUBSET Tokens
           /\ CancelsAwaited \in SUBSET Tokens /\ requested \in SUBSET Tokens
<1>1. /\ KnownRecords \in SUBSET Tokens /\ AcceptedRecords \in SUBSET Tokens
      /\ CancelsAwaited \in SUBSET Tokens /\ requested \in SUBSET Tokens
  BY DEF ActionClientTypeOK, KnownRecords, AcceptedRecords, CancelsAwaited
<1>2. \A c \in Counters : counts[c] \in Nat
  BY DEF ActionClientTypeOK
<1> QED
  BY <1>1, <1>2, TokensFinite, CountersAre

-----------------------------------------------------------------------------
(* Python calls.                                                           *)

LEMMA SendGoalStep == ASSUME ActionClientIInv, SendGoal PROVE ActionClientIInv'
<1> USE DEF ActionClientIInv
<1>1. PICK k \in Tokens : k = next_token
  BY DEF SendGoal
<1>2. /\ calling = Idle /\ ~goals_closed /\ calling' = Busy("send", k)
      /\ next_token' = k + 1 /\ response' = [response EXCEPT ![k] = "pending"]
      /\ UNCHANGED <<result, cancel, feedback, goals_closed, requested, goal_handles,
                     published, executing, counts, discarded>>
  BY <1>1 DEF SendGoal, external
<1>3. /\ response' \in [Tokens -> {"none", "pending", "accepted", "rejected"}]
      /\ response'[k] = "pending"
      /\ \A j \in Tokens : j # k => response'[j] = response[j]
  BY <1>2 DEF ActionClientTypeOK
<1>4. /\ calling.op = "idle" /\ calling.goals = {}
      /\ calling'.op = "send" /\ calling'.goals = {k}
  BY <1>2, BusyIs
<1>5. response[k] = "none" /\ k \notin requested /\ k \notin goal_handles
  BY <1>1, TokensFinite DEF TokensAreUnused, Tokens
<1>6. ActionClientTypeOK'
  <2>1. next_token' \in 1 .. MaxGoals + 1
    BY <1>2, TokensFinite DEF Tokens
  <2>2. calling' \in [op : {"idle", "send", "count", "unsend", "cancel", "stop"},
                      goals : SUBSET Tokens]
    BY <1>2 DEF Busy
  <2> QED
    BY <1>2, <1>3, <2>1, <2>2 DEF ActionClientTypeOK
<1>7. TokensAreUnused'
  <2>1. \A j \in Tokens : j >= next_token' => j >= next_token /\ j # k
    BY <1>1, <1>2, TokensFinite DEF Tokens
  <2>2. \A j \in Tokens : j >= next_token' =>
            response'[j] = "none" /\ j \notin requested' /\ j \notin goal_handles'
    BY <1>2, <1>3, <2>1 DEF TokensAreUnused
  <2>3. \A j \in calling'.goals :
            response'[j] # "none" /\ j \notin requested' /\ j \notin goal_handles'
    BY <1>2, <1>3, <1>4, <1>5
  <2> QED
    BY <2>2, <2>3 DEF TokensAreUnused, Known
<1>8. HandlesAreHeld'
  BY <1>2, <1>3, <1>4, <1>5 DEF HandlesAreHeld
<1>9. KnownRecords' = KnownRecords \cup {k} /\ k \notin KnownRecords
  BY <1>3, <1>5 DEF KnownRecords, Known
<1>10. AcceptedRecords' = AcceptedRecords /\ CancelsAwaited' = CancelsAwaited
  BY <1>2, <1>3, <1>5 DEF AcceptedRecords, CancelsAwaited
<1>11. AnswersCounted' /\ ResultsCounted' /\ CancelsCounted'
  BY <1>2, <1>4, <1>10 DEF AnswersCounted, ResultsCounted, CancelsCounted, One
<1>12. RecordsCounted'
  <2>1. Cardinality(KnownRecords') = Cardinality(KnownRecords) + 1
    BY <1>9, SizesAreNat, TokenAdded
  <2> QED
    BY <1>2, <1>4, <2>1, SizesAreNat DEF RecordsCounted, One
<1>13. QueuesHaveRecords'
  BY <1>2, <1>3 DEF QueuesHaveRecords, Known
<1>14. NewestKept' /\ FeedbackCounted'
  BY <1>2, QueuesAside DEF Gaugings
<1> QED
  BY <1>6, <1>7, <1>8, <1>11, <1>12, <1>13, <1>14

LEMMA AsyncSendGoalStep == ASSUME ActionClientIInv, AsyncSendGoal PROVE ActionClientIInv'
<1> USE DEF ActionClientIInv
<1>1. PICK k \in Tokens :
        /\ calling = Busy("send", k)
        /\ \/ /\ requested' = requested \cup {k} /\ calling' = Busy("count", k)
              /\ UNCHANGED counts
           \/ /\ calling' = Busy("unsend", k) /\ Count("exceptions")
              /\ UNCHANGED requested
  BY DEF AsyncSendGoal
<1>2. UNCHANGED <<next_token, response, cancel, feedback, result, goals_closed,
                  goal_handles, published, executing, discarded>>
  BY DEF AsyncSendGoal, records
<1>3. /\ calling.op = "send" /\ calling.goals = {k}
      /\ Known(k) /\ k \notin requested /\ k \notin goal_handles
  BY <1>1, BusyIs DEF TokensAreUnused
<1>4. k < next_token
  BY <1>3 DEF TokensAreUnused, Known, ActionClientTypeOK, Tokens
<1>5. KnownRecords' = KnownRecords /\ AcceptedRecords' = AcceptedRecords
      /\ CancelsAwaited' = CancelsAwaited
  BY <1>2 DEF KnownRecords, AcceptedRecords, CancelsAwaited, Known
<1>6. QueuesHaveRecords'
  BY <1>2 DEF QueuesHaveRecords, Known
<1>7. CASE /\ requested' = requested \cup {k} /\ calling' = Busy("count", k)
           /\ UNCHANGED counts
  <2>1. calling'.op = "count" /\ calling'.goals = {k}
    BY <1>7, BusyIs
  <2>2. ActionClientTypeOK'
    BY <1>2, <1>7 DEF ActionClientTypeOK, Busy
  <2>3. TokensAreUnused'
    <3>1. \A j \in Tokens : j >= next_token => j \notin requested'
      BY <1>4, <1>7 DEF TokensAreUnused, ActionClientTypeOK, Tokens
    <3>2. calling'.op \notin {"send", "unsend"}
      BY <2>1
    <3> QED
      BY <1>2, <3>1, <3>2 DEF TokensAreUnused
  <2>4. HandlesAreHeld'
    BY <1>2, <1>3, <1>7, <2>1 DEF HandlesAreHeld
  <2>5. Cardinality(requested') = Cardinality(requested) + 1
    BY <1>3, <1>7, SizesAreNat, TokenAdded
  <2>6. AnswersCounted' /\ RecordsCounted' /\ ResultsCounted' /\ CancelsCounted'
    BY <1>2, <1>3, <1>5, <1>7, <2>1, <2>5, SizesAreNat
       DEF AnswersCounted, RecordsCounted, ResultsCounted, CancelsCounted, One
  <2>7. NewestKept' /\ FeedbackCounted'
    BY <1>2, <1>7, QueuesAside DEF Gaugings
  <2> QED
    BY <1>6, <2>2, <2>3, <2>4, <2>6, <2>7
<1>8. CASE /\ calling' = Busy("unsend", k) /\ Count("exceptions")
           /\ UNCHANGED requested
  <2>1. calling'.op = "unsend" /\ calling'.goals = {k}
    BY <1>8, BusyIs
  <2>2. /\ counts' \in [Counters -> Nat]
        /\ \A c \in Counters : c # "exceptions" => counts'[c] = counts[c]
    BY <1>8, CountedOne, CountersAre
  <2>3. ActionClientTypeOK'
    BY <1>2, <1>8, <2>2 DEF ActionClientTypeOK, Busy
  <2>4. TokensAreUnused'
    BY <1>2, <1>3, <1>8, <2>1 DEF TokensAreUnused, Known
  <2>5. HandlesAreHeld'
    BY <1>2, <1>3, <1>8, <2>1 DEF HandlesAreHeld
  <2>6. AnswersCounted' /\ RecordsCounted' /\ ResultsCounted' /\ CancelsCounted'
    BY <1>2, <1>3, <1>5, <1>8, <2>1, <2>2, CountersAre
       DEF AnswersCounted, RecordsCounted, ResultsCounted, CancelsCounted, One
  <2>7. NewestKept' /\ FeedbackCounted'
    BY <1>2, <2>2, QueuesAside, CountersAre DEF Gaugings
  <2> QED
    BY <1>6, <2>3, <2>4, <2>5, <2>6, <2>7
<1> QED
  BY <1>1, <1>7, <1>8

\* What is the same whenever records go.
LEMMA EraseKeeps ==
    ASSUME ActionClientIInv, NEW goals \in SUBSET Tokens, Erase(goals),
           UNCHANGED <<next_token, result, requested, goal_handles, published, executing>>,
           goals_closed' \in BOOLEAN,
           calling' \in [op : {"idle", "send", "count", "unsend", "cancel", "stop"},
                         goals : SUBSET Tokens],
           calling'.op \notin {"send", "unsend"},
           counts' \in [Counters -> Nat],
           \A c \in {"received", "taken", "dropped", "answers", "cancels"} :
                counts'[c] = counts[c],
           goals_closed' => goals_closed \/ goals = KnownRecords
    PROVE  /\ ActionClientTypeOK' /\ TokensAreUnused' /\ CancelsCounted'
           /\ QueuesHaveRecords' /\ NewestKept' /\ FeedbackCounted'
<1> USE DEF ActionClientIInv
<1>1. /\ response' \in [Tokens -> {"none", "pending", "accepted", "rejected"}]
      /\ cancel' \in [Tokens -> {"none", "sent", "ready", "taken"}]
      /\ feedback' \in [Tokens -> Seq(Nat)] /\ discarded' \in Nat
      /\ KnownRecords' = KnownRecords \ goals
      /\ CancelsAwaited' \in SUBSET CancelsAwaited
  BY ErasedRecords
<1>2. \A k \in Tokens :
        /\ k \in goals => response'[k] = "none" /\ feedback'[k] = <<>>
        /\ k \notin goals => response'[k] = response[k] /\ feedback'[k] = feedback[k]
  BY ErasedRecords
<1>3. ActionClientTypeOK'
  BY <1>1 DEF ActionClientTypeOK
<1>4. TokensAreUnused'
  BY <1>2 DEF TokensAreUnused
<1>5. CancelsCounted'
  <2>1. /\ Cardinality(CancelsAwaited') <= Cardinality(CancelsAwaited)
        /\ Cardinality(CancelsAwaited') \in Nat /\ Cardinality(CancelsAwaited) \in Nat
    BY <1>1, SizesAreNat, TokensFewer
  <2> QED
    BY <2>1, SizesAreNat DEF CancelsCounted
<1>6. QueuesHaveRecords'
  <2>1. \A k \in Tokens : response'[k] = "none" => feedback'[k] = <<>>
    BY <1>2 DEF QueuesHaveRecords, Known
  <2>2. CASE ~goals_closed'
    BY <2>1, <2>2 DEF QueuesHaveRecords, Known
  <2>3. CASE goals_closed'
    <3>1. \A k \in Tokens : response'[k] = "none"
      BY <1>2, <2>3 DEF QueuesHaveRecords, Known, KnownRecords
    <3> QED
      BY <2>1, <3>1 DEF QueuesHaveRecords, Known
  <2> QED
    BY <2>2, <2>3
<1>7. NewestKept' /\ FeedbackCounted'
  BY <1>3, ErasedQueues DEF Gaugings
<1> QED
  BY <1>3, <1>4, <1>5, <1>6, <1>7

LEMMA SendReturnsStep == ASSUME ActionClientIInv, SendReturns PROVE ActionClientIInv'
<1> USE DEF ActionClientIInv
<1>1. PICK k \in Tokens :
        \/ calling = Busy("count", k) /\ Count("sent") /\ UNCHANGED <<records, discarded>>
        \/ calling = Busy("unsend", k) /\ Erase({k}) /\ UNCHANGED counts
  BY DEF SendReturns
<1>2. /\ calling' = Idle
      /\ UNCHANGED <<next_token, result, goals_closed, requested, goal_handles, published,
                     executing>>
  BY DEF SendReturns, external
<1>3. calling'.op = "idle" /\ calling'.goals = {}
  BY <1>2, BusyIs
<1>4. calling' \in [op : {"idle", "send", "count", "unsend", "cancel", "stop"},
                    goals : SUBSET Tokens]
  BY <1>2 DEF Idle
<1>5. CASE calling = Busy("count", k) /\ Count("sent") /\ UNCHANGED <<records, discarded>>
  <2>1. UNCHANGED <<response, cancel, feedback, discarded>> /\ calling.op = "count"
    BY <1>5, BusyIs DEF records
  <2>2. /\ counts' \in [Counters -> Nat] /\ counts'["sent"] = counts["sent"] + 1
        /\ \A c \in Counters : c # "sent" => counts'[c] = counts[c]
    BY <1>5, CountedOne, CountersAre
  <2>3. ActionClientTypeOK'
    BY <1>2, <1>4, <2>1, <2>2 DEF ActionClientTypeOK
  <2>4. KnownRecords' = KnownRecords /\ AcceptedRecords' = AcceptedRecords
        /\ CancelsAwaited' = CancelsAwaited
    BY <2>1 DEF KnownRecords, AcceptedRecords, CancelsAwaited, Known
  <2>5. TokensAreUnused' /\ HandlesAreHeld'
    BY <1>2, <1>3, <2>1 DEF TokensAreUnused, HandlesAreHeld
  <2>6. AnswersCounted' /\ RecordsCounted' /\ ResultsCounted' /\ CancelsCounted'
    <3>1. /\ counts'["accepted"] = counts["accepted"] /\ counts'["rejected"] = counts["rejected"]
          /\ counts'["results"] = counts["results"]
          /\ counts'["forgotten"] = counts["forgotten"]
          /\ counts'["answers"] = counts["answers"] /\ counts'["cancels"] = counts["cancels"]
      BY <2>2, CountersAre
    <3>2. AnswersCounted'
      BY <1>2, <1>3, <2>1, <2>2, <3>1, SizesAreNat DEF AnswersCounted, One
    <3>3. RecordsCounted'
      BY <1>2, <1>3, <2>1, <2>2, <2>4, <3>1, SizesAreNat DEF RecordsCounted, One
    <3> QED
      BY <2>4, <3>1, <3>2, <3>3 DEF ResultsCounted, CancelsCounted
  <2>7. QueuesHaveRecords'
    BY <1>2, <2>1 DEF QueuesHaveRecords, Known
  <2>8. NewestKept' /\ FeedbackCounted'
    BY <1>2, <2>1, <2>2, QueuesAside, CountersAre DEF Gaugings
  <2> QED
    BY <2>3, <2>5, <2>6, <2>7, <2>8
<1>6. CASE calling = Busy("unsend", k) /\ Erase({k}) /\ UNCHANGED counts
  <2>1. /\ calling.op = "unsend" /\ calling.goals = {k}
        /\ Known(k) /\ k \notin goal_handles
    BY <1>6, BusyIs DEF TokensAreUnused
  <2>2. /\ AcceptedRecords' = AcceptedRecords \ {k} /\ KnownRecords' = KnownRecords \ {k}
        /\ \A j \in Tokens : j # k => response'[j] = response[j]
    BY <1>6, ErasedRecords
  <2>3. /\ ActionClientTypeOK' /\ TokensAreUnused' /\ CancelsCounted'
        /\ QueuesHaveRecords' /\ NewestKept' /\ FeedbackCounted'
    BY <1>2, <1>3, <1>4, <1>6, EraseKeeps DEF ActionClientTypeOK
  <2>4. HandlesAreHeld'
    BY <1>2, <2>1, <2>2 DEF HandlesAreHeld, ActionClientTypeOK
  <2>5. /\ Cardinality(AcceptedRecords') <= Cardinality(AcceptedRecords)
        /\ Cardinality(AcceptedRecords') \in Nat
    BY <2>2, SizesAreNat, TokenRemoved
  <2>6. k \in KnownRecords
    BY <2>1 DEF KnownRecords
  <2>7. /\ Cardinality(KnownRecords) = Cardinality(KnownRecords') + 1
        /\ Cardinality(KnownRecords') \in Nat
    BY <2>2, <2>6, SizesAreNat, TokenRemoved
  <2>8. AnswersCounted'
    BY <1>2, <1>3, <1>6, <2>1 DEF AnswersCounted, One
  <2>9. RecordsCounted'
    BY <1>2, <1>3, <1>6, <2>1, <2>7, SizesAreNat DEF RecordsCounted, One
  <2>10. ResultsCounted'
    BY <1>6, <2>5, SizesAreNat DEF ResultsCounted
  <2> QED
    BY <2>3, <2>4, <2>8, <2>9, <2>10
<1> QED
  BY <1>1, <1>5, <1>6

\* take_result, and forget: the record of a goal that is done goes.
LEMMA RecordGone ==
    ASSUME ActionClientIInv, NEW k \in Tokens, calling = Idle, Known(k), Erase({k}),
           UNCHANGED <<next_token, result, goals_closed, requested, goal_handles, published,
                       executing>>,
           NEW c \in {"results", "forgotten"}, Count(c),
           c = "results" => response[k] = "accepted",
           calling' = IF response[k] = "accepted" THEN Busy("stop", k) ELSE Idle
    PROVE  ActionClientIInv'
<1> USE DEF ActionClientIInv
<1>1. /\ counts' \in [Counters -> Nat] /\ counts'[c] = counts[c] + 1
      /\ \A d \in Counters : d # c => counts'[d] = counts[d]
  BY CountedOne, CountersAre
<1>2. /\ calling.op = "idle" /\ calling.goals = {}
      /\ response[k] = "accepted" => calling'.op = "stop" /\ calling'.goals = {k}
      /\ response[k] # "accepted" => calling'.op = "idle" /\ calling'.goals = {}
  BY BusyIs
<1>3. calling' \in [op : {"idle", "send", "count", "unsend", "cancel", "stop"},
                    goals : SUBSET Tokens]
  BY DEF Busy, Idle
<1>4. /\ AcceptedRecords' = AcceptedRecords \ {k} /\ KnownRecords' = KnownRecords \ {k}
      /\ \A j \in Tokens : j # k => response'[j] = response[j]
  BY ErasedRecords
<1>5. /\ ActionClientTypeOK' /\ TokensAreUnused' /\ CancelsCounted'
      /\ QueuesHaveRecords' /\ NewestKept' /\ FeedbackCounted'
  <2>1. \A d \in {"received", "taken", "dropped", "answers", "cancels"} :
            counts'[d] = counts[d]
    BY <1>1, CountersAre
  <2> QED
    BY <1>1, <1>2, <1>3, <2>1, EraseKeeps DEF ActionClientTypeOK
<1>6. HandlesAreHeld'
  BY <1>2, <1>4 DEF HandlesAreHeld, ActionClientTypeOK
<1>7. k \in KnownRecords /\ (c = "results" => k \in AcceptedRecords)
  BY DEF KnownRecords, AcceptedRecords
<1>8. /\ Cardinality(KnownRecords) = Cardinality(KnownRecords') + 1
      /\ Cardinality(KnownRecords') \in Nat
  BY <1>4, <1>7, SizesAreNat, TokenRemoved
<1>9. /\ Cardinality(AcceptedRecords') <= Cardinality(AcceptedRecords)
      /\ Cardinality(AcceptedRecords') \in Nat
      /\ c = "results" => Cardinality(AcceptedRecords) = Cardinality(AcceptedRecords') + 1
  BY <1>4, <1>7, SizesAreNat, TokenRemoved
<1>10. /\ counts'["sent"] = counts["sent"] /\ counts'["accepted"] = counts["accepted"]
       /\ counts'["rejected"] = counts["rejected"]
       /\ counts'["results"] = counts["results"] + One(c = "results")
       /\ counts'["forgotten"] = counts["forgotten"] + One(c = "forgotten")
  BY <1>1, CountersAre, SizesAreNat DEF One
<1>11. One(c = "results") + One(c = "forgotten") = 1
  BY DEF One
<1>12. AnswersCounted' /\ RecordsCounted'
  BY <1>2, <1>8, <1>10, <1>11, SizesAreNat DEF AnswersCounted, RecordsCounted, One
<1>13. ResultsCounted'
  BY <1>9, <1>10, SizesAreNat DEF ResultsCounted, One
<1> QED
  BY <1>5, <1>6, <1>12, <1>13

LEMMA TakeResultStep ==
    ASSUME ActionClientIInv, NEW k \in Tokens, TakeResult(k) PROVE ActionClientIInv'
BY RecordGone DEF TakeResult, ResultReady, Known, external

LEMMA ForgetStep ==
    ASSUME ActionClientIInv, NEW k \in Tokens, Forget(k) PROVE ActionClientIInv'
BY RecordGone DEF Forget, external

LEMMA TakeFeedbackStep ==
    ASSUME ActionClientIInv, NEW k \in Tokens, TakeFeedback(k) PROVE ActionClientIInv'
<1> USE DEF ActionClientIInv
<1>1. /\ feedback[k] # <<>> /\ feedback' = [feedback EXCEPT ![k] = Tail(@)]
      /\ Count("taken")
      /\ UNCHANGED <<next_token, response, result, cancel, goals_closed, requested,
                     goal_handles, published, executing, calling, discarded>>
  BY DEF TakeFeedback, external
<1>2. /\ counts' \in [Counters -> Nat] /\ counts'["taken"] = counts["taken"] + 1
      /\ \A c \in Counters : c # "taken" => counts'[c] = counts[c]
  BY <1>1, CountedOne, CountersAre
<1>3. feedback \in [Tokens -> Seq(Nat)]
  BY DEF ActionClientTypeOK
<1>4. PICK q \in Seq(Nat) : q = feedback[k] /\ q # <<>>
  BY <1>1, <1>3
<1>5. /\ Tail(q) \in Seq(Nat) /\ Len(Tail(q)) = Len(q) - 1 /\ Len(q) \in Nat /\ Len(q) >= 1
      /\ \A i \in 1 .. Len(q) - 1 : Tail(q)[i] = q[i + 1]
      /\ DOMAIN Tail(q) = 1 .. Len(q) - 1 /\ DOMAIN q = 1 .. Len(q)
  BY <1>4, HeadTailProperties, EmptySeq, LenProperties
<1>6. /\ feedback' \in [Tokens -> Seq(Nat)] /\ feedback'[k] = Tail(q)
      /\ \A j \in Tokens : j # k => feedback'[j] = feedback[j]
  BY <1>1, <1>3, <1>4, <1>5
<1>7. ActionClientTypeOK'
  BY <1>1, <1>2, <1>6 DEF ActionClientTypeOK
<1>8. KnownRecords' = KnownRecords /\ AcceptedRecords' = AcceptedRecords
      /\ CancelsAwaited' = CancelsAwaited
  BY <1>1 DEF KnownRecords, AcceptedRecords, CancelsAwaited, Known
<1>9. TokensAreUnused' /\ HandlesAreHeld'
  BY <1>1 DEF TokensAreUnused, HandlesAreHeld, Known
<1>10. AnswersCounted' /\ RecordsCounted' /\ ResultsCounted' /\ CancelsCounted'
  BY <1>1, <1>2, <1>8, CountersAre
     DEF AnswersCounted, RecordsCounted, ResultsCounted, CancelsCounted
<1>11. QueuesHaveRecords'
  BY <1>1, <1>4, <1>6 DEF QueuesHaveRecords, Known
<1>12. NewestKept'
  <2> DEFINE came(j) == published[j] - IF executing = Busy("feedback", j) THEN 1 ELSE 0
  <2>1. PICK n \in Int : n = came(k)
    <3>1. published[k] \in Nat
      BY DEF ActionClientTypeOK
    <3>2. PICK late \in {0, 1} :
            late = IF executing = Busy("feedback", k) THEN 1 ELSE 0
      OBVIOUS
    <3>3. came(k) = published[k] - late /\ published[k] - late \in Int
      BY <3>1, <3>2
    <3> QED
      BY <3>3
  <2>2. Len(q) <= FeedbackCapacity /\ \A i \in 1 .. Len(q) : q[i] = n - Len(q) + i
    BY <1>4, <1>5, <2>1 DEF NewestKept
  <2>3. Len(Tail(q)) <= FeedbackCapacity
    BY <1>5, <2>2, CapacityAssumption
  <2>4. ASSUME NEW i \in 1 .. Len(q) - 1 PROVE Tail(q)[i] = n - Len(Tail(q)) + i
    <3>1. i + 1 \in 1 .. Len(q) /\ i \in Nat
      BY <1>5
    <3>2. Tail(q)[i] = n - Len(q) + (i + 1)
      BY <1>5, <2>2, <3>1
    <3> QED
      BY <1>5, <2>1, <3>1, <3>2
  <2>5. \A j \in Tokens :
          /\ Len(feedback'[j]) <= FeedbackCapacity
          /\ \A i \in DOMAIN feedback'[j] : feedback'[j][i] = came(j) - Len(feedback'[j]) + i
    <3>1. ASSUME NEW j \in Tokens, j # k
          PROVE  /\ Len(feedback'[j]) <= FeedbackCapacity
                 /\ \A i \in DOMAIN feedback'[j] :
                        feedback'[j][i] = came(j) - Len(feedback'[j]) + i
      BY <1>6, <3>1 DEF NewestKept
    <3> QED
      BY <1>5, <1>6, <2>1, <2>3, <2>4, <3>1
  <2> QED
    BY <1>1, <2>5 DEF NewestKept
<1>13. FeedbackCounted'
  <2>1. PICK lengths \in [Tokens -> Nat] :
          /\ \A j \in Tokens : lengths[j] = Len(feedback[j])
          /\ \A S \in SUBSET Tokens : Queued(S) = Columns(lengths, S)
    BY QueuedIsSum
  <2>2. PICK left \in [Tokens -> Nat] :
          /\ \A j \in Tokens : left[j] = Len(feedback'[j])
          /\ \A S \in SUBSET Tokens : Queued(S)' = Columns(left, S)
    BY <1>7, QueuedNextIsSum
  <2>3. /\ \A j \in Tokens \ {k} : left[j] = lengths[j]
        /\ lengths[k] = left[k] + 1 /\ left[k] \in Nat
    <3>1. \A j \in Tokens \ {k} : left[j] = lengths[j]
      BY <1>6, <2>1, <2>2
    <3>2. lengths[k] = Len(q) /\ left[k] = Len(Tail(q))
      BY <1>4, <1>6, <2>1, <2>2
    <3> QED
      BY <1>5, <3>1, <3>2
  <2>4. Columns(left, Tokens \ {k}) = Columns(lengths, Tokens \ {k})
    BY <2>3, ColumnsSame
  <2>6. PICK a \in Nat : /\ a = Cardinality(Columns(lengths, Tokens \ {k}))
                         /\ Cardinality(Columns(lengths, Tokens)) = lengths[k] + a
    BY TokenColumn
  <2>7. Cardinality(Columns(left, Tokens)) = left[k] + Cardinality(Columns(left, Tokens \ {k}))
    BY TokenColumn
  <2>8. Cardinality(Queued(Tokens)) = (left[k] + 1) + a
        /\ Cardinality(Queued(Tokens)') = left[k] + a
    <3>1. Tokens \in SUBSET Tokens
      OBVIOUS
    <3>2. Queued(Tokens) = Columns(lengths, Tokens) /\ Queued(Tokens)' = Columns(left, Tokens)
      BY <2>1, <2>2, <3>1
    <3> QED
      BY <2>3, <2>4, <2>6, <2>7, <3>2
  <2>9. counts'["received"] = counts["received"] /\ counts'["dropped"] = counts["dropped"]
    BY <1>2, CountersAre
  <2>10. discarded \in Nat
    BY DEF ActionClientTypeOK
  <2>11. PICK t \in Nat, d \in Nat : t = counts["taken"] /\ d = counts["dropped"]
    BY SizesAreNat
  <2>12. counts["received"] = t + d + ((left[k] + 1) + a) + discarded
    BY <2>8, <2>11 DEF FeedbackCounted
  <2>13. counts'["received"] = (t + 1) + d + (left[k] + a) + discarded
    BY <2>3, <2>9, <2>10, <2>12
  <2> QED
    BY <1>1, <1>2, <2>8, <2>9, <2>11, <2>13 DEF FeedbackCounted
<1> QED
  BY <1>7, <1>9, <1>10, <1>11, <1>12, <1>13

\* A call and the callbacks go on, and no counter or record is touched.
LEMMA ProgressStep ==
    ASSUME ActionClientIInv,
           UNCHANGED <<next_token, response, cancel, feedback, result, goals_closed,
                       requested, published, executing, counts, discarded>>,
           goal_handles' \in SUBSET goal_handles,
           calling' \in [op : {"idle", "send", "count", "unsend", "cancel", "stop"},
                         goals : SUBSET Tokens],
           calling.op \in {"idle", "cancel", "stop"},
           calling'.op \in {"idle", "cancel", "stop"},
           HandlesAreHeld'
    PROVE  ActionClientIInv'
<1> USE DEF ActionClientIInv
<1>1. ActionClientTypeOK'
  BY DEF ActionClientTypeOK
<1>2. KnownRecords' = KnownRecords /\ AcceptedRecords' = AcceptedRecords
      /\ CancelsAwaited' = CancelsAwaited
  BY DEF KnownRecords, AcceptedRecords, CancelsAwaited, Known
<1>3. TokensAreUnused'
  BY DEF TokensAreUnused
<1>4. AnswersCounted' /\ RecordsCounted' /\ ResultsCounted' /\ CancelsCounted'
  BY <1>2 DEF AnswersCounted, RecordsCounted, ResultsCounted, CancelsCounted, One
<1>5. QueuesHaveRecords'
  BY DEF QueuesHaveRecords, Known
<1>6. NewestKept' /\ FeedbackCounted'
  BY QueuesAside
<1> QED
  BY <1>1, <1>3, <1>4, <1>5, <1>6

LEMMA RequestCancelStep ==
    ASSUME ActionClientIInv, NEW k \in Tokens, RequestCancel(k) PROVE ActionClientIInv'
<1> USE DEF ActionClientIInv
<1>1. /\ calling = Idle /\ calling' = Busy("cancel", k)
      /\ UNCHANGED <<next_token, response, cancel, feedback, result, goals_closed,
                     requested, goal_handles, published, executing, counts, discarded>>
  BY DEF RequestCancel, external, records
<1>2. calling.op = "idle" /\ calling'.op = "cancel"
  BY <1>1, BusyIs
<1>3. HandlesAreHeld'
  BY <1>1, <1>2 DEF HandlesAreHeld
<1> QED
  BY <1>1, <1>2, <1>3, ProgressStep DEF Busy

LEMMA StopCallbacksStep == ASSUME ActionClientIInv, StopCallbacks PROVE ActionClientIInv'
<1> USE DEF ActionClientIInv
<1>1. PICK k \in calling.goals :
        /\ calling.op = "stop" /\ goal_handles' = goal_handles \ {k}
        /\ calling' = IF calling.goals = {k} THEN Idle
                      ELSE [calling EXCEPT !.goals = @ \ {k}]
  BY DEF StopCallbacks
<1>2. UNCHANGED <<next_token, response, cancel, feedback, result, goals_closed,
                  requested, published, executing, counts, discarded>>
  BY DEF StopCallbacks, records
<1>3. calling \in [op : {"idle", "send", "count", "unsend", "cancel", "stop"},
                   goals : SUBSET Tokens]
  BY DEF ActionClientTypeOK
<1>4. /\ calling' \in [op : {"idle", "send", "count", "unsend", "cancel", "stop"},
                       goals : SUBSET Tokens]
      /\ calling'.goals = calling.goals \ {k} /\ calling'.op \in {"idle", "stop"}
      /\ calling'.goals # {} => calling'.op = "stop"
  <2>1. CASE calling.goals = {k}
    BY <1>1, <2>1, BusyIs DEF Idle
  <2>2. CASE calling.goals # {k}
    BY <1>1, <1>3, <2>2
  <2> QED
    BY <2>1, <2>2
<1>5. HandlesAreHeld'
  BY <1>1, <1>2, <1>4 DEF HandlesAreHeld
<1> QED
  BY <1>1, <1>2, <1>4, <1>5, ProgressStep

\* What counts of a cancel request changes, and only that.
LEMMA CancelChanges ==
    ASSUME ActionClientIInv, NEW c \in {"cancels", "answers", "exceptions"},
           NEW k \in Tokens, NEW state \in {"sent", "ready", "taken"},
           \/ cancel' = [cancel EXCEPT ![k] = state]
           \/ UNCHANGED cancel,
           \/ Count(c)
           \/ UNCHANGED counts,
           CancelsCounted',
           UNCHANGED <<next_token, response, feedback, result, goals_closed,
                       requested, goal_handles, published, executing, discarded>>,
           calling.op \in {"idle", "cancel", "stop"},
           calling' \in {calling, Idle}, calling.op = "stop" => calling' = calling
    PROVE  ActionClientIInv'
<1> USE DEF ActionClientIInv
<1>1. /\ counts' \in [Counters -> Nat]
      /\ \A d \in Counters : d # c => counts'[d] = counts[d]
  BY CountedOne, CountersAre DEF ActionClientTypeOK
<1>2. cancel' \in [Tokens -> {"none", "sent", "ready", "taken"}]
  BY DEF ActionClientTypeOK
<1>3. calling' \in [op : {"idle", "send", "count", "unsend", "cancel", "stop"},
                    goals : SUBSET Tokens]
  BY DEF ActionClientTypeOK, Idle
<1>4. ActionClientTypeOK'
  BY <1>1, <1>2, <1>3 DEF ActionClientTypeOK
<1>5. calling'.op \in {"idle", "cancel", "stop"} /\ (calling.op = "stop" => calling' = calling)
  BY BusyIs
<1>6. TokensAreUnused' /\ HandlesAreHeld'
  BY <1>5 DEF TokensAreUnused, HandlesAreHeld, Known
<1>7. KnownRecords' = KnownRecords /\ AcceptedRecords' = AcceptedRecords
  BY DEF KnownRecords, AcceptedRecords, Known
<1>8. /\ counts'["sent"] = counts["sent"] /\ counts'["accepted"] = counts["accepted"]
      /\ counts'["rejected"] = counts["rejected"]
      /\ counts'["results"] = counts["results"]
      /\ counts'["forgotten"] = counts["forgotten"]
  BY <1>1, CountersAre
<1>9. AnswersCounted' /\ RecordsCounted' /\ ResultsCounted'
  BY <1>5, <1>7, <1>8 DEF AnswersCounted, RecordsCounted, ResultsCounted, One
<1>10. QueuesHaveRecords'
  BY DEF QueuesHaveRecords, Known
<1>11. NewestKept' /\ FeedbackCounted'
  BY <1>1, QueuesAside, CountersAre DEF Gaugings
<1> QED
  BY <1>4, <1>6, <1>9, <1>10, <1>11

LEMMA AsyncCancelGoalStep ==
    ASSUME ActionClientIInv, AsyncCancelGoal PROVE ActionClientIInv'
<1> USE DEF ActionClientIInv
<1>1. PICK k \in Tokens :
        /\ calling = Busy("cancel", k)
        /\ \/ cancel' = [cancel EXCEPT ![k] = "sent"] /\ Count("cancels")
           \/ Count("exceptions") /\ UNCHANGED cancel
  BY DEF AsyncCancelGoal
<1>2. /\ calling' = Idle /\ calling.op = "cancel"
      /\ UNCHANGED <<next_token, response, feedback, result, goals_closed,
                     requested, goal_handles, published, executing, discarded>>
  BY <1>1, BusyIs DEF AsyncCancelGoal, external
<1>3. CASE cancel' = [cancel EXCEPT ![k] = "sent"] /\ Count("cancels")
  <2>1. CancelsAwaited' = CancelsAwaited \cup {k}
    BY <1>3 DEF CancelsAwaited, ActionClientTypeOK
  <2>2. /\ Cardinality(CancelsAwaited') <= Cardinality(CancelsAwaited) + 1
        /\ Cardinality(CancelsAwaited') \in Nat /\ Cardinality(CancelsAwaited) \in Nat
    BY <2>1, SizesAreNat, TokenAdded
  <2>3. /\ counts'["cancels"] = counts["cancels"] + 1
        /\ counts'["answers"] = counts["answers"]
    BY <1>3, CountedOne, CountersAre
  <2>4. CancelsCounted'
    BY <2>2, <2>3, SizesAreNat DEF CancelsCounted
  <2> QED
    BY <1>2, <1>3, <2>4, CancelChanges
<1>4. CASE Count("exceptions") /\ UNCHANGED cancel
  <2>1. /\ counts'["cancels"] = counts["cancels"]
        /\ counts'["answers"] = counts["answers"]
    BY <1>4, CountedOne, CountersAre
  <2>2. CancelsAwaited' = CancelsAwaited
    BY <1>4 DEF CancelsAwaited
  <2>3. CancelsCounted'
    BY <2>1, <2>2 DEF CancelsCounted
  <2> QED
    BY <1>2, <1>4, <2>3, CancelChanges
<1> QED
  BY <1>1, <1>3, <1>4

LEMMA TakeCancelResponseStep ==
    ASSUME ActionClientIInv, NEW k \in Tokens, TakeCancelResponse(k)
    PROVE  ActionClientIInv'
<1> USE DEF ActionClientIInv
<1>1. /\ calling = Idle /\ cancel[k] = "ready" /\ Count("answers")
      /\ cancel' = [cancel EXCEPT ![k] = "taken"]
      /\ UNCHANGED <<next_token, response, feedback, result, goals_closed, calling,
                     requested, goal_handles, published, executing, discarded>>
  BY DEF TakeCancelResponse, external
<1>2. CancelsAwaited' = CancelsAwaited \ {k} /\ k \in CancelsAwaited
  BY <1>1 DEF CancelsAwaited, ActionClientTypeOK
<1>3. /\ Cardinality(CancelsAwaited) = Cardinality(CancelsAwaited') + 1
      /\ Cardinality(CancelsAwaited') \in Nat
  BY <1>2, SizesAreNat, TokenRemoved
<1>4. /\ counts'["answers"] = counts["answers"] + 1
      /\ counts'["cancels"] = counts["cancels"]
  BY <1>1, CountedOne, CountersAre
<1>5. CancelsCounted'
  BY <1>3, <1>4, SizesAreNat DEF CancelsCounted
<1> QED
  BY <1>1, <1>5, BusyIs, CancelChanges

LEMMA CancelResponseStep ==
    ASSUME ActionClientIInv, NEW k \in Tokens, CancelResponseArrives(k)
    PROVE  ActionClientIInv'
<1> USE DEF ActionClientIInv
<1>1. /\ cancel[k] = "sent" /\ cancel' = [cancel EXCEPT ![k] = "ready"]
      /\ UNCHANGED <<next_token, response, feedback, result, goals_closed, calling,
                     requested, goal_handles, published, executing, counts, discarded>>
  BY DEF CancelResponseArrives, external
<1>2. cancel' \in [Tokens -> {"none", "sent", "ready", "taken"}]
  BY <1>1 DEF ActionClientTypeOK
<1>3. ActionClientTypeOK'
  BY <1>1, <1>2 DEF ActionClientTypeOK
<1>4. CancelsAwaited' = CancelsAwaited
  BY <1>1 DEF CancelsAwaited, ActionClientTypeOK
<1>5. KnownRecords' = KnownRecords /\ AcceptedRecords' = AcceptedRecords
  BY <1>1 DEF KnownRecords, AcceptedRecords, Known
<1>6. AnswersCounted' /\ RecordsCounted' /\ ResultsCounted' /\ CancelsCounted'
  BY <1>1, <1>4, <1>5 DEF AnswersCounted, RecordsCounted, ResultsCounted, CancelsCounted
<1>7. TokensAreUnused' /\ HandlesAreHeld' /\ QueuesHaveRecords'
  BY <1>1 DEF TokensAreUnused, HandlesAreHeld, QueuesHaveRecords, Known
<1>8. NewestKept' /\ FeedbackCounted'
  BY <1>1, QueuesAside
<1> QED
  BY <1>3, <1>6, <1>7, <1>8

\* close() stops the callbacks of every goal it knew to be accepted.
LEMMA ActionClientCloseStep ==
    ASSUME ActionClientIInv, ActionClientClose PROVE ActionClientIInv'
<1> USE DEF ActionClientIInv
<1>1. /\ calling = Idle /\ goals_closed' = TRUE /\ Erase(KnownRecords)
      /\ calling' = IF AcceptedRecords = {} THEN Idle
                    ELSE [op |-> "stop", goals |-> AcceptedRecords]
      /\ UNCHANGED <<next_token, result, requested, goal_handles, published, executing,
                     counts>>
  BY DEF ActionClientClose, external, KnownRecords, AcceptedRecords
<1>2. /\ calling.op = "idle" /\ calling'.op \in {"idle", "stop"}
      /\ calling'.goals = AcceptedRecords
      /\ AcceptedRecords # {} => calling'.op = "stop"
  BY <1>1, BusyIs
<1>3. KnownRecords \in SUBSET Tokens /\ AcceptedRecords \in SUBSET Tokens
  BY SizesAreNat
<1>4. calling' \in [op : {"idle", "send", "count", "unsend", "cancel", "stop"},
                    goals : SUBSET Tokens]
  BY <1>1, <1>3 DEF Idle
<1>5. AcceptedRecords' = AcceptedRecords \ KnownRecords
  BY <1>1, <1>3, ErasedRecords
<1>6. /\ ActionClientTypeOK' /\ TokensAreUnused' /\ CancelsCounted'
      /\ QueuesHaveRecords' /\ NewestKept' /\ FeedbackCounted'
  <2>1. goals_closed' \in BOOLEAN
    BY <1>1
  <2> QED
    BY <1>1, <1>2, <1>3, <1>4, <2>1, EraseKeeps DEF ActionClientTypeOK
<1>7. HandlesAreHeld'
  <2>1. ASSUME NEW k \in goal_handles
        PROVE  \/ executing.op \in {"accepted", "retain", "stop"} /\ k \in executing.goals
               \/ calling'.op = "stop" /\ k \in calling'.goals
    <3>1. response[k] = "accepted" => k \in AcceptedRecords
      BY DEF AcceptedRecords, ActionClientTypeOK
    <3> QED
      BY <1>2, <3>1 DEF HandlesAreHeld
  <2> QED
    BY <1>1, <2>1 DEF HandlesAreHeld
<1>8. AnswersCounted'
  BY <1>1, <1>2 DEF AnswersCounted, One
<1>9. RecordsCounted'
  BY <1>1 DEF RecordsCounted
<1>10. ResultsCounted'
  <2>1. /\ Cardinality(AcceptedRecords') <= Cardinality(AcceptedRecords)
        /\ Cardinality(AcceptedRecords') \in Nat
    BY <1>3, <1>5, TokensFewer
  <2> QED
    BY <1>1, <2>1, SizesAreNat DEF ResultsCounted
<1> QED
  BY <1>6, <1>7, <1>8, <1>9, <1>10

-----------------------------------------------------------------------------
(* Callbacks.                                                              *)

LEMMA GoalResponseStep ==
    ASSUME ActionClientIInv, NEW k \in Tokens, GoalResponseArrives(k)
    PROVE  ActionClientIInv'
<1> USE DEF ActionClientIInv
<1>1. /\ executing = Idle /\ k \in requested /\ requested' = requested \ {k}
      /\ \/ executing' = Busy("rejected", k) /\ UNCHANGED goal_handles
         \/ executing' = Busy("accepted", k) /\ goal_handles' = goal_handles \cup {k}
      /\ UNCHANGED <<next_token, response, cancel, feedback, result, goals_closed,
                     published, calling, counts, discarded>>
  BY DEF GoalResponseArrives, records
<1>2. /\ executing.op = "idle" /\ executing.goals = {} /\ executing'.goals = {k}
      /\ \/ executing'.op = "rejected" /\ UNCHANGED goal_handles
         \/ executing'.op = "accepted" /\ goal_handles' = goal_handles \cup {k}
  BY <1>1, BusyIs
<1>3. ActionClientTypeOK'
  BY <1>1 DEF ActionClientTypeOK, Busy
<1>4. TokensAreUnused'
  BY <1>1 DEF TokensAreUnused, Known
<1>5. HandlesAreHeld'
  BY <1>1, <1>2 DEF HandlesAreHeld
<1>6. KnownRecords' = KnownRecords /\ AcceptedRecords' = AcceptedRecords
      /\ CancelsAwaited' = CancelsAwaited
  BY <1>1 DEF KnownRecords, AcceptedRecords, CancelsAwaited, Known
<1>7. /\ Cardinality(requested) = Cardinality(requested') + 1
      /\ Cardinality(requested') \in Nat
  BY <1>1, SizesAreNat, TokenRemoved
<1>8. AnswersCounted'
  BY <1>1, <1>2, <1>7, SizesAreNat DEF AnswersCounted, One
<1>9. RecordsCounted' /\ ResultsCounted' /\ CancelsCounted'
  BY <1>1, <1>6 DEF RecordsCounted, ResultsCounted, CancelsCounted
<1>10. QueuesHaveRecords'
  BY <1>1 DEF QueuesHaveRecords, Known
<1>11. NewestKept' /\ FeedbackCounted'
  <2>1. \A j \in Tokens :
            executing' # Busy("feedback", j) /\ executing # Busy("feedback", j)
    BY <1>2, BusyIs
  <2> QED
    BY <1>1, <2>1, QueuesAside
<1> QED
  BY <1>3, <1>4, <1>5, <1>8, <1>9, <1>10, <1>11

LEMMA AsyncGetResultStep ==
    ASSUME ActionClientIInv, AsyncGetResult PROVE ActionClientIInv'
<1> USE DEF ActionClientIInv
<1>1. PICK k \in Tokens :
        /\ executing = Busy("accepted", k) /\ executing' = Busy("retain", k)
        /\ \/ result' = [result EXCEPT ![k] = "waiting"] /\ UNCHANGED counts
           \/ Count("exceptions") /\ UNCHANGED result
  BY DEF AsyncGetResult
<1>2. UNCHANGED <<next_token, response, cancel, feedback, goals_closed, requested,
                  goal_handles, published, calling, discarded>>
  BY DEF AsyncGetResult, records, external
<1>3. /\ executing.op = "accepted" /\ executing.goals = {k}
      /\ executing'.op = "retain" /\ executing'.goals = {k}
  BY <1>1, BusyIs
<1>4. /\ counts' \in [Counters -> Nat]
      /\ \A c \in Counters : c # "exceptions" => counts'[c] = counts[c]
  BY <1>1, CountedOne, CountersAre DEF ActionClientTypeOK
<1>5. result' \in [Tokens -> {"invalid", "waiting", "ready"}]
  BY <1>1 DEF ActionClientTypeOK
<1>6. ActionClientTypeOK'
  BY <1>1, <1>2, <1>4, <1>5 DEF ActionClientTypeOK, Busy
<1>7. TokensAreUnused' /\ HandlesAreHeld' /\ QueuesHaveRecords'
  BY <1>2, <1>3 DEF TokensAreUnused, HandlesAreHeld, QueuesHaveRecords, Known
<1>8. KnownRecords' = KnownRecords /\ AcceptedRecords' = AcceptedRecords
      /\ CancelsAwaited' = CancelsAwaited
  BY <1>2 DEF KnownRecords, AcceptedRecords, CancelsAwaited, Known
<1>9. /\ counts'["sent"] = counts["sent"] /\ counts'["accepted"] = counts["accepted"]
      /\ counts'["rejected"] = counts["rejected"]
      /\ counts'["results"] = counts["results"]
      /\ counts'["forgotten"] = counts["forgotten"]
      /\ counts'["cancels"] = counts["cancels"] /\ counts'["answers"] = counts["answers"]
  BY <1>4, CountersAre
<1>10. AnswersCounted' /\ RecordsCounted' /\ ResultsCounted' /\ CancelsCounted'
  BY <1>2, <1>3, <1>8, <1>9
     DEF AnswersCounted, RecordsCounted, ResultsCounted, CancelsCounted, One
<1>11. NewestKept' /\ FeedbackCounted'
  <2>1. \A j \in Tokens :
            executing' # Busy("feedback", j) /\ executing # Busy("feedback", j)
    BY <1>3, BusyIs
  <2>2. \A c \in Gaugings : counts'[c] = counts[c]
    BY <1>4, CountersAre DEF Gaugings
  <2> QED
    BY <1>2, <2>1, <2>2, QueuesAside
<1> QED
  BY <1>6, <1>7, <1>10, <1>11

\* The answer is stored, or the handle comes too late and is stopped.
LEMMA RetainGoalStep == ASSUME ActionClientIInv, RetainGoal PROVE ActionClientIInv'
<1> USE DEF ActionClientIInv
<1>1. PICK k \in Tokens :
        /\ executing \in {Busy("retain", k), Busy("rejected", k)}
        /\ LET answer == IF executing.op = "retain" THEN "accepted" ELSE "rejected"
               retain == ~goals_closed /\ Known(k)
           IN  /\ IF retain THEN /\ response' = [response EXCEPT ![k] = answer]
                                 /\ Count(answer)
                  ELSE UNCHANGED <<response, counts>>
               /\ executing' = IF answer = "accepted" /\ ~retain
                               THEN Busy("stop", k) ELSE Idle
  BY DEF RetainGoal
<1>2. PICK answer \in {"accepted", "rejected"} :
        answer = IF executing.op = "retain" THEN "accepted" ELSE "rejected"
  OBVIOUS
<1>3. UNCHANGED <<next_token, result, cancel, feedback, goals_closed, requested,
                  goal_handles, published, calling, discarded>>
  BY DEF RetainGoal, external
<1>4. /\ executing.goals = {k} /\ executing.op \in {"retain", "rejected"}
      /\ answer = "accepted" <=> executing.op = "retain"
  BY <1>1, <1>2, BusyIs
<1>5. \A j \in Tokens : executing # Busy("feedback", j)
  BY <1>4, BusyIs
<1>6. CASE ~goals_closed /\ Known(k)
  <2>1. /\ response' = [response EXCEPT ![k] = answer] /\ Count(answer) /\ executing' = Idle
    BY <1>1, <1>2, <1>6
  <2>2. executing'.op = "idle" /\ executing'.goals = {}
    BY <2>1, BusyIs
  <2>3. /\ response' \in [Tokens -> {"none", "pending", "accepted", "rejected"}]
        /\ response'[k] = answer
        /\ \A j \in Tokens : j # k => response'[j] = response[j]
    BY <2>1 DEF ActionClientTypeOK
  <2>4. /\ counts' \in [Counters -> Nat] /\ counts'[answer] = counts[answer] + 1
        /\ \A c \in Counters : c # answer => counts'[c] = counts[c]
    BY <2>1, CountedOne, CountersAre
  <2>5. ActionClientTypeOK'
    BY <1>3, <2>1, <2>3, <2>4 DEF ActionClientTypeOK, Idle
  <2>6. TokensAreUnused'
    <3>1. ~(k >= next_token)
      BY <1>6 DEF TokensAreUnused, Known
    <3>2. \A j \in Tokens : (response'[j] # "none") <=> response[j] # "none"
      BY <1>6, <2>3 DEF Known
    <3>3. calling.goals \in SUBSET Tokens
      BY DEF ActionClientTypeOK
    <3> QED
      BY <1>3, <3>2, <3>3 DEF TokensAreUnused, Known
  <2>7. HandlesAreHeld'
    <3>1. answer = "rejected" => k \notin goal_handles
      BY <1>4 DEF HandlesAreHeld
    <3>2. ASSUME NEW j \in goal_handles
          PROVE  response'[j] = "accepted" \/ (calling.op = "stop" /\ j \in calling.goals)
      <4>1. j \in Tokens
        BY DEF ActionClientTypeOK
      <4>2. CASE j = k
        <5>1. answer = "accepted"
          BY <1>2, <3>1, <3>2, <4>2
        <5> QED
          BY <2>3, <4>2, <5>1
      <4>3. CASE j # k
        <5>1. j \notin executing.goals
          BY <1>4, <4>3
        <5>2. response[j] = "accepted" \/ (calling.op = "stop" /\ j \in calling.goals)
          BY <3>2, <5>1 DEF HandlesAreHeld
        <5> QED
          BY <2>3, <4>1, <4>3, <5>2
      <4> QED
        BY <4>2, <4>3
    <3> QED
      BY <1>3, <2>2, <3>2 DEF HandlesAreHeld
  <2>8. KnownRecords' = KnownRecords /\ CancelsAwaited' = CancelsAwaited
    BY <1>3, <1>6, <2>3 DEF KnownRecords, CancelsAwaited, Known
  <2>9. /\ counts'["sent"] = counts["sent"]
        /\ counts'["accepted"] = counts["accepted"] + One(answer = "accepted")
        /\ counts'["rejected"] = counts["rejected"] + One(answer = "rejected")
        /\ counts'["results"] = counts["results"]
        /\ counts'["forgotten"] = counts["forgotten"]
        /\ counts'["cancels"] = counts["cancels"] /\ counts'["answers"] = counts["answers"]
    BY <2>4, CountersAre, SizesAreNat DEF One
  <2>10. One(answer = "accepted") + One(answer = "rejected") = 1
    BY DEF One
  <2>11. AnswersCounted'
    BY <1>3, <1>4, <2>2, <2>9, <2>10, SizesAreNat DEF AnswersCounted, One
  <2>12. RecordsCounted' /\ CancelsCounted'
    BY <1>3, <2>8, <2>9 DEF RecordsCounted, CancelsCounted
  <2>13. ResultsCounted'
    <3>1. CASE answer = "accepted"
      <4>1. AcceptedRecords' = AcceptedRecords \cup {k}
        BY <2>3, <3>1 DEF AcceptedRecords
      <4>2. /\ Cardinality(AcceptedRecords') <= Cardinality(AcceptedRecords) + 1
            /\ Cardinality(AcceptedRecords') \in Nat
        BY <4>1, SizesAreNat, TokenAdded
      <4> QED
        BY <2>9, <3>1, <4>2, SizesAreNat DEF ResultsCounted, One
    <3>2. CASE answer = "rejected"
      <4>1. AcceptedRecords' = AcceptedRecords \ {k}
        BY <2>3, <3>2 DEF AcceptedRecords
      <4>2. /\ Cardinality(AcceptedRecords') <= Cardinality(AcceptedRecords)
            /\ Cardinality(AcceptedRecords') \in Nat
        BY <4>1, SizesAreNat, TokenRemoved
      <4> QED
        BY <2>9, <3>2, <4>2, SizesAreNat DEF ResultsCounted, One
    <3> QED
      BY <3>1, <3>2
  <2>14. QueuesHaveRecords'
    BY <1>3, <1>6, <2>3 DEF QueuesHaveRecords, Known
  <2>15. NewestKept' /\ FeedbackCounted'
    <3>1. \A j \in Tokens : executing' # Busy("feedback", j)
      BY <2>2, BusyIs
    <3>2. \A c \in Gaugings : counts'[c] = counts[c]
      BY <2>4, CountersAre DEF Gaugings
    <3> QED
      BY <1>3, <1>5, <3>1, <3>2, QueuesAside
  <2> QED
    BY <2>5, <2>6, <2>7, <2>11, <2>12, <2>13, <2>14, <2>15
<1>7. CASE ~(~goals_closed /\ Known(k))
  <2>1. /\ UNCHANGED <<response, counts>>
        /\ executing' = IF answer = "accepted" THEN Busy("stop", k) ELSE Idle
    BY <1>1, <1>2, <1>7
  <2>2. /\ answer = "accepted" => executing'.op = "stop" /\ executing'.goals = {k}
        /\ answer = "rejected" => executing'.op = "idle" /\ executing'.goals = {}
    BY <2>1, BusyIs
  <2>3. executing'.op \in {"stop", "idle"}
    BY <2>2
  <2>4. ActionClientTypeOK'
    BY <1>3, <2>1 DEF ActionClientTypeOK, Busy, Idle
  <2>5. TokensAreUnused' /\ QueuesHaveRecords'
    BY <1>3, <2>1 DEF TokensAreUnused, QueuesHaveRecords, Known
  <2>6. HandlesAreHeld'
    <3>1. CASE answer = "accepted"
      BY <1>3, <1>4, <2>1, <2>2, <3>1 DEF HandlesAreHeld
    <3>2. CASE answer = "rejected"
      BY <1>3, <1>4, <2>1, <2>2, <3>2 DEF HandlesAreHeld
    <3> QED
      BY <3>1, <3>2
  <2>7. KnownRecords' = KnownRecords /\ AcceptedRecords' = AcceptedRecords
        /\ CancelsAwaited' = CancelsAwaited
    BY <1>3, <2>1 DEF KnownRecords, AcceptedRecords, CancelsAwaited, Known
  <2>8. AnswersCounted'
    BY <1>3, <1>4, <2>1, <2>3, SizesAreNat DEF AnswersCounted, One
  <2>9. RecordsCounted' /\ ResultsCounted' /\ CancelsCounted'
    BY <1>3, <2>1, <2>7 DEF RecordsCounted, ResultsCounted, CancelsCounted
  <2>10. NewestKept' /\ FeedbackCounted'
    <3>1. \A j \in Tokens : executing' # Busy("feedback", j)
      BY <2>3, BusyIs
    <3> QED
      BY <1>3, <1>5, <2>1, <3>1, QueuesAside
  <2> QED
    BY <2>4, <2>5, <2>6, <2>8, <2>9, <2>10
<1> QED
  BY <1>6, <1>7

\* Handles go, results come, a callback ends: the records stay as they are.
LEMMA HandleGoes ==
    ASSUME ActionClientIInv,
           UNCHANGED <<next_token, response, cancel, feedback, goals_closed, requested,
                       published, calling, counts, discarded>>,
           result' \in [Tokens -> {"invalid", "waiting", "ready"}],
           NEW gone \in SUBSET Tokens, goal_handles' = goal_handles \ gone,
           \/ UNCHANGED executing
           \/ executing' = Idle /\ executing.op = "stop" /\ gone = executing.goals
    PROVE  ActionClientIInv'
<1> USE DEF ActionClientIInv
<1>1. ActionClientTypeOK'
  BY DEF ActionClientTypeOK, Idle
<1>2. TokensAreUnused' /\ QueuesHaveRecords'
  BY DEF TokensAreUnused, QueuesHaveRecords, Known
<1>3. HandlesAreHeld'
  BY BusyIs DEF HandlesAreHeld
<1>4. KnownRecords' = KnownRecords /\ AcceptedRecords' = AcceptedRecords
      /\ CancelsAwaited' = CancelsAwaited
  BY DEF KnownRecords, AcceptedRecords, CancelsAwaited, Known
<1>5. AnswersCounted'
  BY BusyIs DEF AnswersCounted, One
<1>6. RecordsCounted' /\ ResultsCounted' /\ CancelsCounted'
  BY <1>4 DEF RecordsCounted, ResultsCounted, CancelsCounted
<1>7. NewestKept' /\ FeedbackCounted'
  <2>1. \A j \in Tokens : executing' = Busy("feedback", j) <=> executing = Busy("feedback", j)
    BY BusyIs
  <2> QED
    BY <2>1, QueuesAside
<1> QED
  BY <1>1, <1>2, <1>3, <1>5, <1>6, <1>7

LEMMA StopLateGoalStep == ASSUME ActionClientIInv, StopLateGoal PROVE ActionClientIInv'
BY HandleGoes DEF StopLateGoal, records, ActionClientIInv, ActionClientTypeOK

LEMMA ResultArrivesStep ==
    ASSUME ActionClientIInv, NEW k \in Tokens, ResultArrives(k) PROVE ActionClientIInv'
<1>1. result' \in [Tokens -> {"invalid", "waiting", "ready"}]
  BY DEF ResultArrives, ActionClientIInv, ActionClientTypeOK
<1>2. {k} \in SUBSET Tokens
  OBVIOUS
<1> QED
  BY <1>1, <1>2, HandleGoes DEF ResultArrives, records

LEMMA FeedbackArrivesStep ==
    ASSUME ActionClientIInv, NEW k \in Tokens, FeedbackArrives(k) PROVE ActionClientIInv'
<1> USE DEF ActionClientIInv
<1>1. /\ executing = Idle /\ executing' = Busy("feedback", k)
      /\ published' = [published EXCEPT ![k] = @ + 1]
      /\ UNCHANGED <<next_token, response, cancel, feedback, result, goals_closed,
                     requested, goal_handles, calling, counts, discarded>>
  BY DEF FeedbackArrives, records
<1>2. /\ executing.op = "idle" /\ executing.goals = {}
      /\ executing'.op = "feedback" /\ executing'.goals = {k}
  BY <1>1, BusyIs
<1>3. /\ published' \in [Tokens -> Nat] /\ published'[k] = published[k] + 1
      /\ published[k] \in Nat
      /\ \A j \in Tokens : j # k => published'[j] = published[j]
  BY <1>1 DEF ActionClientTypeOK
<1>4. ActionClientTypeOK'
  BY <1>1, <1>3 DEF ActionClientTypeOK, Busy
<1>5. TokensAreUnused' /\ QueuesHaveRecords'
  BY <1>1 DEF TokensAreUnused, QueuesHaveRecords, Known
<1>6. HandlesAreHeld'
  BY <1>1, <1>2 DEF HandlesAreHeld
<1>7. KnownRecords' = KnownRecords /\ AcceptedRecords' = AcceptedRecords
      /\ CancelsAwaited' = CancelsAwaited
  BY <1>1 DEF KnownRecords, AcceptedRecords, CancelsAwaited, Known
<1>8. AnswersCounted'
  BY <1>1, <1>2 DEF AnswersCounted, One
<1>9. RecordsCounted' /\ ResultsCounted' /\ CancelsCounted'
  BY <1>1, <1>7 DEF RecordsCounted, ResultsCounted, CancelsCounted
<1>10. \A j \in Tokens :
        /\ executing # Busy("feedback", j)
        /\ executing' = Busy("feedback", j) <=> j = k
  BY <1>1, <1>2, BusyIs
<1>11. NewestKept'
  <2> DEFINE came(j) == published[j] - IF executing = Busy("feedback", j) THEN 1 ELSE 0
  <2>1. ASSUME NEW j \in Tokens PROVE came(j)' = came(j)
    <3>1. came(j) = published[j] - 0
      BY <1>10
    <3>2. published[j] \in Nat
      BY DEF ActionClientTypeOK
    <3>3. CASE j = k
      <4>1. came(j)' = published'[j] - 1
        BY <1>10, <3>3
      <4> QED
        BY <1>3, <3>1, <3>3, <4>1
    <3>4. CASE j # k
      <4>1. came(j)' = published'[j] - 0
        BY <1>10, <3>4
      <4> QED
        BY <1>3, <3>1, <3>4, <4>1
    <3> QED
      BY <3>3, <3>4
  <2>2. \A j \in Tokens :
          /\ Len(feedback[j]) <= FeedbackCapacity
          /\ \A i \in DOMAIN feedback[j] : feedback[j][i] = came(j) - Len(feedback[j]) + i
    BY DEF NewestKept
  <2> HIDE DEF came
  <2>3. \A j \in Tokens :
          /\ Len(feedback'[j]) <= FeedbackCapacity
          /\ \A i \in DOMAIN feedback'[j] :
                feedback'[j][i] = came(j)' - Len(feedback'[j]) + i
    BY <1>1, <2>1, <2>2
  <2> QED
    BY <2>3 DEF NewestKept, came
<1>12. FeedbackCounted'
  <2>1. Queued(Tokens)' = Queued(Tokens)
    BY <1>1 DEF Queued
  <2> QED
    BY <1>1, <2>1 DEF FeedbackCounted
<1> QED
  BY <1>4, <1>5, <1>6, <1>8, <1>9, <1>11, <1>12

\* A bounded queue without a hole stays one.
LEMMA Pushed ==
    ASSUME NEW q \in Seq(Nat), Len(q) <= FeedbackCapacity, NEW m \in Nat,
           \A i \in 1 .. Len(q) : q[i] = (m - 1) - Len(q) + i
    PROVE  /\ Push(q, m) \in Seq(Nat) /\ Len(Push(q, m)) <= FeedbackCapacity
           /\ Len(q) = FeedbackCapacity => Len(Push(q, m)) = Len(q)
           /\ Len(q) # FeedbackCapacity => Len(Push(q, m)) = Len(q) + 1
           /\ \A i \in 1 .. Len(Push(q, m)) : Push(q, m)[i] = m - Len(Push(q, m)) + i
<1>1. Len(q) \in Nat /\ FeedbackCapacity \in Nat \ {0}
  BY CapacityAssumption
<1>2. CASE Len(q) = FeedbackCapacity
  <2>1. q # <<>>
    BY <1>1, <1>2
  <2>2. PICK p \in Seq(Nat) :
          p = Tail(q) /\ Len(p) = Len(q) - 1 /\ \A i \in 1 .. Len(p) : p[i] = q[i + 1]
    <3>1. /\ Tail(q) \in Seq(Nat) /\ Len(Tail(q)) = Len(q) - 1
          /\ \A i \in 1 .. Len(Tail(q)) : Tail(q)[i] = q[i + 1]
      BY <2>1, HeadTailProperties
    <3> QED
      BY <3>1
  <2>3. Push(q, m) = Append(p, m)
    BY <1>2, <2>2 DEF Push
  <2>4. PICK r \in Seq(Nat) :
          /\ r = Append(p, m) /\ Len(r) = Len(p) + 1 /\ r[Len(p) + 1] = m
          /\ \A i \in 1 .. Len(p) : r[i] = p[i]
    <3>1. /\ Append(p, m) \in Seq(Nat) /\ Len(Append(p, m)) = Len(p) + 1
          /\ Append(p, m)[Len(p) + 1] = m
          /\ \A i \in 1 .. Len(p) : Append(p, m)[i] = p[i]
      BY AppendProperties
    <3> QED
      BY <3>1
  <2>5. ASSUME NEW i \in 1 .. Len(r) PROVE r[i] = m - Len(r) + i
    <3>1. CASE i = Len(p) + 1
      BY <1>1, <2>2, <2>4, <3>1
    <3>2. CASE i # Len(p) + 1
      <4>0. Len(p) \in Nat /\ Len(r) = Len(p) + 1
        BY <2>4
      <4>1. i \in 1 .. Len(p) /\ i + 1 \in 1 .. Len(q) /\ i \in Nat
        <5>1. PICK a \in Nat : a = Len(p)
          BY <4>0
        <5>2. PICK b \in Nat : b = Len(q)
          BY <1>1
        <5>3. a = b - 1 /\ Len(r) = a + 1
          BY <2>2, <4>0, <5>1, <5>2
        <5>4. i \in 1 .. a + 1 /\ i # a + 1
          BY <3>2, <5>1, <5>3
        <5>5. i \in 1 .. a /\ i + 1 \in 1 .. b /\ i \in Nat
          BY <5>3, <5>4
        <5> QED
          BY <5>1, <5>2, <5>5
      <4>2. r[i] = (m - 1) - Len(q) + (i + 1)
        BY <2>2, <2>4, <4>1
      <4> QED
        BY <1>1, <2>2, <2>4, <4>1, <4>2
    <3> QED
      BY <3>1, <3>2
  <2> QED
    BY <1>1, <1>2, <2>2, <2>3, <2>4, <2>5
<1>3. CASE Len(q) # FeedbackCapacity
  <2>1. Push(q, m) = Append(q, m)
    BY <1>3 DEF Push
  <2>2. PICK r \in Seq(Nat) :
          /\ r = Append(q, m) /\ Len(r) = Len(q) + 1 /\ r[Len(q) + 1] = m
          /\ \A i \in 1 .. Len(q) : r[i] = q[i]
    <3>1. /\ Append(q, m) \in Seq(Nat) /\ Len(Append(q, m)) = Len(q) + 1
          /\ Append(q, m)[Len(q) + 1] = m
          /\ \A i \in 1 .. Len(q) : Append(q, m)[i] = q[i]
      BY AppendProperties
    <3> QED
      BY <3>1
  <2>3. ASSUME NEW i \in 1 .. Len(r) PROVE r[i] = m - Len(r) + i
    <3>1. CASE i = Len(q) + 1
      BY <1>1, <2>2, <3>1
    <3>2. CASE i # Len(q) + 1
      <4>1. i \in 1 .. Len(q) /\ i \in Nat
        BY <1>1, <2>2, <3>2
      <4>2. r[i] = (m - 1) - Len(q) + i
        BY <2>2, <4>1
      <4> QED
        BY <1>1, <2>2, <4>1, <4>2
    <3> QED
      BY <3>1, <3>2
  <2>4. Len(q) + 1 <= FeedbackCapacity
    BY <1>1, <1>3
  <2> QED
    BY <1>3, <2>1, <2>2, <2>3, <2>4
<1> QED
  BY <1>2, <1>3

\* The callback ends; what it does to a queue is all it does.
LEMMA FeedbackOver ==
    ASSUME ActionClientIInv, ActionClientTypeOK', NEW k \in Tokens,
           executing = Busy("feedback", k), executing' = Idle,
           UNCHANGED <<next_token, response, cancel, result, goals_closed, requested,
                       goal_handles, published, calling, discarded>>,
           \A c \in Counters : c \notin {"received", "dropped"} => counts'[c] = counts[c]
    PROVE  /\ TokensAreUnused' /\ HandlesAreHeld' /\ AnswersCounted' /\ RecordsCounted'
           /\ ResultsCounted' /\ CancelsCounted'
<1> USE DEF ActionClientIInv
<1>1. executing.op = "feedback" /\ executing'.op = "idle"
  BY BusyIs
<1>2. TokensAreUnused' /\ HandlesAreHeld'
  BY <1>1 DEF TokensAreUnused, HandlesAreHeld, Known
<1>3. KnownRecords' = KnownRecords /\ AcceptedRecords' = AcceptedRecords
      /\ CancelsAwaited' = CancelsAwaited
  BY DEF KnownRecords, AcceptedRecords, CancelsAwaited, Known
<1>4. /\ counts'["sent"] = counts["sent"] /\ counts'["accepted"] = counts["accepted"]
      /\ counts'["rejected"] = counts["rejected"]
      /\ counts'["results"] = counts["results"]
      /\ counts'["forgotten"] = counts["forgotten"]
      /\ counts'["cancels"] = counts["cancels"] /\ counts'["answers"] = counts["answers"]
  BY CountersAre
<1>5. AnswersCounted'
  BY <1>1, <1>4 DEF AnswersCounted, One
<1> QED
  BY <1>2, <1>3, <1>4, <1>5 DEF RecordsCounted, ResultsCounted, CancelsCounted

LEMMA FeedbackCallbackStep ==
    ASSUME ActionClientIInv, FeedbackCallback PROVE ActionClientIInv'
<1> USE DEF ActionClientIInv
<1>1. PICK k \in Tokens :
        /\ executing = Busy("feedback", k) /\ executing' = Idle
        /\ IF goals_closed \/ ~Known(k) THEN UNCHANGED <<feedback, counts>>
           ELSE /\ feedback' = [feedback EXCEPT ![k] = Push(@, published[k])]
                /\ counts' = [counts EXCEPT !.received = @ + 1,
                      !.dropped = @ + IF Len(feedback[k]) = FeedbackCapacity
                                      THEN 1 ELSE 0]
  BY DEF FeedbackCallback
<1>2. UNCHANGED <<next_token, response, cancel, result, goals_closed, requested,
                  goal_handles, published, calling, discarded>>
  BY DEF FeedbackCallback, external
<1>3. \A j \in Tokens :
        /\ executing = Busy("feedback", j) <=> j = k
        /\ executing' # Busy("feedback", j)
  BY <1>1, BusyIs
<1>4. executing' \in [op : {"idle", "accepted", "rejected", "retain", "stop", "feedback"},
                      goals : SUBSET Tokens]
  BY <1>1 DEF Idle
<1> DEFINE came(j) == published[j] - IF executing = Busy("feedback", j) THEN 1 ELSE 0
<1>5. \A j \in Tokens :
        /\ Len(feedback[j]) <= FeedbackCapacity
        /\ \A i \in DOMAIN feedback[j] : feedback[j][i] = came(j) - Len(feedback[j]) + i
  BY DEF NewestKept
<1>6. /\ came(k) = published[k] - 1
      /\ \A j \in Tokens : j # k => came(j) = published[j]
      /\ \A j \in Tokens : came(j)' = published[j]
  <2>1. came(k) = published[k] - 1
    BY <1>3
  <2>2. \A j \in Tokens : published[j] \in Nat
    BY DEF ActionClientTypeOK
  <2>3. ASSUME NEW j \in Tokens, j # k PROVE came(j) = published[j]
    <3>1. came(j) = published[j] - 0
      BY <1>3, <2>3
    <3> QED
      BY <2>2, <3>1
  <2>4. ASSUME NEW j \in Tokens PROVE came(j)' = published[j]
    <3>1. came(j)' = published[j] - 0
      BY <1>2, <1>3
    <3> QED
      BY <2>2, <3>1
  <2> QED
    BY <2>1, <2>3, <2>4
<1> HIDE DEF came
<1>7. CASE goals_closed \/ ~Known(k)
  <2>1. UNCHANGED <<feedback, counts>> /\ feedback[k] = <<>>
    BY <1>1, <1>7 DEF QueuesHaveRecords
  <2>2. ActionClientTypeOK'
    BY <1>2, <1>4, <2>1 DEF ActionClientTypeOK
  <2>3. QueuesHaveRecords'
    BY <1>2, <2>1 DEF QueuesHaveRecords, Known
  <2>4. NewestKept'
    <3>1. DOMAIN feedback[k] = {}
      BY <2>1
    <3>2. \A j \in Tokens :
            /\ Len(feedback'[j]) <= FeedbackCapacity
            /\ \A i \in DOMAIN feedback'[j] :
                    feedback'[j][i] = came(j)' - Len(feedback'[j]) + i
      BY <1>5, <1>6, <2>1, <3>1
    <3> QED
      BY <3>2 DEF NewestKept, came
  <2>5. FeedbackCounted'
    <3>1. Queued(Tokens)' = Queued(Tokens)
      BY <2>1 DEF Queued
    <3> QED
      BY <1>2, <2>1, <3>1 DEF FeedbackCounted
  <2> QED
    BY <1>1, <1>2, <2>1, <2>2, <2>3, <2>4, <2>5, FeedbackOver
<1>8. CASE ~goals_closed /\ Known(k)
  <2>1. PICK q \in Seq(Nat), m \in Nat : q = feedback[k] /\ m = published[k]
    BY DEF ActionClientTypeOK
  <2>2. /\ Len(q) <= FeedbackCapacity /\ Len(q) \in Nat
        /\ \A i \in 1 .. Len(q) : q[i] = (m - 1) - Len(q) + i
    BY <1>5, <1>6, <2>1, LenProperties
  <2>3. PICK r : r = Push(q, m)
    OBVIOUS
  <2>4. /\ r \in Seq(Nat) /\ Len(r) <= FeedbackCapacity
        /\ Len(q) = FeedbackCapacity => Len(r) = Len(q)
        /\ Len(q) # FeedbackCapacity => Len(r) = Len(q) + 1
        /\ \A i \in 1 .. Len(r) : r[i] = m - Len(r) + i
    BY <2>2, <2>3, Pushed
  <2>5. PICK full \in {0, 1} : full = IF Len(q) = FeedbackCapacity THEN 1 ELSE 0
    OBVIOUS
  <2>6. /\ feedback' = [feedback EXCEPT ![k] = r]
        /\ counts' = [counts EXCEPT !.received = @ + 1, !.dropped = @ + full]
    BY <1>1, <1>8, <2>1, <2>3, <2>5
  <2>7. /\ feedback' \in [Tokens -> Seq(Nat)] /\ feedback'[k] = r
        /\ \A j \in Tokens : j # k => feedback'[j] = feedback[j]
    BY <2>4, <2>6 DEF ActionClientTypeOK
  <2>8. /\ counts' \in [Counters -> Nat]
        /\ counts'["received"] = counts["received"] + 1
        /\ counts'["dropped"] = counts["dropped"] + full
        /\ \A c \in Counters : c \notin {"received", "dropped"} => counts'[c] = counts[c]
    <3>1. PICK p : p = [counts EXCEPT !["received"] = @ + 1]
      OBVIOUS
    <3>2. /\ p \in [Counters -> Nat] /\ p["received"] = counts["received"] + 1
          /\ \A c \in Counters : c # "received" => p[c] = counts[c]
      BY <3>1, CountersAre DEF ActionClientTypeOK
    <3>3. counts' = [p EXCEPT !["dropped"] = @ + full]
      BY <2>6, <3>1
    <3>4. counts' \in [Counters -> Nat] /\ counts'["dropped"] = p["dropped"] + full
      BY <2>5, <3>2, <3>3, CountersAre
    <3>5. \A c \in Counters : c # "dropped" => counts'[c] = p[c]
      BY <3>2, <3>3
    <3>6. p["dropped"] = counts["dropped"] /\ counts'["received"] = p["received"]
      BY <3>2, <3>5, CountersAre
    <3> QED
      BY <3>2, <3>4, <3>5, <3>6
  <2>9. ActionClientTypeOK'
    BY <1>2, <1>4, <2>7, <2>8 DEF ActionClientTypeOK
  <2>10. QueuesHaveRecords'
    BY <1>2, <1>8, <2>7 DEF QueuesHaveRecords, Known
  <2>11. NewestKept'
    <3>1. ASSUME NEW j \in Tokens
          PROVE  /\ Len(feedback'[j]) <= FeedbackCapacity
                 /\ \A i \in DOMAIN feedback'[j] :
                        feedback'[j][i] = came(j)' - Len(feedback'[j]) + i
      <4>1. CASE j = k
        <5>1. DOMAIN r = 1 .. Len(r)
          BY <2>4, LenProperties
        <5> QED
          BY <1>6, <2>1, <2>4, <2>7, <4>1, <5>1
      <4>2. CASE j # k
        BY <1>5, <1>6, <2>7, <4>2
      <4> QED
        BY <4>1, <4>2
    <3> QED
      BY <3>1 DEF NewestKept, came
  <2>12. FeedbackCounted'
    <3>1. PICK lengths \in [Tokens -> Nat] :
            /\ \A j \in Tokens : lengths[j] = Len(feedback[j])
            /\ \A S \in SUBSET Tokens : Queued(S) = Columns(lengths, S)
      BY QueuedIsSum
    <3>2. PICK left \in [Tokens -> Nat] :
            /\ \A j \in Tokens : left[j] = Len(feedback'[j])
            /\ \A S \in SUBSET Tokens : Queued(S)' = Columns(left, S)
      BY <2>9, QueuedNextIsSum
    <3>3. \A j \in Tokens \ {k} : left[j] = lengths[j]
      BY <2>7, <3>1, <3>2
    <3>4. lengths[k] = Len(q) /\ left[k] = Len(r) /\ Len(r) + full = Len(q) + 1
          /\ Len(r) \in Nat
      <4>1. lengths[k] = Len(q) /\ left[k] = Len(r)
        BY <2>1, <2>7, <3>1, <3>2
      <4> QED
        BY <2>2, <2>4, <2>5, <4>1
    <3>5. Columns(left, Tokens \ {k}) = Columns(lengths, Tokens \ {k})
      BY <3>3, ColumnsSame
    <3>6. PICK a \in Nat : /\ a = Cardinality(Columns(lengths, Tokens \ {k}))
                           /\ Cardinality(Columns(lengths, Tokens)) = lengths[k] + a
      BY TokenColumn
    <3>7. Cardinality(Columns(left, Tokens)) = left[k] + Cardinality(Columns(left, Tokens \ {k}))
      BY TokenColumn
    <3>8. Cardinality(Queued(Tokens)) = Len(q) + a /\ Cardinality(Queued(Tokens)') = Len(r) + a
      <4>1. Tokens \in SUBSET Tokens
        OBVIOUS
      <4>2. Queued(Tokens) = Columns(lengths, Tokens) /\ Queued(Tokens)' = Columns(left, Tokens)
        BY <3>1, <3>2, <4>1
      <4> QED
        BY <3>4, <3>5, <3>6, <3>7, <4>2
    <3>9. PICK t \in Nat, d \in Nat : t = counts["taken"] /\ d = counts["dropped"]
      BY SizesAreNat
    <3>10. counts'["taken"] = t
      BY <2>8, <3>9, CountersAre
    <3>11. counts["received"] = t + d + (Len(q) + a) + discarded /\ discarded \in Nat
      BY <3>8, <3>9 DEF FeedbackCounted, ActionClientTypeOK
    <3>12. counts'["received"] = t + (d + full) + (Len(r) + a) + discarded
      <4>1. PICK x \in Nat, y \in Nat, z \in Nat : x = Len(q) /\ y = Len(r) /\ z = discarded
        BY <2>2, <3>4, <3>11
      <4>2. counts'["received"] = (t + d + (x + a) + z) + 1 /\ y + full = x + 1
        BY <2>8, <3>4, <3>11, <4>1
      <4>3. (t + d + (x + a) + z) + 1 = t + (d + full) + (y + a) + z
        <5>1. /\ t \in Nat /\ d \in Nat /\ a \in Nat /\ full \in Nat
              /\ x \in Nat /\ y \in Nat /\ z \in Nat /\ y + full = x + 1
          BY <4>2
        <5> QED
          BY ONLY <5>1
      <4> QED
        BY <4>1, <4>2, <4>3
    <3> QED
      BY <1>2, <2>8, <3>8, <3>9, <3>10, <3>12 DEF FeedbackCounted
  <2> QED
    BY <1>1, <1>2, <2>8, <2>9, <2>10, <2>11, <2>12, FeedbackOver
<1> QED
  BY <1>7, <1>8

-----------------------------------------------------------------------------
LEMMA StepActionClientIInv ==
    ActionClientIInv /\ [ActionClientNext]_actionClientVars => ActionClientIInv'
<1> SUFFICES ASSUME ActionClientIInv, [ActionClientNext]_actionClientVars
             PROVE  ActionClientIInv'
  OBVIOUS
<1>1. CASE SendGoal \/ ActionClientClose
  BY <1>1, SendGoalStep, ActionClientCloseStep
<1>2. CASE CallingStep
  BY <1>2, AsyncSendGoalStep, SendReturnsStep, AsyncCancelGoalStep, StopCallbacksStep
     DEF CallingStep
<1>3. CASE ExecutingStep
  BY <1>3, AsyncGetResultStep, RetainGoalStep, StopLateGoalStep, FeedbackCallbackStep
     DEF ExecutingStep
<1>4. ASSUME NEW k \in Tokens,
             TakeFeedback(k) \/ TakeResult(k) \/ RequestCancel(k) \/ TakeCancelResponse(k)
                \/ Forget(k)
      PROVE  ActionClientIInv'
  BY <1>4, TakeFeedbackStep, TakeResultStep, RequestCancelStep, TakeCancelResponseStep,
     ForgetStep
<1>5. ASSUME NEW k \in Tokens,
             GoalResponseArrives(k) \/ FeedbackArrives(k) \/ ResultArrives(k)
                \/ CancelResponseArrives(k)
      PROVE  ActionClientIInv'
  BY <1>5, GoalResponseStep, FeedbackArrivesStep, ResultArrivesStep, CancelResponseStep
<1>6. CASE UNCHANGED actionClientVars
  <2>1. UNCHANGED <<next_token, response, cancel, feedback, result, goals_closed,
                    requested, goal_handles, published, executing, calling, counts,
                    discarded>>
    BY <1>6 DEF actionClientVars, records, external
  <2>2. ActionClientTypeOK'
    BY <2>1 DEF ActionClientIInv, ActionClientTypeOK
  <2>3. TokensAreUnused' /\ HandlesAreHeld' /\ QueuesHaveRecords'
    BY <2>1 DEF ActionClientIInv, TokensAreUnused, HandlesAreHeld, QueuesHaveRecords, Known
  <2>4. AcceptedRecords' = AcceptedRecords /\ KnownRecords' = KnownRecords
        /\ CancelsAwaited' = CancelsAwaited
    BY <2>1 DEF AcceptedRecords, KnownRecords, CancelsAwaited, Known
  <2>5. AnswersCounted' /\ RecordsCounted' /\ ResultsCounted' /\ CancelsCounted'
    BY <2>1, <2>4 DEF ActionClientIInv, AnswersCounted, RecordsCounted, ResultsCounted,
                      CancelsCounted
  <2>6. NewestKept' /\ FeedbackCounted'
    BY <2>1, QueuesAside
  <2> QED
    BY <2>2, <2>3, <2>5, <2>6 DEF ActionClientIInv
<1> QED
  BY <1>1, <1>2, <1>3, <1>4, <1>5, <1>6 DEF ActionClientNext

LEMMA InductiveActionClientIInv == ActionClientSpec => []ActionClientIInv
BY InitActionClientIInv, StepActionClientIInv, PTL DEF ActionClientSpec

\* Whatever the server answers and whenever Python calls, closes or fails,
\* every variable of the adapter keeps its type.
THEOREM ActionClientTypeCorrect == ActionClientSpec => []ActionClientTypeOK
<1>1. ActionClientIInv => ActionClientTypeOK
  BY DEF ActionClientIInv
<1> QED
  BY <1>1, InductiveActionClientIInv, PTL

\* The bounded queue of a goal is always the newest feedback of that goal
\* without a hole, and feedback is lost only by eviction or with its record.
THEOREM FeedbackIsNewestHolds == ActionClientSpec => []FeedbackIsNewest
<1>1. ActionClientIInv => FeedbackIsNewest
  <2> SUFFICES ASSUME ActionClientIInv PROVE FeedbackIsNewest
    OBVIOUS
  <2>1. NewestKept /\ FeedbackCounted
    BY DEF ActionClientIInv
  <2> QED
    BY <2>1 DEF FeedbackIsNewest, FeedbackCounted
<1> QED
  BY <1>1, InductiveActionClientIInv, PTL

\* The counters of the adapter always tell where each goal went, and no goal
\* stays in rclcpp_action's map once forget or close let go of it.
THEOREM GoalsAccountedForHolds == ActionClientSpec => []GoalsAccountedFor
<1>1. ActionClientIInv => GoalsAccountedFor
  <2> SUFFICES ASSUME ActionClientIInv PROVE GoalsAccountedFor
    OBVIOUS
  <2>1. ActionClientTypeOK /\ AnswersCounted /\ RecordsCounted /\ ResultsCounted
        /\ CancelsCounted /\ HandlesAreHeld
    BY DEF ActionClientIInv
  <2>2. /\ counts["sent"] \in Nat /\ counts["accepted"] \in Nat
        /\ counts["rejected"] \in Nat /\ counts["results"] \in Nat
        /\ counts["forgotten"] \in Nat /\ counts["answers"] \in Nat
        /\ counts["cancels"] \in Nat
    BY <2>1, CountersAre DEF ActionClientTypeOK
  <2>3. /\ Cardinality(requested) \in Nat /\ Cardinality(AcceptedRecords) \in Nat
        /\ Cardinality(CancelsAwaited) \in Nat /\ Cardinality(KnownRecords) \in Nat
    BY <2>1, TokensFinite
       DEF ActionClientTypeOK, AcceptedRecords, CancelsAwaited, KnownRecords
  <2>4. ASSUME calling.op \notin {"send", "count"}
        PROVE  counts["accepted"] + counts["rejected"] + Cardinality(requested)
                <= counts["sent"]
    <3>1. One(calling.op = "count") = 0
      BY <2>4 DEF One
    <3>2. One(executing.op \in {"accepted", "retain", "rejected"}) \in Nat
      BY DEF One
    <3>3. counts["accepted"] + counts["rejected"] + Cardinality(requested)
            + One(executing.op \in {"accepted", "retain", "rejected"})
                <= counts["sent"] + 0
      BY <2>1, <3>1 DEF AnswersCounted
    <3> QED
      BY <2>2, <2>3, <3>2, <3>3
  <2>5. ASSUME calling.op \notin {"send", "count", "unsend"}, ~goals_closed
        PROVE  Cardinality(KnownRecords) + counts["results"] + counts["forgotten"]
                = counts["sent"]
    <3>1. One(calling.op \in {"send", "count", "unsend"}) = 0
      BY <2>5 DEF One
    <3>2. Cardinality(KnownRecords) + counts["results"] + counts["forgotten"]
            = counts["sent"] + 0
      BY <2>1, <2>5, <3>1 DEF RecordsCounted
    <3> QED
      BY <2>2, <3>2
  <2>6. counts["answers"] <= counts["cancels"] /\ counts["results"] <= counts["accepted"]
    BY <2>1, <2>2, <2>3 DEF ResultsCounted, CancelsCounted
  <2>7. \A k \in goal_handles :
            \/ response[k] = "accepted"
            \/ k \in executing.goals
            \/ calling.op = "stop" /\ k \in calling.goals
    BY <2>1 DEF HandlesAreHeld
  <2> QED
    BY <2>4, <2>5, <2>6, <2>7 DEF GoalsAccountedFor, KnownRecords
<1> QED
  BY <1>1, InductiveActionClientIInv, PTL

-----------------------------------------------------------------------------
\* What a goal amounts to, where the numbers are known to be numbers.
LEMMA GoalStateIs ==
    ASSUME ActionClientIInv
    PROVE  /\ next_token \in Nat /\ DOMAIN GoalState = Tokens
           /\ \A k \in Tokens :
                /\ k \in Nat
                /\ Known(k) => ~(k >= next_token) /\ GoalState[k] = "pending"
                /\ k >= next_token => GoalState[k] = "unknown"
<1>1. next_token \in Nat /\ \A k \in Tokens : k \in Nat
  BY ActionClientBounds DEF ActionClientIInv, ActionClientTypeOK, Tokens
<1>2. \A k \in Tokens : k >= next_token => ~Known(k)
  BY DEF ActionClientIInv, TokensAreUnused, Known
<1> QED
  BY <1>1, <1>2 DEF GoalState

\* The next state of the ledger, goal by goal.
LEMMA GoalStateBecomes ==
    ASSUME NEW F, F = [k \in Tokens |-> F[k]],
           \A k \in Tokens :
                /\ k >= next_token' => F[k] = "unknown"
                /\ ~(k >= next_token') /\ response'[k] = "none" => F[k] = "settled"
                /\ ~(k >= next_token') /\ response'[k] # "none" => F[k] = "pending"
    PROVE  GoalState' = F
<1>1. \A k \in Tokens :
        (IF k >= next_token' THEN "unknown"
         ELSE IF response'[k] # "none" THEN "pending" ELSE "settled") = F[k]
  OBVIOUS
<1>2. GoalState' = [k \in Tokens |-> F[k]]
  BY <1>1 DEF GoalState, Known
<1> QED
  BY <1>2

\* A step that leaves what a goal amounts to alone.
LEMMA GoalsStay ==
    ASSUME next_token' = next_token,
           \A k \in Tokens : response'[k] = "none" <=> response[k] = "none"
    PROVE  GoalState' = GoalState
BY DEF GoalState, Known

\* Goals that have a record lose it: they are settled together.
LEMMA GoalsEnd ==
    ASSUME ActionClientIInv, NEW goals \in SUBSET Tokens, Erase(goals),
           next_token' = next_token, \A k \in goals : Known(k)
    PROVE  [GoalLedger!Next]_GoalState
<1>1. \A k \in Tokens : response'[k] = IF k \in goals THEN "none" ELSE response[k]
  BY DEF Erase
<1>2. \A k \in goals : ~(k >= next_token) /\ GoalState[k] = "pending"
  BY GoalStateIs
<1>3. GoalState' = [k \in Tokens |-> IF k \in goals THEN "settled" ELSE GoalState[k]]
  <2> DEFINE F == [k \in Tokens |-> IF k \in goals THEN "settled" ELSE GoalState[k]]
  <2>1. /\ F = [k \in Tokens |-> F[k]]
        /\ \A k \in Tokens : F[k] = IF k \in goals THEN "settled" ELSE GoalState[k]
    OBVIOUS
  <2>2. \A k \in Tokens :
            GoalState[k] = IF k >= next_token THEN "unknown"
                           ELSE IF response[k] # "none" THEN "pending" ELSE "settled"
    BY DEF GoalState, Known
  <2> HIDE DEF F
  <2>3. GoalState' = F
    BY <1>1, <1>2, <2>1, <2>2, GoalStateBecomes
  <2> QED
    BY <2>3 DEF F
<1>4. CASE goals = {}
  <2>1. GoalState' = GoalState
    BY <1>3, <1>4 DEF GoalState
  <2> QED
    BY <2>1
<1>5. CASE goals # {}
  <2>1. GoalLedger!SettleAll(goals)
    BY <1>2, <1>3, <1>5 DEF GoalLedger!SettleAll, GoalLedger!Pending, GoalLedger!Settled
  <2> QED
    BY <2>1 DEF GoalLedger!Next
<1> QED
  BY <1>4, <1>5

LEMMA SendGoalMaps == ASSUME ActionClientIInv, SendGoal PROVE [GoalLedger!Next]_GoalState
<1>1. next_token \in Tokens /\ next_token' = next_token + 1
  BY DEF SendGoal
<1>2. /\ response'[next_token] = "pending"
      /\ \A k \in Tokens : k # next_token => response'[k] = response[k]
  BY <1>1 DEF SendGoal, ActionClientIInv, ActionClientTypeOK
<1>3. next_token \in Nat /\ \A k \in Tokens : k \in Nat
  BY GoalStateIs
<1>4. /\ next_token >= next_token /\ ~(next_token >= next_token')
      /\ \A k \in Tokens : k # next_token => (k >= next_token' <=> k >= next_token)
  BY <1>1, <1>3
<1>5. GoalState[next_token] = "unknown"
  BY <1>1, <1>4, GoalStateIs
<1>6. GoalState' = [GoalState EXCEPT ![next_token] = "pending"]
  <2> DEFINE F == [GoalState EXCEPT ![next_token] = "pending"]
  <2>1. /\ F = [k \in Tokens |-> F[k]] /\ F[next_token] = "pending"
        /\ \A k \in Tokens : k # next_token => F[k] = GoalState[k]
    BY <1>1, GoalStateIs
  <2>2. \A k \in Tokens :
            GoalState[k] = IF k >= next_token THEN "unknown"
                           ELSE IF response[k] # "none" THEN "pending" ELSE "settled"
    BY DEF GoalState, Known
  <2> HIDE DEF F
  <2>3. GoalState' = F
    BY <1>2, <1>4, <2>1, <2>2, GoalStateBecomes
  <2> QED
    BY <2>3 DEF F
<1>7. GoalLedger!Admit(next_token)
  BY <1>5, <1>6 DEF GoalLedger!Admit, GoalLedger!Unknown, GoalLedger!Pending
<1> QED
  BY <1>1, <1>7 DEF GoalLedger!Next

\* Python's calls that retire records: a send that failed, a result, a forget
\* and a close.
LEMMA RetireMaps ==
    ASSUME ActionClientIInv,
           SendReturns \/ ActionClientClose \/ \E k \in Tokens : TakeResult(k) \/ Forget(k)
    PROVE  [GoalLedger!Next]_GoalState
<1>1. next_token' = next_token
  BY DEF SendReturns, ActionClientClose, TakeResult, Forget
<1>2. CASE SendReturns
  <2>1. PICK k \in Tokens : \/ UNCHANGED records
                            \/ calling = Busy("unsend", k) /\ Erase({k})
    BY <1>2 DEF SendReturns
  <2>2. CASE UNCHANGED records
    <3>1. response' = response
      BY <2>2 DEF records
    <3> QED
      BY <1>1, <3>1, GoalsStay
  <2>3. CASE calling = Busy("unsend", k) /\ Erase({k})
    <3>1. calling.op = "unsend" /\ calling.goals = {k}
      BY <2>3, BusyIs
    <3>2. Known(k)
      BY <3>1 DEF ActionClientIInv, TokensAreUnused
    <3> QED
      BY <1>1, <2>3, <3>2, GoalsEnd
  <2> QED
    BY <2>1, <2>2, <2>3
<1>3. CASE ActionClientClose
  <2>1. Erase({k \in Tokens : Known(k)})
    BY <1>3 DEF ActionClientClose
  <2> QED
    BY <1>1, <2>1, GoalsEnd
<1>4. ASSUME NEW k \in Tokens, TakeResult(k) \/ Forget(k)
      PROVE  [GoalLedger!Next]_GoalState
  <2>1. Erase({k}) /\ Known(k)
    BY <1>4 DEF TakeResult, Forget, ResultReady, Known
  <2> QED
    BY <1>1, <2>1, GoalsEnd
<1> QED
  BY <1>2, <1>3, <1>4

LEMMA RetainMaps == ASSUME ActionClientIInv, RetainGoal PROVE GoalState' = GoalState
<1>1. next_token' = next_token
  BY DEF RetainGoal
<1>2. PICK k \in Tokens, answer \in {"accepted", "rejected"} :
        \/ Known(k) /\ response' = [response EXCEPT ![k] = answer]
        \/ response' = response
  BY DEF RetainGoal
<1>3. \A j \in Tokens : response'[j] = "none" <=> response[j] = "none"
  BY <1>2 DEF Known, ActionClientIInv, ActionClientTypeOK
<1> QED
  BY <1>1, <1>3, GoalsStay

\* Every other step leaves the records' answers alone.
LEMMA OthersMap ==
    ASSUME \/ AsyncSendGoal \/ AsyncCancelGoal \/ StopCallbacks
           \/ AsyncGetResult \/ StopLateGoal \/ FeedbackCallback
           \/ \E k \in Tokens :
                \/ TakeFeedback(k) \/ RequestCancel(k) \/ TakeCancelResponse(k)
                \/ GoalResponseArrives(k) \/ FeedbackArrives(k)
                \/ ResultArrives(k) \/ CancelResponseArrives(k)
           \/ UNCHANGED actionClientVars
    PROVE  GoalState' = GoalState
<1>1. next_token' = next_token /\ response' = response
  BY DEF AsyncSendGoal, AsyncCancelGoal, StopCallbacks, AsyncGetResult, StopLateGoal,
         FeedbackCallback, TakeFeedback, RequestCancel, TakeCancelResponse,
         GoalResponseArrives, FeedbackArrives, ResultArrives, CancelResponseArrives,
         actionClientVars, records
<1> QED
  BY <1>1, GoalsStay

LEMMA GoalStepMaps ==
    ActionClientIInv /\ [ActionClientNext]_actionClientVars => [GoalLedger!Next]_GoalState
BY SendGoalMaps, RetireMaps, RetainMaps, OthersMap
   DEF ActionClientNext, CallingStep, ExecutingStep

\* The action client implements the ledger of Settlement: a goal is settled
\* once, when its result is taken, its send fails, or it is forgotten or closed
\* away, and no response that comes later gives it another record.
THEOREM GoalsImplementSettlement == ActionClientSpec => GoalsSettleOnce
<1>1. ActionClientInit => GoalLedger!Init
  <2> SUFFICES ASSUME ActionClientInit PROVE GoalLedger!Init
    OBVIOUS
  <2>1. next_token = 1 /\ \A k \in Tokens : k >= 1
    BY ActionClientBounds DEF ActionClientInit, Tokens
  <2> QED
    BY <2>1 DEF GoalLedger!Init, GoalLedger!Unknown, GoalState
<1> QED
  BY <1>1, InductiveActionClientIInv, GoalStepMaps, PTL
     DEF ActionClientSpec, GoalsSettleOnce, GoalLedger!Spec
=============================================================================
