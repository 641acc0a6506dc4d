---------------------- MODULE NativeActionServer_proofs ----------------------
(***************************************************************************)
(* Proofs about NativeActionServer, for any numbers of goals, cancels and  *)
(* failing calls and any way of spinning.                                  *)
(***************************************************************************)
EXTENDS NativeActionServer, SequenceTheorems, FiniteSetTheorems, TLAPS

-----------------------------------------------------------------------------
(* The inductive invariant.                                                *)

\* Where the spinning thread and the Python call can be.
ActorsOK ==
    /\ spin \in [at : {"idle"} \cup GoalStages \cup CancelStages,
                 goal : Goals \cup {NoGoal}]
    /\ call \in [op : {"none", "close"} \cup Operations,
                 at : {"none", "clear", "operate", "record"},
                 goal : Goals \cup {NoGoal}]
    /\ call \in {NoCall, Closing} \/ call.at \in {"operate", "record"}

\* What close() takes out under the lock stays out.
ClosingInPhases ==
    /\ call = Closing => closed /\ closing = "decided"
    /\ closed => /\ records = {} /\ accepted = <<>>
                 /\ call = Closing \/ closing = "closed"
    /\ closing = "closed" => closed /\ call = NoCall
    /\ swapped # {} => call = Closing

\* Requests come in the order of the goals' numbers; a goal is in the hands of
\* handle_goal or has a record, never both.
GoalsInTurn ==
    /\ \A g, h \in Goals : g < h /\ rcl[h] # "none" => rcl[g] # "none"
    /\ \A g \in records : rcl[g] # "none"
    /\ \A i \in 1 .. Len(taken) : rcl[taken[i]] # "none"
    /\ spin.at \in GoalStages =>
        /\ rcl[spin.goal] = IF spin.at = "accepted" THEN "accepted" ELSE "none"
        /\ \A h \in Goals : h < spin.goal => rcl[h] # "none"
        /\ \A h \in Goals : h > spin.goal => rcl[h] = "none"
        /\ spin.goal \notin records
        /\ \A i \in 1 .. Len(taken) : taken[i] # spin.goal

\* Some owner of its handle answers for a goal the client believes active.
ActiveIsHeld ==
    \A g \in Goals : rcl[g] \in Active => g \in records \cup swapped \/ SpinHolds(g)

\* A call that moved its goal and has yet to say so in the record owes its
\* counter one.
Ended(r) == {g \in Goals : rcl[g] = r}
Owed(r) == IF call.at = "record" /\ Recorded[call.op] = r THEN 1 ELSE 0

ResultsOwed ==
    /\ \A r \in {"succeeded", "aborted"} :
          Cardinality(Ended(r)) = stats[r] + Owed(r)
    /\ stats["canceled"] + Owed("canceled") <= Cardinality(Ended("canceled"))
    /\ Cardinality(Ended("canceled") \cap records)
          <= stats["canceled"] + Owed("canceled")

\* The queue of goals, and what was taken from its head.
InLine ==
    /\ \A i, j \in 1 .. Len(taken) : i < j => taken[i] < taken[j]
    /\ \A i, j \in 1 .. Len(accepted) : i < j => accepted[i] < accepted[j]
    /\ \A i \in 1 .. Len(taken), j \in 1 .. Len(accepted) : taken[i] < accepted[j]
    /\ \A i \in 1 .. Len(accepted) : accepted[i] \in records

\* The record of a goal that no call and cancel have met on.
Undisturbed(g) ==
    /\ call.goal = g /\ call.at = "record" => rcl[g] = Recorded[call.op]
    /\ ~(call.goal = g /\ call.at = "record") /\ ~(spin.at = "cancel" /\ spin.goal = g)
         => status[g] = rcl[g]
    /\ spin.at \in CancelStages /\ spin.goal = g
         => call.goal # g /\ rcl[g] \in {"accepted", "executing"}
    /\ spin.at = "cancel" /\ spin.goal = g => status[g] = "canceling"

RecordsTell == \A g \in records \ overtaken : Undisturbed(g)

ServerIInv ==
    /\ TypeOK /\ ActorsOK
    /\ ClosingInPhases
    /\ GoalsInTurn
    /\ ActiveIsHeld
    /\ GoalsAccounted /\ ResultsOwed
    /\ InLine
    /\ RecordsTell

-----------------------------------------------------------------------------
(* The queue.                                                              *)

LEMMA RemoveAtProperties ==
    ASSUME NEW S, NEW s \in Seq(S), NEW i \in 1 .. Len(s)
    PROVE  /\ RemoveAt(s, i) \in Seq(S)
           /\ Len(RemoveAt(s, i)) = Len(s) - 1
           /\ \A j \in 1 .. Len(s) - 1 :
                RemoveAt(s, i)[j] = IF j < i THEN s[j] ELSE s[j + 1]
<1> DEFINE a == SubSeq(s, 1, i - 1)
           b == SubSeq(s, i + 1, Len(s))
<1>1. Len(s) \in Nat /\ i \in Nat /\ 1 <= i /\ i <= Len(s)
  OBVIOUS
<1>2. /\ a \in Seq(S) /\ Len(a) = i - 1
      /\ \A j \in 1 .. i - 1 : a[j] = s[j]
  <2>1. 1 \in 1 .. Len(s) + 1 /\ i - 1 \in 1 - 1 .. Len(s)
    BY <1>1
  <2> QED
    BY <1>1, <2>1, SubSeqProperties
<1>3. /\ b \in Seq(S) /\ Len(b) = Len(s) - i
      /\ \A j \in 1 .. Len(s) - i : b[j] = s[i + j]
  <2>1. i + 1 \in 1 .. Len(s) + 1 /\ Len(s) \in (i + 1) - 1 .. Len(s)
    BY <1>1
  <2> QED
    BY <1>1, <2>1, SubSeqProperties
<1> HIDE DEF a, b
<1>4. /\ a \o b \in Seq(S) /\ Len(a \o b) = Len(s) - 1
      /\ \A j \in 1 .. Len(s) - 1 :
           (a \o b)[j] = IF j <= i - 1 THEN a[j] ELSE b[j - (i - 1)]
  <2>1. Len(a) + Len(b) = Len(s) - 1
    BY <1>1, <1>2, <1>3
  <2>2. /\ a \o b \in Seq(S) /\ Len(a \o b) = Len(a) + Len(b)
        /\ \A j \in 1 .. Len(a) + Len(b) :
             (a \o b)[j] = IF j <= Len(a) THEN a[j] ELSE b[j - Len(a)]
    BY <1>2, <1>3, ConcatProperties
  <2> QED
    BY <1>2, <2>1, <2>2
<1>5. \A j \in 1 .. Len(s) - 1 : (a \o b)[j] = IF j < i THEN s[j] ELSE s[j + 1]
  <2> SUFFICES ASSUME NEW j \in 1 .. Len(s) - 1
               PROVE  (a \o b)[j] = IF j < i THEN s[j] ELSE s[j + 1]
    OBVIOUS
  <2>1. CASE j < i
    BY <1>1, <1>2, <1>4, <2>1
  <2>2. CASE ~(j < i)
    <3>1. j - (i - 1) \in 1 .. Len(s) - i /\ i + (j - (i - 1)) = j + 1
      BY <1>1, <2>2
    <3> QED
      BY <1>1, <1>3, <1>4, <2>2, <3>1
  <2> QED
    BY <2>1, <2>2
<1> QED
  BY <1>4, <1>5 DEF RemoveAt, a, b

\* forget() takes the token out of the queue and keeps the others in order.
LEMMA WithoutProperties ==
    ASSUME NEW s \in Seq(Goals), NEW g,
           \A i, j \in 1 .. Len(s) : i < j => s[i] < s[j]
    PROVE  /\ Without(s, g) \in Seq(Goals)
           /\ \A i \in 1 .. Len(Without(s, g)) :
                Without(s, g)[i] # g /\ \E j \in 1 .. Len(s) : Without(s, g)[i] = s[j]
           /\ \A i, j \in 1 .. Len(Without(s, g)) :
                i < j => Without(s, g)[i] < Without(s, g)[j]
<1>1. DOMAIN s = 1 .. Len(s) /\ Len(s) \in Nat /\ \A i \in 1 .. Len(s) : s[i] \in Goals
  OBVIOUS
<1>2. CASE ~ \E i \in DOMAIN s : s[i] = g
  BY <1>1, <1>2 DEF Without
<1>3. CASE \E i \in DOMAIN s : s[i] = g
  <2> DEFINE k == CHOOSE i \in DOMAIN s : s[i] = g
  <2>1. k \in 1 .. Len(s) /\ s[k] = g
    BY <1>1, <1>3
  <2>2. Without(s, g) = RemoveAt(s, k)
    BY <1>3 DEF Without
  <2> HIDE DEF k
  <2>3. /\ RemoveAt(s, k) \in Seq(Goals)
        /\ Len(RemoveAt(s, k)) = Len(s) - 1
        /\ \A j \in 1 .. Len(s) - 1 :
             RemoveAt(s, k)[j] = IF j < k THEN s[j] ELSE s[j + 1]
    BY <2>1, RemoveAtProperties
  <2>4. ASSUME NEW i \in 1 .. Len(s) - 1
        PROVE  RemoveAt(s, k)[i] # g /\ \E j \in 1 .. Len(s) : RemoveAt(s, k)[i] = s[j]
    <3>1. CASE i < k
      <4>1. i \in 1 .. Len(s) /\ s[i] < s[k]
        BY <1>1, <2>1, <3>1
      <4> QED
        BY <1>1, <2>1, <2>3, <3>1, <4>1 DEF Goals
    <3>2. CASE ~(i < k)
      <4>1. i + 1 \in 1 .. Len(s) /\ s[k] < s[i + 1]
        BY <1>1, <2>1, <3>2
      <4> QED
        BY <1>1, <2>1, <2>3, <3>2, <4>1 DEF Goals
    <3> QED
      BY <3>1, <3>2
  <2>5. ASSUME NEW i \in 1 .. Len(s) - 1, NEW j \in 1 .. Len(s) - 1, i < j
        PROVE  RemoveAt(s, k)[i] < RemoveAt(s, k)[j]
    <3>1. /\ i \in 1 .. Len(s) /\ j \in 1 .. Len(s)
          /\ i + 1 \in 1 .. Len(s) /\ j + 1 \in 1 .. Len(s)
          /\ i < j + 1 /\ i + 1 < j + 1
      BY <1>1, <2>5
    <3> QED
      BY <1>1, <2>1, <2>3, <2>5, <3>1
  <2> QED
    BY <1>1, <2>2, <2>3, <2>4, <2>5
<1> QED
  BY <1>2, <1>3

-----------------------------------------------------------------------------
(* Types.                                                                  *)

LEMMA CountProperties ==
    ASSUME TypeOK, NEW C, Count(C)
    PROVE  /\ stats' \in [Counters -> Nat]
           /\ \A c \in Counters : stats'[c] = stats[c] + (IF c \in C THEN 1 ELSE 0)
BY DEF Count, TypeOK

\* Letting go of handles ends active goals and touches no other.
LEMMA AbandonProperties ==
    ASSUME NEW S, NEW states \in [Goals -> RclStates]
    PROVE  /\ Abandon(S, states) \in [Goals -> RclStates]
           /\ \A g \in Goals : Abandon(S, states)[g] =
                IF g \in S /\ states[g] \in Active THEN "canceled" ELSE states[g]
BY DEF Abandon, RclStates, Active, Terminal

LEMMA EndCancelProperties ==
    ASSUME NEW states \in [Goals -> RclStates], EndCancel(states)
    PROVE  /\ spin' = Idle
           /\ rcl' \in [Goals -> RclStates]
           /\ \A g \in Goals :
                \/ rcl'[g] = states[g]
                \/ /\ g = spin.goal /\ g \notin records /\ ~CallHolds(g)
                   /\ states[g] \in Active /\ rcl'[g] = "canceled"
           /\ spin.goal \in records \/ CallHolds(spin.goal)
                \/ rcl' = Abandon({spin.goal}, states)
BY AbandonProperties DEF EndCancel

LEMMA RejectGoalProperties ==
    ASSUME TypeOK, NEW C, RejectGoal(C)
    PROVE  /\ rcl' = [rcl EXCEPT ![spin.goal] = "rejected"]
           /\ rcl' \in [Goals -> RclStates]
           /\ spin' = Idle
           /\ stats' \in [Counters -> Nat]
           /\ \A c \in Counters : stats'[c] =
                stats[c] + (IF c \in C \cup {"goals_rejected"} THEN 1 ELSE 0)
<1>1. stats' \in [Counters -> Nat]
      /\ \A c \in Counters : stats'[c] =
            stats[c] + (IF c \in C \cup {"goals_rejected"} THEN 1 ELSE 0)
  BY CountProperties DEF RejectGoal
<1> QED
  BY <1>1 DEF RejectGoal, TypeOK, RclStates

Typed == TypeOK /\ ActorsOK

LEMMA SpinnerTypeStep ==
    ASSUME Typed, SpinnerStep
    PROVE  Typed'
<1> USE DEF Typed, ActorsOK, TypeOK, facade, native, history
<1>1. CASE GoalCallbackGone
  BY <1>1, CountProperties DEF GoalCallbackGone, RejectGoal, RclStates, Idle,
     GoalStages, CancelStages, Bodies
<1>2. CASE EnterGoalCallback \/ EnterCancelCallback
  BY <1>2 DEF EnterGoalCallback, EnterCancelCallback, Idle, GoalStages,
     CancelStages, Bodies
<1>3. CASE AcceptGoal
  BY <1>3 DEF AcceptGoal, RclStates, Active, Idle, GoalStages, CancelStages, Bodies
<1>4. CASE HandleAccepted
  <2>1. spin.goal \in Goals /\ spin.at = "accepted" /\ spin' = Idle
    BY <1>4 DEF HandleAccepted, Idle
  <2>2. /\ rcl' \in [Goals -> RclStates]
        /\ stats' \in [Counters -> Nat]
        /\ accepted' \in Seq(Goals)
        /\ records \subseteq records' /\ records' \subseteq Goals
    <3>1. CASE closed
      BY <1>4, <3>1, AbandonProperties DEF HandleAccepted
    <3>2. CASE ~closed
      <4>1. accepted' = Append(accepted, spin.goal) /\ Count({"goals_accepted"})
            /\ rcl' = rcl /\ records' = records \cup {spin.goal}
        BY <1>4, <3>2 DEF HandleAccepted
      <4> QED
        BY <2>1, <4>1, CountProperties, AppendProperties
    <3> QED
      BY <3>1, <3>2
  <2>3. status' \in [Goals -> {"none"} \cup Active \cup Terminal]
    BY <1>4 DEF HandleAccepted, Active
  <2> QED
    BY <1>4, <2>1, <2>2, <2>3 DEF HandleAccepted, Idle, GoalStages, CancelStages, Bodies
<1>5. CASE CancelCallbackGone
  BY <1>5, CountProperties, EndCancelProperties
  DEF CancelCallbackGone, Idle, GoalStages, CancelStages, Bodies
<1>6. CASE WriteCanceling
  BY <1>6, CountProperties
  DEF WriteCanceling, Active, Idle, GoalStages, CancelStages, Bodies
<1>7. CASE CancelGoal
  <2> DEFINE states == IF rcl[spin.goal] \in {"accepted", "executing"}
                       THEN [rcl EXCEPT ![spin.goal] = "canceling"] ELSE rcl
  <2>1. states \in [Goals -> RclStates] /\ EndCancel(states)
    BY <1>7 DEF CancelGoal, RclStates, Active
  <2> HIDE DEF states
  <2> QED
    BY <1>7, <2>1, EndCancelProperties
    DEF CancelGoal, Idle, GoalStages, CancelStages, Bodies
<1>8. ASSUME NEW d \in Decisions, LeaveGoalCallback(d) PROVE Typed'
  <2>1. spin.goal \in Goals /\ spin.at = "goal_body" /\ depth' = 0
    BY <1>8 DEF LeaveGoalCallback, Idle, Bodies
  <2>2. CASE d = "accept"
    BY <1>8, <2>1, <2>2 DEF LeaveGoalCallback, GoalStages, CancelStages, Bodies, Idle
  <2>3. CASE d # "accept"
    <3>1. rcl' \in [Goals -> RclStates] /\ stats' \in [Counters -> Nat] /\ spin' = Idle
      BY <1>8, <2>3, RejectGoalProperties DEF LeaveGoalCallback
    <3> QED
      BY <1>8, <2>1, <3>1
      DEF LeaveGoalCallback, GoalStages, CancelStages, Bodies, Idle
  <2> QED
    BY <2>2, <2>3
<1>9. ASSUME NEW d \in Decisions, LeaveCancelCallback(d) PROVE Typed'
  BY <1>9, CountProperties, EndCancelProperties
  DEF LeaveCancelCallback, Idle, GoalStages, CancelStages, Bodies
<1> QED
  BY <1>1, <1>2, <1>3, <1>4, <1>5, <1>6, <1>7, <1>8, <1>9 DEF SpinnerStep

LEMMA PythonTypeStep ==
    ASSUME Typed, InLine,
           \/ \E op \in Operations, g \in Goals : BeginCall(op, g)
           \/ \E g \in Goals : Forget(g)
           \/ CallStep \/ TakeAccepted \/ Close \/ ServiceDeferredClose
    PROVE  Typed'
<1> USE DEF Typed, ActorsOK, TypeOK, facade, native, history, Idle
<1>1. ASSUME NEW op \in Operations, NEW g \in Goals, BeginCall(op, g)
      PROVE  Typed'
  BY <1>1 DEF BeginCall, NoGoal
<1>2. ASSUME NEW g \in Goals, Forget(g)
      PROVE  Typed'
  <2>1. accepted' \in Seq(Goals)
    BY <1>2, WithoutProperties DEF Forget, InLine
  <2>2. rcl' \in [Goals -> RclStates] /\ stats' \in [Counters -> Nat]
    BY <1>2, AbandonProperties, CountProperties DEF Forget
  <2> QED
    BY <1>2, <2>1, <2>2 DEF Forget, PythonRuns, NoCall
<1>3. CASE Operate
  <2>1. /\ call.op \in Operations /\ call.goal \in records
        /\ Recorded[call.op] \in {"executing", "succeeded", "aborted", "canceled"}
    BY <1>3 DEF Operate, NoCall, Closing, Operations, Recorded
  <2>2. CASE Allowed(call.op, rcl[call.goal])
    <3>1. /\ rcl' = [rcl EXCEPT ![call.goal] = Recorded[call.op]]
          /\ call' = [call EXCEPT !.at = "record"] /\ stats' = stats
      BY <1>3, <2>2 DEF Operate
    <3>2. rcl' \in [Goals -> RclStates]
      BY <2>1, <3>1 DEF RclStates, Active, Terminal
    <3> QED
      BY <1>3, <2>1, <3>1, <3>2 DEF Operate
  <2>3. CASE ~Allowed(call.op, rcl[call.goal])
    BY <1>3, <2>3, CountProperties DEF Operate, NoCall, NoGoal
  <2> QED
    BY <2>2, <2>3
<1>4. CASE RecordStatus
  <2>1. Recorded[call.op] \in {"executing", "succeeded", "aborted", "canceled"}
    BY <1>4 DEF RecordStatus, NoCall, Closing, Operations, Recorded
  <2> QED
    BY <1>4, <2>1, CountProperties
    DEF RecordStatus, NoCall, NoGoal, Closing, Active, Terminal
<1>5. CASE TakeAccepted
  <2>1. Head(accepted) \in Goals /\ Tail(accepted) \in Seq(Goals)
    BY <1>5 DEF TakeAccepted
  <2>2. taken' \in Seq(Goals)
    BY <1>5, <2>1, AppendProperties DEF TakeAccepted
  <2> QED
    BY <1>5, <2>1, <2>2 DEF TakeAccepted
<1>6. CASE Close \/ ServiceDeferredClose
  BY <1>6 DEF Close, ServiceDeferredClose
<1>7. CASE CloseSwaps
  BY <1>7 DEF CloseSwaps, PythonRuns, Closing, NoGoal
<1>8. CASE CloseClears
  BY <1>8, AbandonProperties DEF CloseClears, NoCall, NoGoal
<1> QED
  BY <1>1, <1>2, <1>3, <1>4, <1>5, <1>6, <1>7, <1>8 DEF CallStep

LEMMA RequestTypeStep ==
    ASSUME Typed, NEW g \in Goals, RequestGoal(g) \/ RequestCancel(g)
    PROVE  Typed'
BY CountProperties DEF RequestGoal, RequestCancel, Typed, ActorsOK, TypeOK, facade,
   native, history, Idle, GoalStages, CancelStages, Bodies

LEMMA ServerTypeStep ==
    ASSUME Typed, InLine, Next
    PROVE  Typed'
BY SpinnerTypeStep, PythonTypeStep, RequestTypeStep DEF Next

-----------------------------------------------------------------------------
(* The phases of close().                                                  *)

LEMMA PhasesStep ==
    ASSUME Typed, ClosingInPhases, Next
    PROVE  ClosingInPhases'
<1> USE DEF ClosingInPhases, facade, native
<1>1. ASSUME NEW g \in Goals, RequestGoal(g) \/ RequestCancel(g)
      PROVE  ClosingInPhases'
  BY <1>1 DEF RequestGoal, RequestCancel
<1>2. ASSUME SpinnerStep, ~HandleAccepted
      PROVE  UNCHANGED <<closed, call, closing, records, accepted, swapped>>
  BY <1>2 DEF SpinnerStep, GoalCallbackGone, EnterGoalCallback, AcceptGoal,
     CancelCallbackGone, EnterCancelCallback, WriteCanceling, CancelGoal,
     LeaveGoalCallback, LeaveCancelCallback
<1>3. CASE HandleAccepted
  <2>1. CASE closed
    BY <1>3, <2>1 DEF HandleAccepted
  <2>2. CASE ~closed
    BY <1>3, <2>2 DEF HandleAccepted
  <2> QED
    BY <2>1, <2>2
<1>4. ASSUME NEW op \in Operations, NEW g \in Goals, BeginCall(op, g)
      PROVE  ClosingInPhases'
  BY <1>4 DEF BeginCall, PythonRuns, Operations, Recorded, NoCall, Closing
<1>5. ASSUME NEW g \in Goals, Forget(g)
      PROVE  ClosingInPhases'
  <2>1. records # {} /\ ~closed
    BY <1>5 DEF Forget
  <2> QED
    BY <1>5, <2>1 DEF Forget
<1>6. CASE Operate \/ RecordStatus
  <2>1. call \notin {NoCall, Closing} /\ call'.op # "close" /\ ~closed
    BY <1>6 DEF Operate, RecordStatus, NoCall, Closing, Typed, TypeOK, ActorsOK,
       Operations, Recorded
  <2> QED
    BY <1>6, <2>1 DEF Operate, RecordStatus, Closing
<1>7. CASE TakeAccepted
  <2>1. ~closed /\ call = NoCall
    BY <1>7 DEF TakeAccepted, PythonRuns
  <2> QED
    BY <1>7, <2>1 DEF TakeAccepted
<1>8. CASE Close \/ ServiceDeferredClose
  BY <1>8 DEF Close, ServiceDeferredClose, PythonRuns, NoCall, Closing
<1>9. CASE CloseSwaps
  BY <1>9 DEF CloseSwaps, PythonRuns
<1>10. CASE CloseClears
  BY <1>10 DEF CloseClears, NoCall, Closing
<1> QED
  BY <1>1, <1>2, <1>3, <1>4, <1>5, <1>6, <1>7, <1>8, <1>9, <1>10
  DEF Next, CallStep

-----------------------------------------------------------------------------
(* What a step does to rclcpp_action's states.                             *)

\* Nobody has a goal in his hands that another has yet to see.
LEMMA SpinGoal ==
    ASSUME Typed, spin.at # "idle"
    PROVE  spin.goal \in Goals /\ spin.at \in GoalStages \cup CancelStages
BY DEF Typed, TypeOK, Idle

\* The steps of handle_goal.
LEMMA GoalsInTurnSpins ==
    ASSUME Typed, GoalsInTurn, SpinnerStep
    PROVE  GoalsInTurn'
<1> USE DEF GoalsInTurn, facade, native, history
<1>1. CASE GoalCallbackGone
  <2>1. /\ spin.goal \in Goals /\ spin.at \in GoalStages
        /\ rcl' = [rcl EXCEPT ![spin.goal] = "rejected"] /\ spin' = Idle
        /\ UNCHANGED <<records, taken>>
    BY <1>1, RejectGoalProperties, SpinGoal
    DEF GoalCallbackGone, GoalStages, Typed
  <2> QED
    BY <2>1 DEF Typed, TypeOK, Goals, Idle, GoalStages
<1>2. CASE EnterGoalCallback \/ EnterCancelCallback
  BY <1>2 DEF EnterGoalCallback, EnterCancelCallback, GoalStages, Typed, ActorsOK
<1>3. CASE AcceptGoal
  BY <1>3, SpinGoal DEF AcceptGoal, GoalStages, Typed, ActorsOK, TypeOK, Goals
<1>4. CASE HandleAccepted
  <2>1. /\ spin.goal \in Goals /\ spin.at = "accepted" /\ spin' = Idle
        /\ taken' = taken /\ records' \subseteq records \cup {spin.goal}
        /\ rcl[spin.goal] = "accepted"
    BY <1>4, SpinGoal DEF HandleAccepted, GoalStages
  <2>2. \A g \in Goals : rcl'[g] = "none" <=> rcl[g] = "none"
    <3>1. rcl' = rcl \/ rcl' = Abandon({spin.goal}, rcl)
      BY <1>4 DEF HandleAccepted
    <3> QED
      BY <3>1, AbandonProperties DEF Typed, TypeOK, Active
  <2>3. \A g \in records' : g \in Goals /\ rcl'[g] # "none"
    BY <2>1, <2>2 DEF Typed, TypeOK
  <2> QED
    BY <2>1, <2>2, <2>3 DEF Typed, TypeOK, Idle, GoalStages
<1>5. ASSUME NEW states \in [Goals -> RclStates], EndCancel(states),
             \A g \in Goals : states[g] = "none" <=> rcl[g] = "none",
             records' = records, taken' = taken
      PROVE  GoalsInTurn'
  <2>1. \A g \in Goals : rcl'[g] = "none" <=> rcl[g] = "none"
    BY <1>5, EndCancelProperties DEF Active
  <2> QED
    BY <1>5, <2>1, EndCancelProperties DEF Typed, TypeOK, Idle, GoalStages
<1>6. CASE CancelCallbackGone
  BY <1>5, <1>6 DEF CancelCallbackGone, Typed, TypeOK
<1>7. CASE WriteCanceling
  BY <1>7 DEF WriteCanceling, GoalStages, Typed, ActorsOK
<1>8. CASE CancelGoal
  <2> DEFINE states == IF rcl[spin.goal] \in {"accepted", "executing"}
                       THEN [rcl EXCEPT ![spin.goal] = "canceling"] ELSE rcl
  <2>1. /\ states \in [Goals -> RclStates] /\ EndCancel(states)
        /\ \A g \in Goals : states[g] = "none" <=> rcl[g] = "none"
    BY <1>8 DEF CancelGoal, RclStates, Active, Typed, TypeOK
  <2> HIDE DEF states
  <2> QED
    BY <1>5, <1>8, <2>1 DEF CancelGoal
<1>9. ASSUME NEW d \in Decisions, LeaveGoalCallback(d) PROVE GoalsInTurn'
  <2>1. /\ spin.goal \in Goals /\ spin.at \in GoalStages /\ spin.at # "accepted"
        /\ UNCHANGED <<records, taken>>
    BY <1>9, SpinGoal DEF LeaveGoalCallback, GoalStages
  <2>2. CASE d = "accept"
    BY <1>9, <2>1, <2>2 DEF LeaveGoalCallback, GoalStages, Typed, ActorsOK
  <2>3. CASE d # "accept"
    <3>1. rcl' = [rcl EXCEPT ![spin.goal] = "rejected"] /\ spin' = Idle
      BY <1>9, <2>3, RejectGoalProperties DEF LeaveGoalCallback, Typed
    <3> QED
      BY <2>1, <3>1 DEF Typed, TypeOK, Goals, Idle, GoalStages
  <2> QED
    BY <2>2, <2>3
<1>10. ASSUME NEW d \in Decisions, LeaveCancelCallback(d) PROVE GoalsInTurn'
  <2>1. CASE d = "accept"
    BY <1>10, <2>1 DEF LeaveCancelCallback, GoalStages, Typed, ActorsOK
  <2>2. CASE d # "accept"
    BY <1>5, <1>10, <2>2 DEF LeaveCancelCallback, Typed, TypeOK
  <2> QED
    BY <2>1, <2>2
<1> QED
  BY <1>1, <1>2, <1>3, <1>4, <1>6, <1>7, <1>8, <1>9, <1>10 DEF SpinnerStep

LEMMA GoalsInTurnStep ==
    ASSUME Typed, GoalsInTurn, ClosingInPhases, InLine, Next
    PROVE  GoalsInTurn'
<1> USE DEF GoalsInTurn, facade, native, history
<1>1. ASSUME NEW g \in Goals, RequestGoal(g)
      PROVE  GoalsInTurn'
  <2>1. /\ spin' = [at |-> IF default["goal"] THEN "accept" ELSE "goal_call",
                    goal |-> g]
        /\ rcl[g] = "none" /\ \A h \in 1 .. g - 1 : rcl[h] # "none"
        /\ UNCHANGED <<rcl, records, taken>>
    BY <1>1 DEF RequestGoal
  <2>2. spin'.at # "accepted" /\ spin'.goal = g
    BY <2>1
  <2>3. \A h \in Goals : h < g => rcl[h] # "none"
    BY <2>1 DEF Goals
  <2> QED
    BY <2>1, <2>2, <2>3 DEF Typed, TypeOK
<1>2. ASSUME NEW g \in Goals, RequestCancel(g)
      PROVE  GoalsInTurn'
  BY <1>2 DEF RequestCancel, Idle, GoalStages
<1>3. CASE SpinnerStep
  BY <1>3, GoalsInTurnSpins
<1>4. \/ \E op \in Operations, g \in Goals : BeginCall(op, g)
      \/ Close \/ ServiceDeferredClose \/ CloseSwaps
      \/ RecordStatus
      => GoalsInTurn'
  BY DEF BeginCall, Close, ServiceDeferredClose, CloseSwaps, RecordStatus
<1>5. ASSUME NEW S, rcl' = Abandon(S, rcl), records' \subseteq records,
             UNCHANGED <<taken, spin>>,
             spin.at = "accepted" => spin.goal \notin S
      PROVE  GoalsInTurn'
  <2>1. \A g \in Goals : rcl'[g] = "none" <=> rcl[g] = "none"
    BY <1>5, AbandonProperties DEF Active, Typed, TypeOK
  <2>2. spin.at \in GoalStages => rcl'[spin.goal] = rcl[spin.goal]
    <3> SUFFICES ASSUME spin.at \in GoalStages
                 PROVE  rcl'[spin.goal] = rcl[spin.goal]
      OBVIOUS
    <3>1. spin.goal \in Goals
      BY SpinGoal DEF GoalStages
    <3>2. spin.goal \notin S \/ rcl[spin.goal] \notin Active
      BY <1>5 DEF Active
    <3>3. Abandon(S, rcl)[spin.goal] =
            IF spin.goal \in S /\ rcl[spin.goal] \in Active
            THEN "canceled" ELSE rcl[spin.goal]
      BY <3>1, AbandonProperties DEF Typed, TypeOK
    <3> QED
      BY <1>5, <3>2, <3>3
  <2> QED
    BY <1>5, <2>1, <2>2 DEF Typed, TypeOK
<1>6. ASSUME NEW g \in Goals, Forget(g)
      PROVE  GoalsInTurn'
  <2>1. CASE SpinHolds(g)
    BY <1>6, <2>1 DEF Forget
  <2>2. CASE ~SpinHolds(g)
    BY <1>5, <1>6, <2>2 DEF Forget, SpinHolds
  <2> QED
    BY <2>1, <2>2
<1>7. CASE CloseClears
  BY <1>5, <1>7 DEF CloseClears, SpinHolds
<1>8. CASE Operate
  <2>1. CASE Allowed(call.op, rcl[call.goal])
    <3>1. /\ rcl' = [rcl EXCEPT ![call.goal] = Recorded[call.op]]
          /\ call.goal \in records /\ Recorded[call.op] # "none"
      BY <1>8, <2>1 DEF Operate, Typed, TypeOK, ActorsOK, NoCall, Closing,
         Operations, Recorded
    <3>2. \A g \in Goals : rcl'[g] = "none" <=> rcl[g] = "none"
      BY <3>1 DEF Typed, TypeOK
    <3> QED
      BY <1>8, <3>1, <3>2 DEF Operate, Typed, TypeOK
  <2>2. CASE ~Allowed(call.op, rcl[call.goal])
    BY <1>8, <2>2 DEF Operate
  <2> QED
    BY <2>1, <2>2
<1>9. CASE TakeAccepted
  <2>1. taken' = Append(taken, accepted[1]) /\ accepted[1] \in records
    BY <1>9 DEF TakeAccepted, InLine, Typed, TypeOK
  <2>2. \A i \in 1 .. Len(taken') :
          taken'[i] \in records \/ \E j \in 1 .. Len(taken) : taken'[i] = taken[j]
    BY <2>1, AppendProperties DEF Typed, TypeOK
  <2>3. UNCHANGED <<spin, rcl, records>>
    BY <1>9 DEF TakeAccepted
  <2> QED
    BY <2>2, <2>3
<1> QED
  BY <1>1, <1>2, <1>3, <1>4, <1>6, <1>7, <1>8, <1>9 DEF Next, CallStep

-----------------------------------------------------------------------------
(* Active goals have an owner.                                             *)

LEMMA ActiveIsHeldSpins ==
    ASSUME Typed, ActiveIsHeld, ClosingInPhases, SpinnerStep
    PROVE  ActiveIsHeld'
<1> USE DEF ActiveIsHeld, SpinHolds, facade, native, history
<1>1. CASE GoalCallbackGone
  <2>1. /\ rcl' = [rcl EXCEPT ![spin.goal] = "rejected"]
        /\ spin.at = "goal_call" /\ UNCHANGED <<records, swapped>>
    BY <1>1, RejectGoalProperties DEF GoalCallbackGone, Typed
  <2> QED
    BY <2>1 DEF Typed, TypeOK, Active, CancelStages
<1>2. CASE EnterGoalCallback \/ EnterCancelCallback
  BY <1>2 DEF EnterGoalCallback, EnterCancelCallback, CancelStages, Typed, ActorsOK
<1>3. CASE AcceptGoal
  BY <1>3 DEF AcceptGoal, CancelStages, Typed, TypeOK, ActorsOK
<1>4. CASE HandleAccepted
  <2>1. spin.goal \in Goals /\ spin.at = "accepted" /\ swapped' = swapped
    BY <1>4, SpinGoal DEF HandleAccepted
  <2>2. CASE closed
    <3>1. rcl' = Abandon({spin.goal}, rcl) /\ records' = records
      BY <1>4, <2>2 DEF HandleAccepted
    <3>2. \A g \in Goals : rcl'[g] \in Active => rcl[g] \in Active /\ g # spin.goal
      BY <3>1, AbandonProperties DEF Typed, TypeOK, Active
    <3> QED
      BY <2>1, <3>1, <3>2
  <2>3. CASE ~closed
    BY <1>4, <2>1, <2>3 DEF HandleAccepted
  <2> QED
    BY <2>2, <2>3
<1>5. ASSUME NEW states \in [Goals -> RclStates], EndCancel(states),
             \A g \in Goals : states[g] \in Active => rcl[g] \in Active,
             UNCHANGED <<records, swapped>>
      PROVE  ActiveIsHeld'
  <2> SUFFICES ASSUME NEW g \in Goals, rcl'[g] \in Active
               PROVE  g \in records \cup swapped
    BY <1>5
  <2>1. rcl'[g] = states[g] /\ rcl[g] \in Active
    BY <1>5, EndCancelProperties DEF Active
  <2>2. CASE g # spin.goal
    BY <2>1, <2>2
  <2>3. CASE g = spin.goal
    <3>1. g \in records \/ CallHolds(g)
      <4>1. rcl' = Abandon({g}, states) => rcl'[g] \notin Active
        BY <1>5, AbandonProperties DEF Active
      <4> QED
        BY <1>5, <2>3, <4>1, EndCancelProperties
    <3>2. call.goal = g => g \in records
      BY DEF Typed, TypeOK, NoCall, Closing, NoGoal, Goals
    <3> QED
      BY <3>1, <3>2 DEF CallHolds
  <2> QED
    BY <2>2, <2>3
<1>6. CASE CancelCallbackGone
  BY <1>5, <1>6 DEF CancelCallbackGone, Typed, TypeOK
<1>7. CASE WriteCanceling
  BY <1>7 DEF WriteCanceling, CancelStages, Typed, ActorsOK
<1>8. CASE CancelGoal
  <2> DEFINE states == IF rcl[spin.goal] \in {"accepted", "executing"}
                       THEN [rcl EXCEPT ![spin.goal] = "canceling"] ELSE rcl
  <2>1. /\ states \in [Goals -> RclStates] /\ EndCancel(states)
        /\ \A g \in Goals : states[g] \in Active => rcl[g] \in Active
    BY <1>8 DEF CancelGoal, RclStates, Active, Typed, TypeOK
  <2> HIDE DEF states
  <2> QED
    BY <1>5, <1>8, <2>1 DEF CancelGoal
<1>9. ASSUME NEW d \in Decisions, LeaveGoalCallback(d) PROVE ActiveIsHeld'
  <2>1. /\ spin.at = "goal_body" /\ UNCHANGED <<records, swapped>>
    BY <1>9 DEF LeaveGoalCallback
  <2>2. CASE d = "accept"
    BY <1>9, <2>1, <2>2 DEF LeaveGoalCallback, CancelStages, Typed, ActorsOK
  <2>3. CASE d # "accept"
    <3>1. rcl' = [rcl EXCEPT ![spin.goal] = "rejected"]
      BY <1>9, <2>3, RejectGoalProperties DEF LeaveGoalCallback, Typed
    <3> QED
      BY <2>1, <3>1 DEF Typed, TypeOK, Active, CancelStages
  <2> QED
    BY <2>2, <2>3
<1>10. ASSUME NEW d \in Decisions, LeaveCancelCallback(d) PROVE ActiveIsHeld'
  <2>1. CASE d = "accept"
    BY <1>10, <2>1 DEF LeaveCancelCallback, CancelStages, Typed, ActorsOK
  <2>2. CASE d # "accept"
    BY <1>5, <1>10, <2>2 DEF LeaveCancelCallback, Typed, TypeOK
  <2> QED
    BY <2>1, <2>2
<1> QED
  BY <1>1, <1>2, <1>3, <1>4, <1>6, <1>7, <1>8, <1>9, <1>10 DEF SpinnerStep

LEMMA ActiveIsHeldStep ==
    ASSUME Typed, ActiveIsHeld, ClosingInPhases, Next
    PROVE  ActiveIsHeld'
<1> USE DEF ActiveIsHeld, facade, native, history
<1>1. ASSUME NEW g \in Goals, RequestGoal(g) \/ RequestCancel(g)
      PROVE  ActiveIsHeld'
  <2>1. UNCHANGED <<rcl, records, swapped>> /\ spin.at = "idle"
    BY <1>1 DEF RequestGoal, RequestCancel, Idle
  <2> QED
    BY <2>1 DEF SpinHolds, CancelStages
<1>2. CASE SpinnerStep
  BY <1>2, ActiveIsHeldSpins
<1>3. \/ \E op \in Operations, g \in Goals : BeginCall(op, g)
      \/ Close \/ ServiceDeferredClose \/ RecordStatus \/ TakeAccepted
      => ActiveIsHeld'
  BY DEF BeginCall, Close, ServiceDeferredClose, RecordStatus, TakeAccepted, SpinHolds
<1>4. ASSUME NEW g \in Goals, Forget(g)
      PROVE  ActiveIsHeld'
  <2>1. /\ records' = records \ {g} /\ UNCHANGED <<spin, swapped>>
        /\ rcl' = IF SpinHolds(g) THEN rcl ELSE Abandon({g}, rcl)
    BY <1>4 DEF Forget
  <2>2. \A h \in Goals : rcl'[h] \in Active => rcl[h] \in Active /\ (h # g \/ SpinHolds(g))
    BY <2>1, AbandonProperties DEF Typed, TypeOK, Active
  <2> QED
    BY <2>1, <2>2 DEF SpinHolds
<1>5. CASE CloseSwaps
  <2>1. swapped = {}
    BY <1>5 DEF CloseSwaps, PythonRuns, ClosingInPhases, NoCall, Closing
  <2> QED
    BY <1>5, <2>1 DEF CloseSwaps, SpinHolds
<1>6. CASE CloseClears
  <2>1. /\ rcl' = Abandon({g \in swapped : ~SpinHolds(g)}, rcl)
        /\ UNCHANGED <<spin, records>> /\ swapped' = {}
    BY <1>6 DEF CloseClears
  <2>2. \A h \in Goals :
          rcl'[h] \in Active => rcl[h] \in Active /\ (h \notin swapped \/ SpinHolds(h))
    BY <2>1, AbandonProperties DEF Typed, TypeOK, Active
  <2> QED
    BY <2>1, <2>2 DEF SpinHolds
<1>7. CASE Operate
  <2>1. UNCHANGED <<records, swapped, spin>> /\ call.goal \in records
    BY <1>7 DEF Operate, Typed, TypeOK, NoCall, Closing
  <2>2. rcl' = rcl \/ rcl' = [rcl EXCEPT ![call.goal] = Recorded[call.op]]
    BY <1>7 DEF Operate
  <2> QED
    BY <2>1, <2>2 DEF Typed, TypeOK, SpinHolds
<1> QED
  BY <1>1, <1>2, <1>3, <1>4, <1>5, <1>6, <1>7 DEF Next, CallStep

-----------------------------------------------------------------------------
(* The queue of goals and what was taken from it.                          *)

LEMMA InLineStep ==
    ASSUME Typed, InLine, GoalsInTurn, ClosingInPhases, Next
    PROVE  InLine'
<1> USE DEF InLine, facade, native, history
<1>1. /\ accepted \in Seq(Goals) /\ taken \in Seq(Goals)
      /\ Len(accepted) \in Nat /\ Len(taken) \in Nat
      /\ \A i \in 1 .. Len(taken) : taken[i] \in Goals
      /\ \A i \in 1 .. Len(accepted) : accepted[i] \in Goals
  BY DEF Typed, TypeOK
<1>2. CASE UNCHANGED <<accepted, taken, records>>
  BY <1>2
<1>3. ASSUME HandleAccepted, ~closed
      PROVE  InLine'
  <2>1. /\ spin.goal \in Goals /\ spin.at = "accepted" /\ taken' = taken
        /\ records' = records \cup {spin.goal}
        /\ accepted' = Append(accepted, spin.goal)
    BY <1>3, SpinGoal DEF HandleAccepted
  <2>2. \A g \in Goals : rcl[g] # "none" /\ g # spin.goal => g < spin.goal
    BY <2>1 DEF GoalsInTurn, GoalStages, Goals
  <2>3. /\ \A i \in 1 .. Len(taken) : taken[i] < spin.goal
        /\ \A i \in 1 .. Len(accepted) : accepted[i] < spin.goal
    BY <1>1, <2>1, <2>2 DEF GoalsInTurn, GoalStages
  <2>4. /\ Len(accepted') = Len(accepted) + 1
        /\ \A i \in 1 .. Len(accepted) : accepted'[i] = accepted[i]
        /\ accepted'[Len(accepted) + 1] = spin.goal
    BY <1>1, <2>1, AppendProperties
  <2> QED
    BY <1>1, <2>1, <2>3, <2>4
<1>4. ASSUME NEW g \in Goals, Forget(g)
      PROVE  InLine'
  <2>1. accepted' = Without(accepted, g) /\ taken' = taken /\ records' = records \ {g}
    BY <1>4 DEF Forget
  <2>2. /\ \A i \in 1 .. Len(accepted') :
             accepted'[i] # g /\ \E j \in 1 .. Len(accepted) : accepted'[i] = accepted[j]
        /\ \A i, j \in 1 .. Len(accepted') : i < j => accepted'[i] < accepted'[j]
    BY <1>1, <2>1, WithoutProperties
  <2> QED
    BY <2>1, <2>2
<1>5. CASE TakeAccepted
  <2> DEFINE h == accepted[1]
  <2>1. /\ accepted # <<>> /\ accepted' = Tail(accepted) /\ records' = records
        /\ h = Head(accepted) /\ h \in records /\ h \in Goals
        /\ taken' = Append(taken, h) /\ 1 \in 1 .. Len(accepted)
    BY <1>1, <1>5 DEF TakeAccepted
  <2>2. /\ Len(accepted') = Len(accepted) - 1
        /\ \A i \in 1 .. Len(accepted') :
             accepted'[i] = accepted[i + 1] /\ i + 1 \in 1 .. Len(accepted) /\ 1 < i + 1
    BY <1>1, <2>1, HeadTailProperties
  <2>3. /\ Len(taken') = Len(taken) + 1
        /\ \A i \in 1 .. Len(taken) : taken'[i] = taken[i]
        /\ taken'[Len(taken) + 1] = h
    BY <1>1, <2>1, AppendProperties
  <2>4. \A i \in 1 .. Len(accepted') :
          /\ accepted'[i] \in records /\ h < accepted'[i]
          /\ \A j \in 1 .. Len(taken) : taken[j] < accepted'[i]
    BY <2>1, <2>2
  <2>5. \A i, j \in 1 .. Len(accepted') : i < j => accepted'[i] < accepted'[j]
    <3> SUFFICES ASSUME NEW i \in 1 .. Len(accepted'), NEW j \in 1 .. Len(accepted'), i < j
                 PROVE  accepted'[i] < accepted'[j]
      OBVIOUS
    <3>1. i + 1 < j + 1
      BY <1>1, <2>2
    <3> QED
      BY <2>2, <3>1
  <2>6. \A i \in 1 .. Len(taken) : taken[i] < h
    BY <2>1
  <2> HIDE DEF h
  <2> QED
    BY <1>1, <2>1, <2>3, <2>4, <2>5, <2>6
<1>6. CASE CloseSwaps
  BY <1>1, <1>6 DEF CloseSwaps
<1>7. ASSUME ~(\E g \in Goals : Forget(g)), ~TakeAccepted, ~CloseSwaps,
             ~HandleAccepted \/ closed
      PROVE  UNCHANGED <<accepted, taken, records>>
  BY <1>7 DEF Next, SpinnerStep, CallStep, RequestGoal, RequestCancel, BeginCall,
     GoalCallbackGone, EnterGoalCallback, AcceptGoal, HandleAccepted,
     CancelCallbackGone, EnterCancelCallback, WriteCanceling, CancelGoal,
     LeaveGoalCallback, LeaveCancelCallback, Operate, RecordStatus, CloseClears,
     Close, ServiceDeferredClose
<1> QED
  BY <1>2, <1>3, <1>4, <1>5, <1>6, <1>7

-----------------------------------------------------------------------------
(* The counters.                                                           *)

LEMMA GoalsAreFinite ==
    /\ IsFiniteSet(Goals)
    /\ \A S \in SUBSET Goals : IsFiniteSet(S) /\ Cardinality(S) \in Nat
<1>1. IsFiniteSet(Goals)
  BY BoundAssumption, FS_Interval DEF Goals
<1>2. ASSUME NEW S \in SUBSET Goals
      PROVE  IsFiniteSet(S) /\ Cardinality(S) \in Nat
  BY <1>1, FS_Subset, FS_CardinalityType
<1> QED
  BY <1>1, <1>2

\* The counters of requests are numbers, and go up by one or stay.
LEMMA RequestCounters ==
    ASSUME TypeOK
    PROVE  /\ stats["goals_requested"] \in Nat /\ stats["goals_accepted"] \in Nat
           /\ stats["goals_rejected"] \in Nat /\ stats["forgotten"] \in Nat
           /\ stats["cancel_requests"] \in Nat /\ stats["cancels_accepted"] \in Nat
           /\ stats["cancels_rejected"] \in Nat
BY DEF TypeOK, Counters

Up(c, C) == stats'[c] = stats[c] + (IF c \in C THEN 1 ELSE 0)

LEMMA RequestsCountUp ==
    ASSUME TypeOK, NEW C, Count(C)
    PROVE  /\ Up("goals_requested", C) /\ Up("goals_accepted", C)
           /\ Up("goals_rejected", C) /\ Up("forgotten", C)
           /\ Up("cancel_requests", C) /\ Up("cancels_accepted", C)
           /\ Up("cancels_rejected", C)
<1>1. \A c \in Counters : stats'[c] = stats[c] + (IF c \in C THEN 1 ELSE 0)
  BY CountProperties
<1> QED
  BY <1>1 DEF Up, Counters

\* A step that leaves the requests' counters and places alone.
LEMMA OtherCountersGoUp ==
    ASSUME TypeOK, NEW C, Count(C),
           C \subseteq {"exceptions", "succeeded", "aborted", "canceled"}
    PROVE  /\ stats'["goals_requested"] = stats["goals_requested"]
           /\ stats'["goals_accepted"] = stats["goals_accepted"]
           /\ stats'["goals_rejected"] = stats["goals_rejected"]
           /\ stats'["forgotten"] = stats["forgotten"]
           /\ stats'["cancel_requests"] = stats["cancel_requests"]
           /\ stats'["cancels_accepted"] = stats["cancels_accepted"]
           /\ stats'["cancels_rejected"] = stats["cancels_rejected"]
BY RequestsCountUp, RequestCounters DEF Up

LEMMA RequestsAccounted ==
    ASSUME Typed, GoalsAccounted, NEW g \in Goals,
           RequestGoal(g) \/ RequestCancel(g)
    PROVE  GoalsAccounted'
<1> USE DEF native, Up
<1> TypeOK
  BY DEF Typed
<1> closed' = closed /\ records' = records /\ spin.at = "idle"
  BY DEF RequestGoal, RequestCancel, Idle
<1>1. CASE RequestGoal(g)
  <2>1. /\ spin'.at \in {"accept", "goal_call"}
        /\ Count({"goals_requested"})
    BY <1>1 DEF RequestGoal
  <2> QED
    BY <2>1, RequestCounters, RequestsCountUp
    DEF GoalsAccounted, GoalStages, CancelStages
<1>2. CASE RequestCancel(g) /\ g \in records /\ ~default["cancel"]
  <2>1. spin'.at = "cancel_call" /\ Count({"cancel_requests"})
    BY <1>2 DEF RequestCancel
  <2> QED
    BY <2>1, RequestCounters, RequestsCountUp
    DEF GoalsAccounted, GoalStages, CancelStages
<1>3. CASE RequestCancel(g) /\ ~(g \in records /\ ~default["cancel"])
  <2>1. spin'.at = "idle" /\ Count({"cancel_requests", "cancels_rejected"})
    BY <1>3 DEF RequestCancel
  <2> QED
    BY <2>1, RequestCounters, RequestsCountUp
    DEF GoalsAccounted, GoalStages, CancelStages
<1> QED
  BY <1>1, <1>2, <1>3

LEMMA SpinnerAccounted ==
    ASSUME Typed, GoalsAccounted, GoalsInTurn, SpinnerStep
    PROVE  GoalsAccounted'
<1> USE DEF native, Up, GoalsAccounted, GoalStages, CancelStages
<1> TypeOK
  BY DEF Typed
<1>1. ASSUME NEW C, RejectGoal(C), spin.at \in {"goal_call", "goal_body"},
             C \subseteq {"exceptions"}, UNCHANGED <<closed, records>>
      PROVE  GoalsAccounted'
  <2>1. spin'.at = "idle" /\ Count(C \cup {"goals_rejected"})
    BY <1>1 DEF RejectGoal, Idle
  <2>2. C \cup {"goals_rejected"} \subseteq {"exceptions", "goals_rejected"}
    BY <1>1
  <2> QED
    BY <1>1, <2>1, <2>2, RequestCounters, RequestsCountUp
<1>2. CASE GoalCallbackGone
  BY <1>1, <1>2 DEF GoalCallbackGone
<1>3. CASE EnterGoalCallback \/ EnterCancelCallback \/ AcceptGoal
  BY <1>3 DEF EnterGoalCallback, EnterCancelCallback, AcceptGoal, Typed, ActorsOK
<1>4. CASE HandleAccepted
  <2>1. CASE closed
    BY <1>4, <2>1 DEF HandleAccepted
  <2>2. CASE ~closed
    <3>1. /\ spin.at = "accepted" /\ spin'.at = "idle" /\ spin.goal \notin records
          /\ closed' = closed /\ records' = records \cup {spin.goal}
          /\ Count({"goals_accepted"})
      BY <1>4, <2>2 DEF HandleAccepted, Idle, GoalsInTurn
    <3>2. /\ Cardinality(records') = Cardinality(records) + 1
          /\ Cardinality(records) \in Nat
      BY <3>1, GoalsAreFinite, FS_AddElement DEF TypeOK
    <3> QED
      BY <3>1, <3>2, RequestCounters, RequestsCountUp
  <2> QED
    BY <2>1, <2>2
<1>5. ASSUME NEW C, Count(C), "cancels_rejected" \in C,
             C \subseteq {"cancels_rejected", "exceptions"},
             spin.at \in {"cancel_call", "cancel_body"}, spin' = Idle,
             UNCHANGED <<closed, records>>
      PROVE  GoalsAccounted'
  <2>1. spin'.at = "idle"
    BY <1>5 DEF Idle
  <2> QED
    BY <1>5, <2>1, RequestCounters, RequestsCountUp
<1>6. CASE CancelCallbackGone
  BY <1>5, <1>6 DEF CancelCallbackGone, EndCancel
<1>7. CASE WriteCanceling
  <2>1. /\ spin.at = "cancel_write" /\ spin'.at = "cancel"
        /\ UNCHANGED <<closed, records>> /\ Count({"cancels_accepted"})
    BY <1>7 DEF WriteCanceling, Typed, ActorsOK
  <2> QED
    BY <2>1, RequestCounters, RequestsCountUp
<1>8. CASE CancelGoal
  BY <1>8 DEF CancelGoal, EndCancel, Idle
<1>9. ASSUME NEW d \in Decisions, LeaveGoalCallback(d) PROVE GoalsAccounted'
  <2>1. CASE d = "accept"
    BY <1>9, <2>1 DEF LeaveGoalCallback, Typed, ActorsOK
  <2>2. CASE d # "accept"
    BY <1>1, <1>9, <2>2 DEF LeaveGoalCallback
  <2> QED
    BY <2>1, <2>2
<1>10. ASSUME NEW d \in Decisions, LeaveCancelCallback(d) PROVE GoalsAccounted'
  <2>1. CASE d = "accept"
    BY <1>10, <2>1 DEF LeaveCancelCallback, Typed, ActorsOK
  <2>2. CASE d # "accept"
    BY <1>5, <1>10, <2>2 DEF LeaveCancelCallback, EndCancel
  <2> QED
    BY <2>1, <2>2
<1> QED
  BY <1>2, <1>3, <1>4, <1>6, <1>7, <1>8, <1>9, <1>10 DEF SpinnerStep

LEMMA GoalsAccountedStep ==
    ASSUME Typed, GoalsAccounted, GoalsInTurn, ClosingInPhases, Next
    PROVE  GoalsAccounted'
<1> USE DEF native, Up, GoalsAccounted
<1> TypeOK
  BY DEF Typed
<1>1. ASSUME NEW g \in Goals, RequestGoal(g) \/ RequestCancel(g)
      PROVE  GoalsAccounted'
  BY <1>1, RequestsAccounted
<1>2. CASE SpinnerStep
  BY <1>2, SpinnerAccounted
<1>3. ASSUME NEW g \in Goals, Forget(g)
      PROVE  GoalsAccounted'
  <2>1. /\ records' = records \ {g} /\ g \in records /\ UNCHANGED <<spin, closed>>
        /\ Count({"forgotten"})
    BY <1>3 DEF Forget
  <2>2. /\ Cardinality(records') = Cardinality(records) - 1
        /\ Cardinality(records) \in Nat /\ Cardinality(records') \in Nat
    BY <2>1, GoalsAreFinite, FS_RemoveElement DEF TypeOK
  <2> QED
    BY <2>1, <2>2, RequestCounters, RequestsCountUp
<1>4. CASE Operate \/ RecordStatus
  <2>1. UNCHANGED <<records, spin, closed>>
    BY <1>4 DEF Operate, RecordStatus
  <2>2. \/ stats' = stats
        \/ \E C \in SUBSET {"exceptions", "succeeded", "aborted", "canceled"} : Count(C)
    BY <1>4 DEF Operate, RecordStatus, Terminal
  <2> QED
    BY <2>1, <2>2, OtherCountersGoUp
<1>5. CASE CloseSwaps
  BY <1>5 DEF CloseSwaps
<1>6. CASE \/ \E op \in Operations, g \in Goals : BeginCall(op, g)
           \/ CloseClears \/ TakeAccepted \/ Close \/ ServiceDeferredClose
  BY <1>6 DEF BeginCall, CloseClears, TakeAccepted, Close, ServiceDeferredClose
<1> QED
  BY <1>1, <1>2, <1>3, <1>4, <1>5, <1>6 DEF Next, CallStep

-----------------------------------------------------------------------------
(* Results and their counters.                                             *)

Results == {"succeeded", "aborted", "canceled"}

\* No call moved its goal, and whoever else ended one let go of its record.
Quiet ==
    /\ \A g \in Goals :
        \/ rcl'[g] = rcl[g]
        \/ rcl'[g] \notin Terminal /\ rcl[g] \notin Terminal
        \/ rcl'[g] = "canceled" /\ rcl[g] \in Active /\ g \notin records'
    /\ \A g \in records' : g \in records \/ rcl'[g] # "canceled"
    /\ records' \subseteq Goals
    /\ call' = call \/ (call.at # "record" /\ call'.at # "record")
    /\ \A r \in Results : stats'[r] = stats[r]

LEMMA EndedIsFinite ==
    ASSUME NEW r, TypeOK
    PROVE  /\ IsFiniteSet(Ended(r)) /\ Cardinality(Ended(r)) \in Nat
           /\ IsFiniteSet(Ended(r) \cap records)
           /\ Cardinality(Ended(r) \cap records) \in Nat
<1>1. Ended(r) \in SUBSET Goals /\ Ended(r) \cap records \in SUBSET Goals
  BY DEF Ended
<1> QED
  BY <1>1, GoalsAreFinite

LEMMA QuietKeepsResults ==
    ASSUME Typed, ResultsOwed, Quiet
    PROVE  ResultsOwed'
<1>1. \A r \in Results : Owed(r)' = Owed(r) /\ stats'[r] = stats[r]
  BY DEF Quiet, Owed
<1>2. \A r \in {"succeeded", "aborted"} : Ended(r)' = Ended(r)
  BY DEF Quiet, Ended, Terminal, Active
<1>3. Cardinality(Ended("canceled")) <= Cardinality(Ended("canceled"))'
  <2>1. Ended("canceled") \subseteq Ended("canceled")'
    BY DEF Quiet, Ended, Terminal, Active
  <2>2. Ended("canceled")' \in SUBSET Goals
    BY DEF Ended
  <2> QED
    BY <2>1, <2>2, GoalsAreFinite, FS_Subset
<1>4. Cardinality(Ended("canceled") \cap records)'
        <= Cardinality(Ended("canceled") \cap records)
  <2>1. (Ended("canceled") \cap records)' \subseteq Ended("canceled") \cap records
    BY DEF Quiet, Ended, Terminal, Active
  <2> QED
    BY <2>1, EndedIsFinite, FS_Subset DEF Typed
<1>5. /\ Cardinality(Ended("canceled")) \in Nat
      /\ Cardinality(Ended("canceled"))' \in Nat
      /\ Cardinality(Ended("canceled") \cap records) \in Nat
      /\ Cardinality(Ended("canceled") \cap records)' \in Nat
      /\ stats["canceled"] \in Nat /\ Owed("canceled") \in Nat
  <2>1. /\ Ended("canceled")' \in SUBSET Goals
        /\ (Ended("canceled") \cap records)' \in SUBSET Goals
    BY DEF Ended
  <2> QED
    BY <2>1, GoalsAreFinite, EndedIsFinite DEF Typed, TypeOK, Counters, Owed
<1> QED
  BY <1>1, <1>2, <1>3, <1>4, <1>5 DEF ResultsOwed, Results

\* Counting anything else leaves the results' counters as they are.
LEMMA ResultsCountUp ==
    ASSUME TypeOK, NEW C, Count(C)
    PROVE  \A r \in Results : /\ stats[r] \in Nat
                              /\ stats'[r] = stats[r] + (IF r \in C THEN 1 ELSE 0)
<1>1. \A c \in Counters : stats'[c] = stats[c] + (IF c \in C THEN 1 ELSE 0)
  BY CountProperties
<1> QED
  BY <1>1 DEF TypeOK, Counters, Results

LEMMA ResultsStay ==
    ASSUME TypeOK, NEW C, Count(C), C \cap Results = {}
    PROVE  \A r \in Results : stats'[r] = stats[r]
BY ResultsCountUp

LEMMA SpinnerIsQuiet ==
    ASSUME Typed, GoalsInTurn, ClosingInPhases, SpinnerStep
    PROVE  Quiet
<1> USE DEF facade, native, history
<1> TypeOK
  BY DEF Typed
<1> TypeOK'
  BY SpinnerTypeStep DEF Typed
<1> call' = call
  BY DEF SpinnerStep, GoalCallbackGone, EnterGoalCallback, AcceptGoal, HandleAccepted,
     CancelCallbackGone, EnterCancelCallback, WriteCanceling, CancelGoal,
     LeaveGoalCallback, LeaveCancelCallback
<1>1. ASSUME NEW C, RejectGoal(C), C \subseteq {"exceptions"}, records' = records,
             spin.at \in {"goal_call", "goal_body"}
      PROVE  Quiet
  <2>1. /\ rcl' = [rcl EXCEPT ![spin.goal] = "rejected"]
        /\ Count(C \cup {"goals_rejected"})
    BY <1>1 DEF RejectGoal
  <2>2. rcl[spin.goal] = "none"
    BY <1>1 DEF GoalsInTurn, GoalStages
  <2>3. \A r \in Results : stats'[r] = stats[r]
    BY <1>1, <2>1, ResultsStay DEF Results
  <2> QED
    BY <1>1, <2>1, <2>2, <2>3 DEF Quiet, TypeOK, Terminal
<1>2. CASE GoalCallbackGone
  BY <1>1, <1>2 DEF GoalCallbackGone
<1>3. CASE EnterGoalCallback \/ EnterCancelCallback
  BY <1>3 DEF EnterGoalCallback, EnterCancelCallback, Quiet, TypeOK
<1>4. CASE AcceptGoal
  <2>1. /\ rcl' = [rcl EXCEPT ![spin.goal] = "accepted"] /\ rcl[spin.goal] = "none"
        /\ UNCHANGED <<records, stats>>
    BY <1>4 DEF AcceptGoal, GoalsInTurn, GoalStages
  <2> QED
    BY <2>1 DEF Quiet, TypeOK, Terminal
<1>5. CASE HandleAccepted
  <2>1. /\ spin.goal \in Goals /\ rcl[spin.goal] = "accepted"
        /\ spin.goal \notin records
    BY <1>5, SpinGoal DEF HandleAccepted, GoalsInTurn, GoalStages
  <2>2. CASE closed
    <3>1. UNCHANGED <<records, stats>> /\ rcl' = Abandon({spin.goal}, rcl)
      BY <1>5, <2>2 DEF HandleAccepted
    <3>2. \A g \in Goals : \/ rcl'[g] = rcl[g]
                           \/ /\ rcl'[g] = "canceled" /\ rcl[g] \in Active
                              /\ g \notin records'
      <4>1. \A g \in Goals : rcl'[g] =
              IF g \in {spin.goal} /\ rcl[g] \in Active THEN "canceled" ELSE rcl[g]
        <5>1. rcl \in [Goals -> RclStates]
          BY DEF TypeOK
        <5> QED
          BY <3>1, <5>1, AbandonProperties
      <4> QED
        BY <2>1, <3>1, <4>1
    <3> QED
      BY <3>1, <3>2 DEF Quiet, TypeOK
  <2>3. CASE ~closed
    <3>1. /\ rcl' = rcl /\ records' = records \cup {spin.goal}
          /\ Count({"goals_accepted"})
      BY <1>5, <2>3 DEF HandleAccepted
    <3>2. \A r \in Results : stats'[r] = stats[r]
      BY <3>1, ResultsStay DEF Results
    <3> QED
      BY <2>1, <3>1, <3>2 DEF Quiet, TypeOK
  <2> QED
    BY <2>2, <2>3
<1>6. ASSUME NEW states \in [Goals -> RclStates], EndCancel(states), records' = records,
             \A g \in Goals : \/ states[g] = rcl[g]
                              \/ states[g] \in Active /\ rcl[g] \in Active,
             \A r \in Results : stats'[r] = stats[r]
      PROVE  Quiet
  <2>1. \A g \in Goals :
          \/ rcl'[g] = states[g]
          \/ states[g] \in Active /\ rcl'[g] = "canceled" /\ g \notin records'
    BY <1>6, EndCancelProperties
  <2> QED
    BY <1>6, <2>1 DEF Quiet, TypeOK, Terminal, Active
<1>7. ASSUME NEW C, Count(C), C \subseteq {"cancels_rejected", "exceptions"},
             EndCancel(rcl), records' = records
      PROVE  Quiet
  <2>1. \A r \in Results : stats'[r] = stats[r]
    BY <1>7, ResultsStay DEF Results
  <2> QED
    BY <1>6, <1>7, <2>1 DEF TypeOK
<1>8. CASE CancelCallbackGone
  BY <1>7, <1>8 DEF CancelCallbackGone
<1>9. CASE WriteCanceling
  <2>1. /\ UNCHANGED <<rcl, records>> /\ Count({"cancels_accepted"})
    BY <1>9 DEF WriteCanceling
  <2>2. \A r \in Results : stats'[r] = stats[r]
    BY <2>1, ResultsStay DEF Results
  <2> QED
    BY <2>1, <2>2 DEF Quiet, TypeOK
<1>10. CASE CancelGoal
  <2> DEFINE states == IF rcl[spin.goal] \in {"accepted", "executing"}
                       THEN [rcl EXCEPT ![spin.goal] = "canceling"] ELSE rcl
  <2>1. /\ states \in [Goals -> RclStates] /\ EndCancel(states)
        /\ \A g \in Goals : \/ states[g] = rcl[g]
                            \/ states[g] \in Active /\ rcl[g] \in Active
    BY <1>10 DEF CancelGoal, RclStates, Active, TypeOK
  <2> HIDE DEF states
  <2> QED
    BY <1>6, <1>10, <2>1 DEF CancelGoal
<1>11. ASSUME NEW d \in Decisions, LeaveGoalCallback(d) PROVE Quiet
  <2>1. CASE d = "accept"
    BY <1>11, <2>1 DEF LeaveGoalCallback, Quiet, TypeOK
  <2>2. CASE d # "accept"
    BY <1>1, <1>11, <2>2 DEF LeaveGoalCallback
  <2> QED
    BY <2>1, <2>2
<1>12. ASSUME NEW d \in Decisions, LeaveCancelCallback(d) PROVE Quiet
  <2>1. CASE d = "accept"
    BY <1>12, <2>1 DEF LeaveCancelCallback, Quiet, TypeOK
  <2>2. CASE d # "accept"
    BY <1>7, <1>12, <2>2 DEF LeaveCancelCallback
  <2> QED
    BY <2>1, <2>2
<1> QED
  BY <1>2, <1>3, <1>4, <1>5, <1>8, <1>9, <1>10, <1>11, <1>12 DEF SpinnerStep

\* The handle's method moves the goal: its counter is owed one.
LEMMA OperateOwes ==
    ASSUME Typed, ResultsOwed, Operate
    PROVE  ResultsOwed'
<1> DEFINE g == call.goal
           r0 == Recorded[call.op]
<1> TypeOK
  BY DEF Typed
<1>1. /\ call.at = "operate" /\ call.op \in Operations
      /\ g \in records /\ g \in Goals /\ records' = records
      /\ r0 \in {"executing", "succeeded", "aborted", "canceled"}
      /\ Owed("succeeded") = 0 /\ Owed("aborted") = 0 /\ Owed("canceled") = 0
  BY DEF Operate, Typed, TypeOK, ActorsOK, NoCall, Closing, Operations, Recorded, Owed
<1>2. CASE ~Allowed(call.op, rcl[g])
  <2>1. rcl' = rcl /\ call' = NoCall /\ Count({"exceptions"})
    BY <1>2 DEF Operate
  <2>2. \A r \in Results : stats'[r] = stats[r]
    BY <2>1, ResultsStay DEF Results
  <2>3. Quiet
    BY <1>1, <2>1, <2>2 DEF Quiet, NoCall, TypeOK
  <2> QED
    BY <2>3, QuietKeepsResults
<1>3. CASE Allowed(call.op, rcl[g])
  <2>1. /\ rcl' = [rcl EXCEPT ![g] = r0] /\ call'.at = "record" /\ call'.op = call.op
        /\ stats' = stats
    BY <1>3 DEF Operate, Typed, ActorsOK
  <2>2. rcl[g] \notin Terminal
    BY <1>1, <1>3 DEF Allowed, Terminal
  <2>3. \A r \in Results : Owed(r)' = IF r = r0 THEN 1 ELSE 0
    BY <2>1 DEF Owed
  <2> HIDE DEF g, r0
  <2>4. ASSUME NEW r \in Results
        PROVE  /\ Ended(r)' = IF r = r0 THEN Ended(r) \cup {g} ELSE Ended(r)
               /\ g \notin Ended(r)
    BY <1>1, <2>1, <2>2 DEF Ended, Results, Terminal, TypeOK
  <2>5. ASSUME NEW r \in Results
        PROVE  /\ Cardinality(Ended(r))' = Cardinality(Ended(r)) + Owed(r)'
               /\ Cardinality(Ended(r) \cap records)'
                    = Cardinality(Ended(r) \cap records) + Owed(r)'
    <3>1. CASE r = r0
      <4>1. /\ Ended(r)' = Ended(r) \cup {g} /\ g \notin Ended(r)
            /\ (Ended(r) \cap records)' = (Ended(r) \cap records) \cup {g}
        BY <1>1, <2>4, <3>1
      <4> QED
        BY <2>3, <3>1, <4>1, EndedIsFinite, FS_AddElement
    <3>2. CASE r # r0
      <4>1. Ended(r)' = Ended(r) /\ (Ended(r) \cap records)' = Ended(r) \cap records
        BY <1>1, <2>4, <3>2
      <4> QED
        <5>1. Owed(r)' = 0
          BY <2>3, <3>2
        <5>2. /\ Cardinality(Ended(r)) \in Nat
              /\ Cardinality(Ended(r) \cap records) \in Nat
          BY EndedIsFinite
        <5> QED
          BY <4>1, <5>1, <5>2
    <3> QED
      BY <3>1, <3>2
  <2>6. /\ stats["canceled"] \in Nat /\ stats["succeeded"] \in Nat
        /\ stats["aborted"] \in Nat
    BY DEF TypeOK, Counters
  <2>7. \A r \in Results : Owed(r)' \in {0, 1}
    BY <2>3
  <2>8. /\ Cardinality(Ended("canceled")) \in Nat
        /\ Cardinality(Ended("canceled") \cap records) \in Nat
    BY EndedIsFinite
  <2> QED
    BY <1>1, <2>1, <2>5, <2>6, <2>7, <2>8 DEF ResultsOwed, Results
<1> QED
  BY <1>2, <1>3

\* The record is written and the debt is paid.
LEMMA RecordPays ==
    ASSUME Typed, ResultsOwed, RecordStatus
    PROVE  ResultsOwed'
<1> DEFINE r0 == Recorded[call.op]
<1> TypeOK
  BY DEF Typed
<1>1. /\ call.at = "record" /\ UNCHANGED <<rcl, records>>
      /\ Count({r0} \cap Terminal) /\ call'.at = "none"
  BY DEF RecordStatus, NoCall
<1>2. \A r \in Results : /\ stats[r] \in Nat
                         /\ stats'[r] = stats[r] + (IF r = r0 THEN 1 ELSE 0)
  BY <1>1, ResultsCountUp DEF Results, Terminal
<1>3. \A r \in Results : Owed(r) = (IF r = r0 THEN 1 ELSE 0) /\ Owed(r)' = 0
  BY <1>1 DEF Owed
<1>4. \A r : Ended(r)' = Ended(r)
  BY <1>1 DEF Ended
<1> HIDE DEF r0
<1>5. \A r \in Results : stats'[r] + Owed(r)' = stats[r] + Owed(r)
  BY <1>2, <1>3
<1> QED
  BY <1>1, <1>4, <1>5 DEF ResultsOwed, Results

LEMMA ResultsOwedStep ==
    ASSUME Typed, ResultsOwed, GoalsInTurn, ClosingInPhases, Next
    PROVE  ResultsOwed'
<1> USE DEF facade, native, history
<1> TypeOK
  BY DEF Typed
<1>1. ASSUME NEW g \in Goals, RequestGoal(g) \/ RequestCancel(g)
      PROVE  ResultsOwed'
  <2>1. /\ UNCHANGED <<rcl, records, call>>
        /\ \E C : Count(C) /\ C \cap Results = {}
    BY <1>1 DEF RequestGoal, RequestCancel, Results
  <2>2. \A r \in Results : stats'[r] = stats[r]
    BY <2>1, ResultsStay
  <2>3. Quiet
    BY <2>1, <2>2 DEF Quiet, TypeOK
  <2> QED
    BY <2>3, QuietKeepsResults
<1>2. CASE SpinnerStep
  BY <1>2, SpinnerIsQuiet, QuietKeepsResults
<1>3. ASSUME NEW op \in Operations, NEW g \in Goals, BeginCall(op, g)
      PROVE  ResultsOwed'
  <2>1. Quiet
    BY <1>3 DEF BeginCall, PythonRuns, NoCall, Quiet, TypeOK
  <2> QED
    BY <2>1, QuietKeepsResults
<1>4. ASSUME NEW g \in Goals, Forget(g)
      PROVE  ResultsOwed'
  <2>1. /\ records' = records \ {g} /\ call' = call /\ Count({"forgotten"})
        /\ rcl' = rcl \/ rcl' = Abandon({g}, rcl)
    BY <1>4 DEF Forget
  <2>2. \A r \in Results : stats'[r] = stats[r]
    BY <2>1, ResultsStay DEF Results
  <2>3. \A h \in Goals : \/ rcl'[h] = rcl[h]
                         \/ /\ rcl'[h] = "canceled" /\ rcl[h] \in Active
                            /\ h \notin records'
    BY <2>1, AbandonProperties DEF TypeOK
  <2>4. Quiet
    BY <2>1, <2>2, <2>3 DEF Quiet, TypeOK
  <2> QED
    BY <2>4, QuietKeepsResults
<1>5. CASE Operate
  BY <1>5, OperateOwes
<1>6. CASE RecordStatus
  BY <1>6, RecordPays
<1>7. CASE CloseSwaps
  <2>1. Quiet
    BY <1>7 DEF CloseSwaps, PythonRuns, NoCall, Closing, Quiet
  <2> QED
    BY <2>1, QuietKeepsResults
<1>8. CASE CloseClears
  <2>1. /\ call.at = "clear" /\ call'.at = "none" /\ UNCHANGED <<records, stats>>
        /\ rcl' = Abandon({g \in swapped : ~SpinHolds(g)}, rcl) /\ records = {}
    BY <1>8 DEF CloseClears, NoCall, Closing, ClosingInPhases
  <2>2. \A h \in Goals : \/ rcl'[h] = rcl[h]
                         \/ /\ rcl'[h] = "canceled" /\ rcl[h] \in Active
                            /\ h \notin records'
    BY <2>1, AbandonProperties DEF TypeOK
  <2>3. Quiet
    BY <2>1, <2>2 DEF Quiet, TypeOK
  <2> QED
    BY <2>3, QuietKeepsResults
<1>9. CASE TakeAccepted \/ Close \/ ServiceDeferredClose
  <2>1. Quiet
    BY <1>9 DEF TakeAccepted, Close, ServiceDeferredClose, Quiet, TypeOK
  <2> QED
    BY <2>1, QuietKeepsResults
<1> QED
  BY <1>1, <1>2, <1>3, <1>4, <1>5, <1>6, <1>7, <1>8, <1>9 DEF Next, CallStep

-----------------------------------------------------------------------------
(* What the records tell.                                                  *)

LEMMA RequestsLeaveRecords ==
    ASSUME Typed, RecordsTell, NEW h \in Goals, RequestGoal(h) \/ RequestCancel(h)
    PROVE  RecordsTell'
<1> USE DEF native, history
<1>1. /\ UNCHANGED <<rcl, status, records, call>> /\ spin.at = "idle"
      /\ overtaken \subseteq overtaken'
  BY DEF RequestGoal, RequestCancel, Idle
<1>2. \A g \in records \ overtaken :
        /\ call.goal = g /\ call.at = "record" => rcl[g] = Recorded[call.op]
        /\ ~(call.goal = g /\ call.at = "record") => status[g] = rcl[g]
  BY <1>1 DEF RecordsTell, Undisturbed
<1>3. CASE RequestGoal(h)
  <2>1. spin'.at \in {"accept", "goal_call"}
    BY <1>3 DEF RequestGoal
  <2> QED
    BY <1>1, <1>2, <2>1 DEF RecordsTell, Undisturbed, CancelStages
<1>4. CASE RequestCancel(h) /\ h \in records /\ ~default["cancel"]
  <2>1. /\ spin'.at = "cancel_call" /\ spin'.goal = h
        /\ rcl[h] \in {"accepted", "executing"}
        /\ CallHolds(h) => h \in overtaken'
    BY <1>4 DEF RequestCancel
  <2>2. \A g \in records \ overtaken' : g = h => call.goal # g
    BY <2>1 DEF CallHolds
  <2> QED
    BY <1>1, <1>2, <2>1, <2>2 DEF RecordsTell, Undisturbed
<1>5. CASE RequestCancel(h) /\ ~(h \in records /\ ~default["cancel"])
  <2>1. spin'.at = "idle"
    BY <1>1, <1>5 DEF RequestCancel
  <2> QED
    BY <1>1, <1>2, <2>1 DEF RecordsTell, Undisturbed, CancelStages
<1> QED
  BY <1>3, <1>4, <1>5

LEMMA SpinnerKeepsRecords ==
    ASSUME Typed, RecordsTell, GoalsInTurn, SpinnerStep
    PROVE  RecordsTell'
<1> USE DEF native, history
<1> TypeOK
  BY DEF Typed
<1>1. call' = call /\ overtaken' = overtaken
  BY DEF SpinnerStep, GoalCallbackGone, EnterGoalCallback, AcceptGoal, HandleAccepted,
     CancelCallbackGone, EnterCancelCallback, WriteCanceling, CancelGoal,
     LeaveGoalCallback, LeaveCancelCallback
\* The goal in the hands of handle_goal has no record.
<1>2. ASSUME spin.at \in GoalStages, records' = records, status' = status,
             \A g \in Goals : g # spin.goal => rcl'[g] = rcl[g],
             spin' = Idle \/ spin'.at \in GoalStages
      PROVE  RecordsTell'
  <2>1. /\ spin.goal \notin records
        /\ spin.at \notin CancelStages /\ spin'.at \notin CancelStages
    BY <1>2 DEF GoalsInTurn, GoalStages, CancelStages, Idle
  <2>2. spin.at # "cancel" /\ spin'.at # "cancel"
    BY <2>1 DEF CancelStages
  <2> QED
    BY <1>1, <1>2, <2>1, <2>2 DEF RecordsTell, Undisturbed, TypeOK
<1>3. CASE GoalCallbackGone
  <2>1. /\ rcl' = [rcl EXCEPT ![spin.goal] = "rejected"] /\ spin' = Idle
        /\ spin.at \in GoalStages /\ UNCHANGED <<records, status>>
    BY <1>3, RejectGoalProperties DEF GoalCallbackGone, GoalStages
  <2> QED
    BY <1>2, <2>1 DEF TypeOK
<1>4. CASE EnterGoalCallback \/ AcceptGoal
  <2>1. /\ spin.at \in GoalStages /\ spin'.at \in GoalStages
        /\ UNCHANGED <<records, status>>
        /\ rcl' = rcl \/ rcl' = [rcl EXCEPT ![spin.goal] = "accepted"]
    BY <1>4 DEF EnterGoalCallback, AcceptGoal, GoalStages, Typed, ActorsOK
  <2> QED
    BY <1>2, <2>1 DEF TypeOK
<1>5. ASSUME NEW d \in Decisions, LeaveGoalCallback(d) PROVE RecordsTell'
  <2>1. spin.at \in GoalStages /\ UNCHANGED <<records, status>>
    BY <1>5 DEF LeaveGoalCallback, GoalStages
  <2>2. CASE d = "accept"
    <3>1. spin'.at \in GoalStages /\ rcl' = rcl
      BY <1>5, <2>2 DEF LeaveGoalCallback, GoalStages, Typed, ActorsOK
    <3> QED
      BY <1>2, <2>1, <3>1
  <2>3. CASE d # "accept"
    <3>1. rcl' = [rcl EXCEPT ![spin.goal] = "rejected"] /\ spin' = Idle
      BY <1>5, <2>3, RejectGoalProperties DEF LeaveGoalCallback
    <3> QED
      BY <1>2, <2>1, <3>1 DEF TypeOK
  <2> QED
    BY <2>2, <2>3
<1>6. CASE HandleAccepted
  <2>1. /\ spin.at = "accepted" /\ spin.goal \in Goals /\ spin' = Idle
        /\ rcl[spin.goal] = "accepted" /\ spin.goal \notin records
    BY <1>6, SpinGoal DEF HandleAccepted, GoalsInTurn, GoalStages
  <2>2. CASE closed
    <3>1. /\ rcl' = Abandon({spin.goal}, rcl) /\ UNCHANGED <<records, status>>
          /\ rcl \in [Goals -> RclStates]
      BY <1>6, <2>2 DEF HandleAccepted, TypeOK
    <3>2. \A g \in Goals : g # spin.goal => rcl'[g] = rcl[g]
      BY <3>1, AbandonProperties
    <3> QED
      BY <1>2, <2>1, <3>1, <3>2 DEF GoalStages
  <2>3. CASE ~closed
    <3>1. /\ rcl' = rcl /\ records' = records \cup {spin.goal}
          /\ status' = [status EXCEPT ![spin.goal] = "accepted"]
      BY <1>6, <2>3 DEF HandleAccepted
    <3>2. call.goal # spin.goal
      BY <2>1 DEF TypeOK, NoCall, Closing, NoGoal, Goals
    <3>3. spin'.at = "idle"
      BY <2>1 DEF Idle
    <3>4. status'[spin.goal] = "accepted"
          /\ \A g \in records : status'[g] = status[g]
      BY <2>1, <3>1 DEF TypeOK
    <3> QED
      BY <1>1, <2>1, <3>1, <3>2, <3>3, <3>4
      DEF RecordsTell, Undisturbed, CancelStages
  <2> QED
    BY <2>2, <2>3
<1>7. CASE EnterCancelCallback
  BY <1>1, <1>7
  DEF EnterCancelCallback, RecordsTell, Undisturbed, CancelStages, Typed, ActorsOK
\* handle_cancel ends, with the state the record shows.
<1>8. ASSUME NEW states \in [Goals -> RclStates], EndCancel(states),
             spin.at \in CancelStages, records' = records, status' = status,
             \A g \in Goals : g # spin.goal => states[g] = rcl[g],
             spin.goal \in records \ overtaken => states[spin.goal] = status[spin.goal]
      PROVE  RecordsTell'
  <2>1. spin'.at = "idle" /\ \A g \in records : rcl'[g] = states[g]
    BY <1>8, EndCancelProperties DEF TypeOK, Idle
  <2>2. \A g \in records \ overtaken : g = spin.goal => call.goal # g
    BY <1>8 DEF RecordsTell, Undisturbed
  <2> QED
    BY <1>1, <1>8, <2>1, <2>2 DEF RecordsTell, Undisturbed, CancelStages, TypeOK
<1>9. CASE CancelCallbackGone
  <2>1. /\ EndCancel(rcl) /\ rcl \in [Goals -> RclStates] /\ spin.at = "cancel_call"
        /\ UNCHANGED <<records, status>>
    BY <1>9 DEF CancelCallbackGone, TypeOK
  <2>2. spin.goal \in records \ overtaken => rcl[spin.goal] = status[spin.goal]
    BY <2>1 DEF RecordsTell, Undisturbed, CancelStages
  <2> QED
    BY <1>8, <2>1, <2>2 DEF CancelStages
<1>10. CASE WriteCanceling
  <2>1. /\ spin.at = "cancel_write" /\ spin'.at = "cancel" /\ spin'.goal = spin.goal
        /\ UNCHANGED <<records, rcl>>
        /\ spin.goal \in records =>
             status' = [status EXCEPT ![spin.goal] = "canceling"]
        /\ spin.goal \notin records => status' = status
    BY <1>10 DEF WriteCanceling, Typed, ActorsOK
  <2>2. \A g \in records :
          status'[g] = IF g = spin.goal THEN "canceling" ELSE status[g]
    BY <2>1 DEF TypeOK
  <2> QED
    BY <1>1, <2>1, <2>2 DEF RecordsTell, Undisturbed, CancelStages
<1>11. CASE CancelGoal
  <2> DEFINE states == IF rcl[spin.goal] \in {"accepted", "executing"}
                       THEN [rcl EXCEPT ![spin.goal] = "canceling"] ELSE rcl
  <2>1. /\ states \in [Goals -> RclStates] /\ EndCancel(states)
        /\ \A g \in Goals : g # spin.goal => states[g] = rcl[g]
        /\ spin.at = "cancel" /\ UNCHANGED <<records, status>>
    BY <1>11 DEF CancelGoal, RclStates, Active, TypeOK
  <2>2. ASSUME spin.goal \in records \ overtaken
        PROVE  states[spin.goal] = status[spin.goal]
    <3>1. /\ rcl[spin.goal] \in {"accepted", "executing"}
          /\ status[spin.goal] = "canceling"
      BY <2>1, <2>2 DEF RecordsTell, Undisturbed, CancelStages
    <3> QED
      BY <2>2, <3>1 DEF TypeOK
  <2> HIDE DEF states
  <2> QED
    BY <1>8, <2>1, <2>2 DEF CancelStages
<1>12. ASSUME NEW d \in Decisions, LeaveCancelCallback(d) PROVE RecordsTell'
  <2>1. /\ spin.at = "cancel_body" /\ UNCHANGED <<records, status>>
        /\ rcl \in [Goals -> RclStates]
    BY <1>12 DEF LeaveCancelCallback, TypeOK
  <2>2. CASE d = "accept"
    BY <1>1, <1>12, <2>1, <2>2
    DEF LeaveCancelCallback, RecordsTell, Undisturbed, CancelStages, Typed, ActorsOK
  <2>3. CASE d # "accept"
    <3>1. EndCancel(rcl)
      BY <1>12, <2>3 DEF LeaveCancelCallback
    <3>2. spin.goal \in records \ overtaken => rcl[spin.goal] = status[spin.goal]
      BY <2>1 DEF RecordsTell, Undisturbed, CancelStages
    <3> QED
      BY <1>8, <2>1, <3>1, <3>2 DEF CancelStages
  <2> QED
    BY <2>2, <2>3
<1> QED
  BY <1>3, <1>4, <1>5, <1>6, <1>7, <1>9, <1>10, <1>11, <1>12 DEF SpinnerStep

LEMMA RecordsTellStep ==
    ASSUME Typed, RecordsTell, GoalsInTurn, ClosingInPhases, Next
    PROVE  RecordsTell'
<1> USE DEF native, history
<1> TypeOK
  BY DEF Typed
<1>1. ASSUME NEW g \in Goals, RequestGoal(g) \/ RequestCancel(g)
      PROVE  RecordsTell'
  BY <1>1, RequestsLeaveRecords
<1>2. CASE SpinnerStep
  BY <1>2, SpinnerKeepsRecords
<1>3. ASSUME NEW op \in Operations, NEW h \in Goals, BeginCall(op, h)
      PROVE  RecordsTell'
  <2>1. /\ UNCHANGED <<rcl, status, records, spin>>
        /\ call.at = "none" /\ call'.at = "operate" /\ call'.goal = h
        /\ overtaken \subseteq overtaken' /\ (SpinHolds(h) => h \in overtaken')
    BY <1>3 DEF BeginCall, PythonRuns, NoCall
  <2> QED
    BY <2>1 DEF RecordsTell, Undisturbed, SpinHolds
<1>4. CASE Operate
  <2>1. /\ UNCHANGED <<status, records, spin, overtaken>> /\ call.at = "operate"
        /\ call.goal \in records
    BY <1>4 DEF Operate, TypeOK, NoCall, Closing
  <2>2. CASE Allowed(call.op, rcl[call.goal])
    <3>1. /\ rcl' = [rcl EXCEPT ![call.goal] = Recorded[call.op]]
          /\ call'.at = "record" /\ call'.op = call.op /\ call'.goal = call.goal
      BY <1>4, <2>2 DEF Operate, Typed, ActorsOK
    <3>2. \A g \in records : rcl'[g] = IF g = call.goal THEN Recorded[call.op]
                                       ELSE rcl[g]
      BY <3>1 DEF TypeOK
    <3> QED
      BY <2>1, <3>1, <3>2 DEF RecordsTell, Undisturbed, CancelStages
  <2>3. CASE ~Allowed(call.op, rcl[call.goal])
    <3>1. rcl' = rcl /\ call'.at = "none" /\ call'.goal = NoGoal
      BY <1>4, <2>3 DEF Operate, NoCall
    <3>2. \A g \in records : g # NoGoal
      BY DEF TypeOK, Goals, NoGoal
    <3> QED
      BY <2>1, <3>1, <3>2 DEF RecordsTell, Undisturbed
  <2> QED
    BY <2>2, <2>3
<1>5. CASE RecordStatus
  <2>1. /\ UNCHANGED <<rcl, records, spin, overtaken>> /\ call.at = "record"
        /\ status' = [status EXCEPT ![call.goal] = Recorded[call.op]]
        /\ call'.at = "none" /\ call'.goal = NoGoal
    BY <1>5 DEF RecordStatus, NoCall
  <2>2. \A g \in records : /\ g # NoGoal
                           /\ status'[g] = IF g = call.goal THEN Recorded[call.op]
                                           ELSE status[g]
    BY <2>1 DEF TypeOK, Goals, NoGoal
  <2>3. /\ rcl' = rcl /\ records' = records /\ spin' = spin /\ overtaken' = overtaken
        /\ call.at = "record" /\ call'.at = "none" /\ call'.goal = NoGoal
    BY <2>1
  <2>4. ASSUME NEW g \in records \ overtaken
        PROVE  Undisturbed(g)'
    <3>1. Undisturbed(g) /\ g # NoGoal
      BY <2>2 DEF RecordsTell
    <3>2. status'[g] = IF g = call.goal THEN Recorded[call.op] ELSE status[g]
      BY <2>2
    <3>3. "cancel" \in CancelStages
      BY DEF CancelStages
    <3>4. CASE g = call.goal
      BY <2>3, <3>1, <3>2, <3>3, <3>4 DEF Undisturbed
    <3>5. CASE g # call.goal
      BY <2>3, <3>1, <3>2, <3>3, <3>5 DEF Undisturbed
    <3> QED
      BY <3>4, <3>5
  <2> QED
    BY <2>3, <2>4 DEF RecordsTell
<1>6. ASSUME NEW h \in Goals, Forget(h)
      PROVE  RecordsTell'
  <2>1. /\ UNCHANGED <<spin, call, overtaken>> /\ records' = records \ {h}
        /\ status' = [status EXCEPT ![h] = "none"]
        /\ rcl' = rcl \/ rcl' = Abandon({h}, rcl)
        /\ rcl \in [Goals -> RclStates]
    BY <1>6 DEF Forget, TypeOK
  <2>2. \A g \in records' : g \in records /\ status'[g] = status[g] /\ rcl'[g] = rcl[g]
    BY <2>1, AbandonProperties DEF TypeOK
  <2>3. spin' = spin /\ call' = call /\ overtaken' = overtaken
    BY <2>1
  <2>4. ASSUME NEW g \in records' \ overtaken'
        PROVE  Undisturbed(g)'
    <3>1. Undisturbed(g) /\ status'[g] = status[g] /\ rcl'[g] = rcl[g]
      BY <2>2, <2>3, <2>4 DEF RecordsTell
    <3> QED
      BY <2>3, <3>1 DEF Undisturbed
  <2> QED
    BY <2>4 DEF RecordsTell
<1>7. CASE CloseSwaps \/ CloseClears
  <2>1. records' = {}
    BY <1>7 DEF CloseSwaps, CloseClears, ClosingInPhases
  <2> QED
    BY <2>1 DEF RecordsTell
<1>8. CASE TakeAccepted \/ Close \/ ServiceDeferredClose
  BY <1>8 DEF TakeAccepted, Close, ServiceDeferredClose, RecordsTell, Undisturbed
<1> QED
  BY <1>1, <1>2, <1>3, <1>4, <1>5, <1>6, <1>7, <1>8 DEF Next, CallStep

-----------------------------------------------------------------------------
(* The theorems.                                                           *)

LEMMA InitServerIInv == Init => ServerIInv
<1> SUFFICES ASSUME Init PROVE ServerIInv
  OBVIOUS
<1>1. /\ spinner \in Spinners /\ default \in [{"goal", "cancel"} -> BOOLEAN]
      /\ closed = FALSE /\ serving = TRUE /\ callbacks = TRUE
      /\ close_requested = FALSE
  BY Zenon DEF Init
<1>2. /\ rcl = [g \in Goals |-> "none"] /\ status = [g \in Goals |-> "none"]
      /\ records = {} /\ accepted = <<>> /\ swapped = {} /\ spin = Idle
      /\ call = NoCall /\ depth = 0 /\ closing = "open" /\ taken = <<>>
      /\ stats = [c \in Counters |-> 0] /\ overtaken = {}
  BY DEF Init
<1>3. TypeOK
  <2>1. /\ rcl \in [Goals -> RclStates] /\ stats \in [Counters -> Nat]
        /\ status \in [Goals -> {"none"} \union Active \union Terminal]
    BY <1>2 DEF RclStates
  <2>2. /\ records \subseteq Goals /\ swapped \subseteq Goals
        /\ overtaken \subseteq Goals
        /\ accepted \in Seq(Goals) /\ taken \in Seq(Goals)
    BY <1>2
  <2>3. /\ spin = Idle /\ call \in {NoCall, Closing}
        /\ depth = IF spin.at \in Bodies THEN 1 ELSE 0
        /\ closing \in {"open", "decided", "closed"}
    BY <1>2 DEF Idle, Bodies
  <2>4. /\ spinner \in Spinners /\ default \in [{"goal", "cancel"} -> BOOLEAN]
        /\ closed \in BOOLEAN /\ serving \in BOOLEAN /\ callbacks \in BOOLEAN
        /\ close_requested \in BOOLEAN
    BY <1>1, Zenon
  <2> QED
    BY <2>1, <2>2, <2>3, <2>4, Zenon DEF TypeOK
<1>4. ActorsOK /\ ClosingInPhases
  BY <1>1, <1>2 DEF ActorsOK, ClosingInPhases, Idle, NoCall, NoGoal, Closing
<1>5. GoalsInTurn /\ ActiveIsHeld /\ RecordsTell
  BY <1>2 DEF GoalsInTurn, ActiveIsHeld, RecordsTell, Idle, GoalStages, Active
<1>6. InLine
  BY <1>2 DEF InLine
<1>7. GoalsAccounted
  BY <1>2, FS_EmptySet DEF GoalsAccounted, Idle, GoalStages, CancelStages, Counters
<1>8. ResultsOwed
  <2>1. \A r \in Results : Ended(r) = {}
    BY <1>2 DEF Ended, Results
  <2>2. Cardinality({}) = 0
    BY FS_EmptySet
  <2>3. Ended("canceled") \cap records = {}
    BY <1>2
  <2>4. \A r \in Results : stats[r] = 0 /\ Owed(r) = 0
    BY <1>2 DEF Results, Owed, NoCall, Counters
  <2> QED
    BY <2>1, <2>2, <2>3, <2>4 DEF ResultsOwed, Results
<1> QED
  BY <1>3, <1>4, <1>5, <1>6, <1>7, <1>8 DEF ServerIInv

LEMMA ServerIInvStep == ServerIInv /\ [Next]_vars => ServerIInv'
<1> SUFFICES ASSUME ServerIInv, [Next]_vars PROVE ServerIInv'
  OBVIOUS
<1>1. CASE Next
  <2>1. Typed /\ ClosingInPhases /\ GoalsInTurn /\ ActiveIsHeld /\ GoalsAccounted
        /\ ResultsOwed /\ InLine /\ RecordsTell
    BY DEF ServerIInv, Typed
  <2>2. Typed' /\ ClosingInPhases' /\ GoalsInTurn' /\ ActiveIsHeld'
    BY <1>1, <2>1, ServerTypeStep, PhasesStep, GoalsInTurnStep, ActiveIsHeldStep
  <2>3. GoalsAccounted' /\ ResultsOwed' /\ InLine' /\ RecordsTell'
    BY <1>1, <2>1, GoalsAccountedStep, ResultsOwedStep, InLineStep, RecordsTellStep
  <2> QED
    BY <2>2, <2>3 DEF ServerIInv, Typed
<1>2. CASE UNCHANGED vars
  BY <1>2 DEF vars, native, facade, history, ServerIInv, TypeOK, ActorsOK,
     ClosingInPhases, GoalsInTurn, ActiveIsHeld, SpinHolds, GoalsAccounted,
     ResultsOwed, Ended, Owed, InLine, RecordsTell, Undisturbed
<1> QED
  BY <1>1, <1>2

LEMMA InductiveServerIInv == Spec => []ServerIInv
BY InitServerIInv, ServerIInvStep, PTL DEF Spec

\* Every variable has its type, and a facade inside a callback knows it is.
THEOREM ServerTypeCorrect == Spec => []TypeOK
<1>1. ServerIInv => TypeOK
  BY DEF ServerIInv
<1> QED
  BY <1>1, InductiveServerIInv, PTL

\* Every request and result is in the books once, whichever calls, cancels,
\* refusals and closes interleave, and goals are taken once and in order.
THEOREM ServerBooksBalance == Spec => []BooksBalance
<1>1. ServerIInv => BooksBalance
  <2> SUFFICES ASSUME ServerIInv PROVE BooksBalance
    OBVIOUS
  <2>1. GoalsAccounted
    BY DEF ServerIInv
  <2>2. ResultsCounted
    <3> SUFFICES ASSUME call = NoCall
                 PROVE  /\ \A r \in {"succeeded", "aborted"} :
                              stats[r] = Cardinality(Ended(r))
                        /\ stats["canceled"] <= Cardinality(Ended("canceled"))
                        /\ stats["canceled"] >= Cardinality(Ended("canceled") \cap records)
      <4>1. {g \in records : rcl[g] = "canceled"} = Ended("canceled") \cap records
        BY DEF Ended, ServerIInv, TypeOK
      <4> QED
        BY <4>1 DEF ResultsCounted, Ended
    <3>1. \A r \in Results : Owed(r) = 0 /\ stats[r] \in Nat
      BY DEF Owed, NoCall, Results, ServerIInv, TypeOK, Counters
    <3>2. Cardinality(Ended("canceled") \cap records) \in Nat
      BY EndedIsFinite DEF ServerIInv
    <3> QED
      BY <3>1, <3>2 DEF ServerIInv, ResultsOwed, Results
  <2>3. TakenInOrder
    <3> DEFINE all == taken \o accepted
    <3>1. /\ taken \in Seq(Goals) /\ accepted \in Seq(Goals)
          /\ Len(taken) \in Nat /\ Len(accepted) \in Nat
      BY DEF ServerIInv, TypeOK
    <3>2. /\ Len(all) = Len(taken) + Len(accepted)
          /\ \A i \in 1 .. Len(taken) + Len(accepted) :
               all[i] = IF i <= Len(taken) THEN taken[i] ELSE accepted[i - Len(taken)]
      BY <3>1, ConcatProperties
    <3>3. ASSUME NEW i \in 1 .. Len(all), NEW j \in 1 .. Len(all), i < j
          PROVE  all[i] < all[j]
      <4> HIDE DEF all
      <4>1. InLine
        BY DEF ServerIInv
      <4>2. CASE j <= Len(taken)
        BY <3>1, <3>2, <3>3, <4>1, <4>2 DEF InLine
      <4>3. CASE i <= Len(taken) /\ ~(j <= Len(taken))
        <5>1. i \in 1 .. Len(taken) /\ j - Len(taken) \in 1 .. Len(accepted)
          BY <3>1, <3>2, <4>3
        <5> QED
          BY <3>2, <4>1, <4>3, <5>1 DEF InLine
      <4>4. CASE ~(i <= Len(taken)) /\ ~(j <= Len(taken))
        <5>1. /\ i - Len(taken) \in 1 .. Len(accepted)
              /\ j - Len(taken) \in 1 .. Len(accepted)
              /\ i - Len(taken) < j - Len(taken)
          BY <3>1, <3>2, <3>3, <4>4
        <5> QED
          BY <3>2, <4>1, <4>4, <5>1 DEF InLine
      <4> QED
        BY <3>1, <3>2, <3>3, <4>2, <4>3, <4>4
    <3> QED
      BY <3>3 DEF TakenInOrder, InLine, ServerIInv
  <2> QED
    BY <2>1, <2>2, <2>3 DEF BooksBalance
<1> QED
  BY <1>1, InductiveServerIInv, PTL

\* What status() says of a goal no call and cancel have met on is what
\* rclcpp_action says.
THEOREM StatusIsCurrentHolds == Spec => []StatusIsCurrent
<1>1. ServerIInv => StatusIsCurrent
  BY DEF ServerIInv, RecordsTell, Undisturbed, StatusIsCurrent
<1> QED
  BY <1>1, InductiveServerIInv, PTL

\* A closed server leaves no client waiting for an active goal.
THEOREM ClosedEndsGoalsHolds == Spec => []ClosedEndsGoals
<1>1. ServerIInv => ClosedEndsGoals
  <2> SUFFICES ASSUME ServerIInv, closing = "closed", spin = Idle, NEW g \in Goals
               PROVE  rcl[g] \notin Active
    BY DEF ClosedEndsGoals
  <2>1. records = {} /\ swapped = {} /\ ~SpinHolds(g)
    BY DEF ServerIInv, ClosingInPhases, SpinHolds, Idle, CancelStages, NoCall, Closing
  <2> QED
    BY <2>1 DEF ServerIInv, ActiveIsHeld
<1> QED
  BY <1>1, InductiveServerIInv, PTL
=============================================================================
