------------------------ MODULE Controllers_proofs -------------------------
(***************************************************************************)
(* Proofs about the ros2_control kit: the servo of Controllers for any     *)
(* number of joints, goals and instances, and the switches of ControlRig for *)
(* any number of them.                                                     *)
(***************************************************************************)
EXTENDS Controllers, ControlRig, TLAPS

-----------------------------------------------------------------------------
(* Controllers: what the servo commands.                                   *)

ControllersTypeOK ==
    /\ managed \in [{"servo", "python"} -> {"unconfigured", "inactive", "active"}]
    /\ configured \in BOOLEAN /\ servo_active \in BOOLEAN
    /\ python_active \in BOOLEAN
    /\ goals \in Nat /\ since \in 0 .. goals
    /\ setter \in {0, goals + 1}
    /\ pending \in [Joints -> Int] /\ target \in [Joints -> Int]
    /\ commanded \in [Joints -> Int]

\* What may stand in the vectors of an active servo.
Current == {Measured} \union (since + 1) .. goals

\* Goals move from pending_ to target_ to the interfaces and grow on the way
\* back: no vector holds one older than the next one does.
GoalsInLine ==
    servo_active =>
        /\ managed["servo"] = "active"
        /\ \A j \in Joints :
            /\ pending[j] \in Current /\ target[j] \in Current
            /\ commanded[j] \in {Nothing} \union Current
            /\ target[j] > 0 => pending[j] >= target[j]
            /\ commanded[j] > 0 => target[j] >= commanded[j]

ControllersIInv == ControllersTypeOK /\ GoalsInLine /\ CalledWhileActivated

LEMMA InitControllersIInv == ControllersInit => ControllersIInv
<1> SUFFICES ASSUME ControllersInit PROVE ControllersIInv
  OBVIOUS
<1>1. /\ configured \in BOOLEAN /\ servo_active \in BOOLEAN
      /\ python_active \in BOOLEAN /\ ~servo_active /\ ~python_active
  BY Zenon DEF ControllersInit
<1>2. /\ managed \in [{"servo", "python"} -> {"unconfigured", "inactive", "active"}]
      /\ goals \in Nat /\ since \in 0 .. goals /\ setter \in {0, goals + 1}
      /\ pending \in [Joints -> Int] /\ target \in [Joints -> Int]
      /\ commanded \in [Joints -> Int]
  BY DEF ControllersInit, Zero, Nothing
<1> QED
  BY <1>1, <1>2 DEF ControllersIInv, ControllersTypeOK, GoalsInLine,
     CalledWhileActivated

-----------------------------------------------------------------------------
LEMMA ServoLifecycleKeepsIInv ==
    ASSUME ControllersIInv,
           \/ \E usable \in BOOLEAN : ServoConfigures(usable)
           \/ \E last \in 0 .. JointCount : ServoActivates(last)
           \/ ServoDeactivates
    PROVE  ControllersIInv'
<1>1. CalledWhileActivated'
  BY DEF ServoConfigures, ServoActivates, ServoDeactivates, pythonVars, MoveTo,
     ControllersIInv, ControllersTypeOK, CalledWhileActivated
<1>2. ASSUME NEW usable \in BOOLEAN, ServoConfigures(usable)
      PROVE  ControllersTypeOK' /\ GoalsInLine'
  <2>1. servo_active' = servo_active /\ ~servo_active
    BY <1>2 DEF ServoConfigures, ControllersIInv, GoalsInLine
  <2>2. /\ configured' \in BOOLEAN /\ servo_active' \in BOOLEAN
        /\ python_active' \in BOOLEAN
    BY <1>2, Zenon DEF ServoConfigures, pythonVars, ControllersIInv, ControllersTypeOK
  <2>3. ControllersTypeOK'
    BY <1>2, <2>2 DEF ServoConfigures, MoveTo, pythonVars, ControllersIInv,
       ControllersTypeOK, Zero
  <2> QED
    BY <2>1, <2>3 DEF GoalsInLine
<1>3. ASSUME NEW last \in 0 .. JointCount, ServoActivates(last)
      PROVE  ControllersTypeOK' /\ GoalsInLine'
  <2>1. /\ configured' \in BOOLEAN /\ servo_active' \in BOOLEAN
        /\ python_active' \in BOOLEAN
    BY <1>3, Zenon DEF ServoActivates, pythonVars, ControllersIInv, ControllersTypeOK
  <2>2. /\ pending' \in [Joints -> Int] /\ target' \in [Joints -> Int]
        /\ commanded' \in [Joints -> Int]
    BY <1>3 DEF ServoActivates, ControllersIInv, ControllersTypeOK, Measured, Nothing
  <2>3. /\ managed' \in [{"servo", "python"} -> {"unconfigured", "inactive", "active"}]
        /\ goals' = goals /\ setter' = setter /\ since' \in {since, goals}
    BY <1>3 DEF ServoActivates, MoveTo, ControllersIInv, ControllersTypeOK
  <2>4. ControllersTypeOK'
    BY <2>1, <2>2, <2>3 DEF ControllersIInv, ControllersTypeOK
  <2>5. CASE configured /\ last = JointCount
    <3>1. /\ \A j \in Joints : pending'[j] = Measured /\ target'[j] = Measured
                                /\ commanded'[j] = Nothing
          /\ managed'["servo"] = "active"
      BY <1>3, <2>5, JointAssumption DEF ServoActivates, MoveTo, Joints,
         ControllersIInv, ControllersTypeOK
    <3> QED
      BY <2>4, <3>1 DEF GoalsInLine, Current, Measured, Nothing
  <2>6. CASE ~(configured /\ last = JointCount)
    <3>1. servo_active' = servo_active /\ ~servo_active
      BY <1>3, <2>6 DEF ServoActivates, ControllersIInv, GoalsInLine
    <3> QED
      BY <2>4, <3>1 DEF GoalsInLine
  <2> QED
    BY <2>4, <2>5, <2>6
<1>4. ASSUME ServoDeactivates
      PROVE  ControllersTypeOK' /\ GoalsInLine'
  BY <1>4 DEF ServoDeactivates, MoveTo, pythonVars, ControllersIInv,
     ControllersTypeOK, GoalsInLine
<1> QED
  BY <1>1, <1>2, <1>3, <1>4 DEF ControllersIInv

LEMMA ServoGoalsKeepIInv ==
    ASSUME ControllersIInv,
           \/ SetTargetLocks \/ SetTargetCopies
           \/ \E usable \in BOOLEAN, written \in Joints : ServoUpdates(usable, written)
    PROVE  ControllersIInv'
<1>1. CalledWhileActivated'
  BY DEF SetTargetLocks, SetTargetCopies, ServoUpdates, pythonVars,
     ControllersIInv, CalledWhileActivated
<1>2. ASSUME SetTargetLocks
      PROVE  ControllersTypeOK' /\ GoalsInLine'
  BY <1>2 DEF SetTargetLocks, pythonVars, ControllersIInv, ControllersTypeOK,
     GoalsInLine, Current
<1>3. ASSUME SetTargetCopies
      PROVE  ControllersTypeOK' /\ GoalsInLine'
  <2>1. setter = goals + 1 /\ goals' = goals + 1 /\ setter' = 0
          /\ \A j \in Joints : pending'[j] = goals + 1
    BY <1>3 DEF SetTargetCopies, ControllersIInv, ControllersTypeOK
  <2>2. ControllersTypeOK'
    BY <1>3, <2>1 DEF SetTargetCopies, pythonVars, ControllersIInv, ControllersTypeOK
  <2> QED
    BY <1>3, <2>1, <2>2 DEF SetTargetCopies, ControllersIInv, ControllersTypeOK,
       GoalsInLine, Current, Measured, Nothing
<1>4. ASSUME NEW usable \in BOOLEAN, NEW written \in Joints,
             ServoUpdates(usable, written)
      PROVE  ControllersTypeOK' /\ GoalsInLine'
  <2>1. /\ target' = pending \/ target' = target
        /\ \A j \in Joints : commanded'[j] \in {target'[j], commanded[j]}
        /\ commanded' \in [Joints -> Int]
    BY <1>4 DEF ServoUpdates, ControllersIInv, ControllersTypeOK
  <2>2. ControllersTypeOK'
    BY <1>4, <2>1 DEF ServoUpdates, pythonVars, ControllersIInv, ControllersTypeOK
  <2> QED
    BY <1>4, <2>1, <2>2 DEF ServoUpdates, ControllersIInv, ControllersTypeOK,
       GoalsInLine, Current, Measured, Nothing
<1> QED
  BY <1>1, <1>2, <1>3, <1>4 DEF ControllersIInv

LEMMA PythonKeepsIInv ==
    ASSUME ControllersIInv,
           \/ \E o \in Outcomes : PythonConfigures(o) \/ PythonActivates(o)
           \/ \E raises \in BOOLEAN : PythonDeactivates(raises)
    PROVE  ControllersIInv'
<1>1. /\ UNCHANGED servoVars
      /\ python_active' \in BOOLEAN
      /\ managed'["servo"] = managed["servo"]
      /\ managed' \in [{"servo", "python"} -> {"unconfigured", "inactive", "active"}]
  BY DEF PythonConfigures, PythonActivates, PythonDeactivates, MoveTo,
     ControllersIInv, ControllersTypeOK
<1>2. ControllersTypeOK' /\ GoalsInLine'
  BY <1>1 DEF servoVars, ControllersIInv, ControllersTypeOK, GoalsInLine, Current
<1>3. CalledWhileActivated'
  BY DEF PythonConfigures, PythonActivates, PythonDeactivates, MoveTo, Outcomes,
     ControllersIInv, ControllersTypeOK, CalledWhileActivated
<1> QED
  BY <1>2, <1>3 DEF ControllersIInv

LEMMA StepControllersIInv ==
    ControllersIInv /\ [ControllersNext]_controllerVars => ControllersIInv'
<1> SUFFICES ASSUME ControllersIInv, [ControllersNext]_controllerVars
             PROVE  ControllersIInv'
  OBVIOUS
<1>1. CASE UNCHANGED controllerVars
  BY <1>1 DEF controllerVars, ControllersIInv, ControllersTypeOK, GoalsInLine,
     Current, CalledWhileActivated
<1>2. CASE ControllersNext
  BY <1>2, ServoLifecycleKeepsIInv, ServoGoalsKeepIInv, PythonKeepsIInv
     DEF ControllersNext
<1> QED
  BY <1>1, <1>2

LEMMA InductiveControllersIInv == ControllersSpec => []ControllersIInv
BY InitControllersIInv, StepControllersIInv, PTL DEF ControllersSpec

-----------------------------------------------------------------------------
\* For any number of joints and goals, no goal from before the activation
\* moves a joint and no joint goes back to an older goal; the Python object is
\* updated only while it is activated.
THEOREM ProtocolKept == ControllersSpec => []ControllersKeepProtocol
<1>1. ControllersIInv => ControllersKeepProtocol
  BY DEF ControllersIInv, GoalsInLine, Current, ControllersKeepProtocol,
         StaleTargetNeverMoves
<1> QED
  BY <1>1, InductiveControllersIInv, PTL

-----------------------------------------------------------------------------
(* ControlRig: the books of the rig.                                       *)

Requests == [activate : SUBSET RigControllers, deactivate : SUBSET RigControllers]

RigTypeOK ==
    /\ manager \in [RigControllers -> {"absent", "unconfigured", "inactive", "active"}]
    /\ updated \in BOOLEAN /\ booked \subseteq RigControllers
    /\ request \in Requests /\ asked \in Requests
    /\ switch_done \in BOOLEAN /\ switch_ok \in BOOLEAN
    /\ runner \in [Runners -> {"none", "started", "waiting", "applied", "refused",
                               "stored", "ended"}]
    /\ argument \in [Runners -> Requests]
    /\ switches \in 0 .. MaxSwitches + 1
    /\ rig \in {"idle", "pumping", "closed"}
    /\ torn_down \in BOOLEAN /\ overran \in BOOLEAN

\* There is a place for every worker, one of them for the teardown's.
WorkersCounted ==
    /\ ~torn_down => switches <= MaxSwitches
    /\ rig = "pumping" => switches \in Runners

\* As long as no switch overran, nobody but the worker of the switch in
\* progress is on its way, and what that worker has of the request is what
\* Python asked.
OneInFlight ==
    ~overran =>
        /\ \A i \in Runners :
            (rig = "pumping" /\ i = switches) \/ runner[i] \in {"none", "ended"}
        /\ rig = "pumping" =>
            /\ request = asked
            /\ runner[switches] # "none"
            /\ runner[switches] # "started" => argument[switches] = asked
            /\ switch_done <=> runner[switches] = "ended"

\* The worker of the switch in progress has seen it applied.
Applied ==
    \/ runner[switches] = "applied"
    \/ runner[switches] \in {"stored", "ended"} /\ switch_ok

Asked == (booked \cup asked.activate) \ asked.deactivate

\* The books are right when no switch is in progress; until they are written,
\* an applied switch is what they lack.
BooksFollow ==
    ~overran =>
        /\ rig # "pumping" => booked = ActiveControllers
        /\ rig = "pumping" => ActiveControllers = IF Applied THEN Asked ELSE booked
        /\ rig = "pumping" /\ runner[switches] = "waiting" =>
            /\ \A c \in asked.activate : manager[c] = "inactive"
            /\ asked.deactivate \subseteq ActiveControllers

RigIInv == RigTypeOK /\ WorkersCounted /\ OneInFlight /\ BooksFollow

-----------------------------------------------------------------------------
LEMMA InitRigIInv == RigInit => RigIInv
<1> SUFFICES ASSUME RigInit PROVE RigIInv
  OBVIOUS
<1>1. /\ updated \in BOOLEAN /\ switch_done \in BOOLEAN /\ switch_ok \in BOOLEAN
      /\ torn_down \in BOOLEAN /\ overran \in BOOLEAN
  BY Zenon DEF RigInit
<1>2. RigTypeOK
  BY <1>1, SwitchBoundAssumption DEF RigInit, RigTypeOK, NoSwitch, Requests
<1>3. WorkersCounted /\ OneInFlight
  BY SwitchBoundAssumption DEF RigInit, WorkersCounted, OneInFlight
<1>4. BooksFollow
  BY DEF RigInit, BooksFollow, ActiveControllers
<1> QED
  BY <1>2, <1>3, <1>4 DEF RigIInv

\* A switch starts when none is in progress, and its worker has done nothing.
LEMMA RequestKeepsIInv ==
    ASSUME RigIInv, rig = "idle", ~torn_down, NEW wanted \in Requests,
           RequestSwitch(wanted),
           switches < MaxSwitches \/ torn_down', torn_down' \in BOOLEAN,
           UNCHANGED <<manager, updated, booked, overran>>
    PROVE  RigIInv'
<1> USE DEF RigIInv, RequestSwitch
<1>1. /\ switches \in Nat /\ switches + 1 \in Runners /\ switches' = switches + 1
      /\ switches <= MaxSwitches
  BY SwitchBoundAssumption DEF RigTypeOK, WorkersCounted, Runners
<1>2. runner'[switches'] = "started"
      /\ \A i \in Runners : i # switches' => runner'[i] = runner[i]
  BY <1>1 DEF RigTypeOK
<1>3. RigTypeOK'
  <2>1. runner' \in [Runners -> {"none", "started", "waiting", "applied", "refused",
                                 "stored", "ended"}]
    BY <1>1 DEF RigTypeOK
  <2>2. switches' \in 0 .. MaxSwitches + 1
    BY <1>1, SwitchBoundAssumption
  <2> QED
    BY <2>1, <2>2 DEF RigTypeOK
<1>4. WorkersCounted'
  BY <1>1, SwitchBoundAssumption DEF WorkersCounted
<1>5. OneInFlight'
  BY <1>1, <1>2 DEF OneInFlight, RigTypeOK
<1>6. BooksFollow'
  <2>1. ActiveControllers' = ActiveControllers
    BY DEF ActiveControllers
  <2>2. ~Applied'
    BY <1>2 DEF Applied
  <2> QED
    BY <1>2, <2>1, <2>2 DEF BooksFollow
<1> QED
  BY <1>3, <1>4, <1>5, <1>6

\* The worker's own steps: the manager's controllers stay as they are.
WorkerStep ==
    \E i \in Runners : \/ WorkerCallsManager(i) \/ SwitchTimesOut(i)
                       \/ WorkerStoresResult(i) \/ WorkerIsDone(i)

LEMMA WorkerKeepsIInv == RigIInv /\ WorkerStep => RigIInv'
<1> SUFFICES ASSUME RigIInv, NEW i \in Runners,
                    \/ WorkerCallsManager(i) \/ SwitchTimesOut(i)
                    \/ WorkerStoresResult(i) \/ WorkerIsDone(i)
             PROVE  RigIInv'
  BY DEF WorkerStep
<1> USE DEF RigIInv
<1> DEFINE Step(places, place) ==
             /\ runner[i] \in places
             /\ runner' = [runner EXCEPT ![i] = place]
<1>1. /\ UNCHANGED <<manager, updated, booked, request, switches, rig, asked,
                     torn_down, overran>>
      /\ ActiveControllers' = ActiveControllers /\ Asked' = Asked
  BY DEF WorkerCallsManager, SwitchTimesOut, WorkerStoresResult, WorkerIsDone,
         ActiveControllers, Asked
<1>2. ~overran => rig = "pumping" /\ i = switches
  BY DEF OneInFlight, WorkerCallsManager, SwitchTimesOut, WorkerStoresResult,
         WorkerIsDone
<1>3. RigTypeOK' /\ WorkersCounted'
  BY <1>1 DEF RigTypeOK, WorkersCounted, WorkerCallsManager, SwitchTimesOut,
              WorkerStoresResult, WorkerIsDone
<1>4. OneInFlight'
  BY <1>1, <1>2 DEF OneInFlight, WorkersCounted, RigTypeOK, WorkerCallsManager,
         SwitchTimesOut, WorkerStoresResult, WorkerIsDone
<1>5. BooksFollow'
  <2> SUFFICES ASSUME ~overran PROVE BooksFollow'
    BY <1>1 DEF BooksFollow
  <2>1. CASE WorkerCallsManager(i)
    BY <1>1, <1>2, <2>1 DEF BooksFollow, OneInFlight, Applied, RigTypeOK,
       WorkerCallsManager, ActiveControllers
  <2>2. CASE SwitchTimesOut(i)
    BY <1>1, <1>2, <2>2 DEF BooksFollow, OneInFlight, Applied, RigTypeOK, SwitchTimesOut
  <2>3. CASE WorkerStoresResult(i)
    BY <1>1, <1>2, <2>3 DEF BooksFollow, OneInFlight, Applied, RigTypeOK, WorkerStoresResult
  <2>4. CASE WorkerIsDone(i)
    BY <1>1, <1>2, <2>4 DEF BooksFollow, OneInFlight, Applied, RigTypeOK, WorkerIsDone
  <2> QED
    BY <2>1, <2>2, <2>3, <2>4
<1> QED
  BY <1>3, <1>4, <1>5

\* update() applies the switch that waits, the one in progress, or none.
LEMMA UpdateKeepsIInv ==
    ASSUME RigIInv, NEW works \in BOOLEAN, Update(works) PROVE RigIInv'
<1> DEFINE waiting == {i \in Runners : runner[i] = "waiting"}
<1> USE DEF RigIInv
<1>1. /\ UNCHANGED <<booked, request, switch_done, switch_ok, argument, switches,
                     rig, asked, torn_down, overran>>
      /\ updated' \in BOOLEAN
      /\ Asked' = Asked
  BY Zenon DEF Update, Asked
<1>2. /\ runner' = [i \in Runners |->
              IF i \notin waiting THEN runner[i]
              ELSE IF works THEN "applied" ELSE "refused"]
      /\ manager' = [c \in RigControllers |->
              IF ~works THEN manager[c]
              ELSE IF \E i \in waiting : c \in argument[i].activate THEN "active"
              ELSE IF \E i \in waiting : c \in argument[i].deactivate THEN "inactive"
              ELSE manager[c]]
  BY Zenon DEF Update
<1>3. RigTypeOK' /\ WorkersCounted'
  BY <1>1, <1>2 DEF RigTypeOK, WorkersCounted
<1>4. OneInFlight'
  BY <1>1, <1>2 DEF OneInFlight, WorkersCounted, RigTypeOK
<1>5. BooksFollow'
  <2> SUFFICES ASSUME ~overran PROVE BooksFollow'
    BY <1>1 DEF BooksFollow
  <2>1. CASE rig = "pumping" /\ runner[switches] = "waiting" /\ works
    <3>1. waiting = {switches} /\ argument[switches] = asked
      BY <2>1 DEF OneInFlight, WorkersCounted
    <3>2. /\ \A c \in asked.activate : manager[c] = "inactive"
          /\ asked.deactivate \subseteq ActiveControllers
          /\ booked = ActiveControllers
      BY <2>1 DEF BooksFollow, Applied
    <3>3. \A c \in RigControllers : manager'[c] =
             IF c \in asked.activate THEN "active"
             ELSE IF c \in asked.deactivate THEN "inactive" ELSE manager[c]
      BY <1>2, <2>1, <3>1
    <3>4. ActiveControllers' = Asked'
      BY <1>1, <3>2, <3>3 DEF ActiveControllers, Asked, RigTypeOK, Requests
    <3>5. runner'[switches'] = "applied"
      BY <1>1, <1>2, <2>1 DEF WorkersCounted
    <3> QED
      BY <1>1, <2>1, <3>4, <3>5 DEF BooksFollow, Applied
  <2>2. CASE ~(rig = "pumping" /\ runner[switches] = "waiting" /\ works)
    <3>1. waiting = {} \/ ~works
      BY <2>2 DEF OneInFlight
    <3>2. ActiveControllers' = ActiveControllers
      BY <1>2, <3>1 DEF ActiveControllers, RigTypeOK
    <3>3. rig = "pumping" =>
             /\ Applied' = Applied
             /\ runner'[switches'] # "waiting"
      BY <1>1, <1>2, <3>1, <2>2 DEF Applied, WorkersCounted
    <3> QED
      BY <1>1, <3>2, <3>3 DEF BooksFollow
  <2> QED
    BY <2>1, <2>2
<1> QED
  BY <1>3, <1>4, <1>5

\* _switch returns with its worker's result, or gives it up.
LEMMA SwitchEndsKeepsIInv ==
    ASSUME RigIInv, SwitchReturns \/ SwitchOverruns PROVE RigIInv'
<1> USE DEF RigIInv
<1>1. /\ UNCHANGED <<manager, updated, request, switch_done, switch_ok, runner,
                     argument, switches, asked, torn_down>>
      /\ rig = "pumping" /\ rig' \in {"idle", "closed"}
      /\ ActiveControllers' = ActiveControllers
  BY Zenon DEF SwitchReturns, SwitchOverruns, AfterSwitch, switchVars, ActiveControllers
<1>2. /\ booked' = IF SwitchReturns /\ switch_ok THEN Asked ELSE booked
      /\ overran' \in BOOLEAN
      /\ ~overran' => ~overran /\ switch_done
  <2>1. CASE SwitchReturns
    BY <2>1 DEF SwitchReturns, Asked, RigTypeOK
  <2>2. CASE SwitchOverruns
    BY <2>2 DEF SwitchOverruns, SwitchReturns, RigTypeOK
  <2> QED
    BY <2>1, <2>2
<1>3. ~overran' => SwitchReturns
  BY <1>2 DEF SwitchOverruns
<1>4. RigTypeOK' /\ WorkersCounted'
  BY <1>1, <1>2 DEF RigTypeOK, WorkersCounted, Asked, Requests
<1>5. OneInFlight'
  BY <1>1, <1>2 DEF OneInFlight
<1>6. BooksFollow'
  BY <1>1, <1>2, <1>3 DEF BooksFollow, OneInFlight, Applied
<1> QED
  BY <1>4, <1>5, <1>6

\* Before and between switches controllers come and are configured.
LEMMA IdleKeepsIInv ==
    ASSUME RigIInv, NEW c \in RigControllers,
           AddController(c) \/ \E usable \in BOOLEAN : ConfigureController(c, usable)
    PROVE  RigIInv'
<1> USE DEF RigIInv
<1>1. /\ UNCHANGED <<updated, booked, request, switch_done, switch_ok, runner,
                     argument, switches, rig, asked, torn_down, overran>>
      /\ rig = "idle" /\ manager[c] # "active"
      /\ \E v \in {"unconfigured", "inactive"} : manager' = [manager EXCEPT ![c] = v]
  BY DEF AddController, ConfigureController, switchVars
<1>2. ActiveControllers' = ActiveControllers
  BY <1>1 DEF ActiveControllers, RigTypeOK
<1>3. RigTypeOK' /\ WorkersCounted' /\ OneInFlight'
  BY <1>1 DEF RigTypeOK, WorkersCounted, OneInFlight
<1>4. BooksFollow'
  BY <1>1, <1>2 DEF BooksFollow
<1> QED
  BY <1>3, <1>4

LEMMA TeardownKeepsIInv == ASSUME RigIInv, RigTeardown PROVE RigIInv'
<1>1. /\ rig = "idle" /\ ~torn_down /\ torn_down'
      /\ UNCHANGED <<manager, updated, booked, overran>>
  BY DEF RigTeardown
<1>2. CASE booked = {}
  <2>1. /\ rig' = "closed"
        /\ UNCHANGED <<request, switch_done, switch_ok, runner, argument, switches,
                       asked>>
    BY <1>2 DEF RigTeardown, switchVars
  <2>2. torn_down' \in BOOLEAN
    BY Zenon DEF RigTeardown
  <2> QED
    BY <1>1, <2>1, <2>2 DEF RigIInv, RigTypeOK, WorkersCounted, OneInFlight,
       BooksFollow, ActiveControllers
<1>3. CASE booked # {}
  <2>1. [activate |-> {}, deactivate |-> booked] \in Requests
    BY DEF RigIInv, RigTypeOK, Requests
  <2>2. RequestSwitch([activate |-> {}, deactivate |-> booked])
    BY <1>3 DEF RigTeardown
  <2>3. torn_down' \in BOOLEAN
    BY Zenon DEF RigTeardown
  <2> QED
    BY <1>1, <2>1, <2>2, <2>3, RequestKeepsIInv
<1> QED
  BY <1>2, <1>3

LEMMA StepRigIInv == RigIInv /\ [RigNext]_rigVars => RigIInv'
<1> SUFFICES ASSUME RigIInv, [RigNext]_rigVars PROVE RigIInv'
  OBVIOUS
<1>1. CASE \E c \in RigControllers :
             AddController(c) \/ \E usable \in BOOLEAN : ConfigureController(c, usable)
  BY <1>1, IdleKeepsIInv
<1>2. CASE \E wanted \in Wanted : Switch(wanted)
  <2>1. Wanted \subseteq Requests
    BY DEF Wanted, Requests
  <2>2. PICK wanted \in Wanted : Switch(wanted)
    BY <1>2
  <2>3. torn_down' \in BOOLEAN /\ UNCHANGED <<manager, updated, booked, overran>>
    BY <2>2 DEF Switch, RigIInv, RigTypeOK
  <2> QED
    BY <2>1, <2>2, <2>3, RequestKeepsIInv DEF Switch
<1>3. CASE WorkerStep
  BY <1>3, WorkerKeepsIInv
<1>4. CASE \E works \in BOOLEAN : Update(works)
  BY <1>4, UpdateKeepsIInv
<1>5. CASE SwitchReturns \/ SwitchOverruns
  BY <1>5, SwitchEndsKeepsIInv
<1>6. CASE RigTeardown
  BY <1>6, TeardownKeepsIInv
<1>7. CASE UNCHANGED rigVars
  <2>1. UNCHANGED <<ActiveControllers, Applied, Asked>>
    BY <1>7 DEF rigVars, ActiveControllers, Applied, Asked
  <2> QED
    BY <1>7, <2>1 DEF rigVars, RigIInv, RigTypeOK, WorkersCounted, OneInFlight,
       BooksFollow
<1> QED
  BY <1>1, <1>2, <1>3, <1>4, <1>5, <1>6, <1>7 DEF RigNext, WorkerStep

LEMMA InductiveRigIInv == RigSpec => []RigIInv
BY InitRigIInv, StepRigIInv, PTL DEF RigSpec

\* The rig, the manager and the workers of its switches stay in their states,
\* for any controllers and any number of switches.
THEOREM RigTypeCorrect == RigSpec => []RigTypeOK
<1>1. RigIInv => RigTypeOK
  BY DEF RigIInv
<1> QED
  BY <1>1, InductiveRigIInv, PTL

\* Until a switch overruns its deadline, what the rig has booked is what the
\* manager has active, after every refusal, failure and time-out, and the
\* manager is dropped when no worker uses it any more.
THEOREM RigBooksSwitchesHolds == RigSpec => []RigBooksSwitches
<1>1. RigIInv => RigBooksSwitches
  BY DEF RigIInv, OneInFlight, BooksFollow, RigBooksSwitches
<1> QED
  BY <1>1, InductiveRigIInv, PTL
=============================================================================
