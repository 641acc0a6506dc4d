---------------------------- MODULE Controllers ----------------------------
(***************************************************************************)
(* The two ros2_control controllers of control_kit.  PositionServo takes   *)
(* goals from any thread into pending_, and its update copies them when it *)
(* gets the mutex without waiting.  PythonController forwards every call,  *)
(* under its mutex and the GIL, to an object of a Python class.            *)
(*                                                                         *)
(* The controller manager is external: it configures a controller that is  *)
(* not active, activates one that is inactive, updates the active ones,    *)
(* and calls activate, update and deactivate on one thread.  A controller  *)
(* that failed is taken to be configurable again.                          *)
(***************************************************************************)
EXTENDS Integers

CONSTANTS
    JointCount,    \* joints of a controller
    MaxGoals,      \* bound: accepted goals of the servo
    MaxInstances   \* bound: Python objects constructed

ASSUME JointAssumption == JointCount \in Nat \ {0}
ASSUME ControlBoundAssumption == MaxGoals \in Nat /\ MaxInstances \in Nat

VARIABLES
    managed,     \* managed[c]: the manager's lifecycle state of controller c
    configured, servo_active,  \* configured_ and active_ of the servo
    setter,      \* the goal being copied under target_mutex_, 0: mutex free
    pending, target,  \* per joint: a goal, or where its value came from
    commanded,   \* history: what the joint's interface was given in this activation
    goals,       \* history: goals accepted so far
    since,       \* history: of those, the ones before the last activation
    controller,  \* PythonController::controller_: an instance, or NoInstance
    python_active,  \* active_ of the Python controller
    instances,   \* how many objects were constructed
    told         \* the last lifecycle call the current instance has answered

servoVars == <<configured, servo_active, setter, pending, target, commanded,
               goals, since>>
pythonVars == <<controller, python_active, instances, told>>
controllerVars == <<managed, configured, servo_active, setter, pending, target,
                    commanded, goals, since, controller, python_active,
                    instances, told>>

Joints == 1 .. JointCount
NoInstance == 0
Zero == -1       \* written by on_configure
Measured == -2   \* measured at the activation
Nothing == -3

MoveTo(c, s) == managed' = [managed EXCEPT ![c] = s]

ControllersInit ==
    /\ managed = [c \in {"servo", "python"} |-> "unconfigured"]
    /\ configured = FALSE /\ servo_active = FALSE /\ setter = 0
    /\ pending = [j \in Joints |-> Zero]
    /\ target = [j \in Joints |-> Zero]
    /\ commanded = [j \in Joints |-> Nothing]
    /\ goals = 0 /\ since = 0
    /\ controller = NoInstance /\ python_active = FALSE
    /\ instances = 0 /\ told = "nothing"

-----------------------------------------------------------------------------
(* PositionServo.                                                          *)

ServoConfigures(usable) ==
    /\ managed["servo"] # "active" /\ setter = 0
    /\ configured' = usable
    /\ IF usable
       THEN /\ pending' = [j \in Joints |-> Zero]
            /\ target' = [j \in Joints |-> Zero]
       ELSE UNCHANGED <<pending, target>>
    /\ MoveTo("servo", IF usable THEN "inactive" ELSE "unconfigured")
    /\ UNCHANGED <<servo_active, setter, commanded, goals, since, pythonVars>>

\* Faulty variant: the goal that waits in pending_ is not cleared.
ServoActivatesKeepsPending(last) ==
    /\ managed["servo"] = "inactive" /\ setter = 0
    /\ target' = IF configured
                 THEN [j \in Joints |-> IF j <= last THEN Measured ELSE target[j]]
                 ELSE target
    /\ IF configured /\ last = JointCount
       THEN /\ servo_active' = TRUE
            /\ MoveTo("servo", "active")
            /\ commanded' = [j \in Joints |-> Nothing]
            /\ since' = goals
       ELSE /\ MoveTo("servo", "unconfigured")
            /\ UNCHANGED <<servo_active, commanded, since>>
    /\ UNCHANGED <<configured, setter, pending, goals, pythonVars>>

\* The joints up to `last` have a finite state inside the limits; the first
\* one that has not ends the loop with an error.
ServoActivates(last) ==
    /\ managed["servo"] = "inactive" /\ setter = 0
    /\ LET held(f) == [j \in Joints |-> IF j <= last THEN Measured ELSE f[j]]
       IN  IF configured
           THEN pending' = held(pending) /\ target' = held(target)
           ELSE UNCHANGED <<pending, target>>
    /\ IF configured /\ last = JointCount
       THEN /\ servo_active' = TRUE
            /\ MoveTo("servo", "active")
            /\ commanded' = [j \in Joints |-> Nothing]
            /\ since' = goals
       ELSE /\ MoveTo("servo", "unconfigured")
            /\ UNCHANGED <<servo_active, commanded, since>>
    /\ UNCHANGED <<configured, setter, goals, pythonVars>>

ServoDeactivates ==
    /\ managed["servo"] = "active"
    /\ servo_active' = FALSE
    /\ MoveTo("servo", "inactive")
    /\ UNCHANGED <<configured, setter, pending, target, commanded, goals,
                   since, pythonVars>>

\* set_target(): a goal that is valid is copied under the mutex.
SetTargetLocks ==
    /\ setter = 0 /\ configured
    /\ goals < MaxGoals
    /\ setter' = goals + 1
    /\ UNCHANGED <<managed, configured, servo_active, pending, target,
                   commanded, goals, since, pythonVars>>

SetTargetCopies ==
    /\ setter # 0
    /\ pending' = [j \in Joints |-> setter]
    /\ goals' = setter
    /\ setter' = 0
    /\ UNCHANGED <<managed, configured, servo_active, target, commanded,
                   since, pythonVars>>

\* One period: the states are valid or the update ends before it has written
\* anything; `written` joints are written before a set_value fails.
ServoUpdates(usable, written) ==
    /\ managed["servo"] = "active" /\ servo_active
    /\ target' = IF setter = 0 THEN pending ELSE target
    /\ commanded' = [j \in Joints |->
                        IF usable /\ j <= written THEN target'[j] ELSE commanded[j]]
    /\ UNCHANGED <<managed, configured, servo_active, setter, pending, goals,
                   since, pythonVars>>

-----------------------------------------------------------------------------
(* PythonController.  Each call holds mutex_ from its first line to its    *)
(* last, so it is one step.                                                *)

\* "unusable": the parameters are refused before the old object is dropped.
PythonConfigures(outcome) ==
    /\ managed["python"] # "active"
    /\ python_active' = FALSE
    /\ outcome # "unusable" => instances < MaxInstances
    /\ IF outcome = "unusable"
       THEN UNCHANGED <<controller, instances, told>>
       ELSE /\ instances' = instances + 1
            /\ controller' = IF outcome = "accepted" THEN instances' ELSE NoInstance
            /\ told' = IF outcome = "accepted" THEN "configured" ELSE "nothing"
    /\ MoveTo("python", IF outcome = "accepted" THEN "inactive" ELSE "unconfigured")
    /\ UNCHANGED servoVars

\* A failure before, or in, the object's activate().
PythonActivates(outcome) ==
    /\ managed["python"] = "inactive"
    /\ controller = NoInstance => outcome = "unusable"
    /\ python_active' = (outcome = "accepted")
    /\ told' = IF outcome = "accepted" THEN "activated" ELSE told
    /\ MoveTo("python", IF outcome = "accepted" THEN "active" ELSE "unconfigured")
    /\ UNCHANGED <<controller, instances, servoVars>>

\* active_ is cleared before the object is asked, which may raise.
PythonDeactivates(raises) ==
    /\ managed["python"] = "active"
    /\ python_active' = FALSE
    /\ told' = IF controller = NoInstance \/ raises THEN told ELSE "deactivated"
    /\ MoveTo("python", IF raises THEN "unconfigured" ELSE "inactive")
    /\ UNCHANGED <<controller, instances, servoVars>>

-----------------------------------------------------------------------------
Outcomes == {"accepted", "refused", "unusable"}

ControllersNext ==
    \/ \E usable \in BOOLEAN : ServoConfigures(usable)
    \/ \E last \in 0 .. JointCount : ServoActivates(last)
    \/ ServoDeactivates
    \/ SetTargetLocks \/ SetTargetCopies
    \/ \E usable \in BOOLEAN, written \in Joints : ServoUpdates(usable, written)
    \/ \E o \in Outcomes : PythonConfigures(o) \/ PythonActivates(o)
    \/ \E raises \in BOOLEAN : PythonDeactivates(raises)

ControllersSpec == ControllersInit /\ [][ControllersNext]_controllerVars

-----------------------------------------------------------------------------
(* Properties.                                                             *)

\* An active servo moves a joint to the position measured at its activation
\* or to a goal accepted after it, and to none older than one it has already
\* followed, although goals arrive in every state and on another thread:
\* "Activation holds measured positions and clears prior goals."
StaleTargetNeverMoves ==
    servo_active =>
        \A j \in Joints :
            /\ commanded[j] \in {Nothing, Measured} \union (since + 1) .. goals
            /\ commanded[j] > 0 => target[j] >= commanded[j]

\* A target or an update reaches the Python object only between the
\* activate() it answered and the deactivate() that follows, whatever fails
\* in between: both calls are let through by active_ alone.
CalledWhileActivated ==
    python_active =>
        /\ managed["python"] = "active"
        /\ controller # NoInstance
        /\ told = "activated"

\* Both controllers keep their side of the manager's protocol.
ControllersKeepProtocol == StaleTargetNeverMoves /\ CalledWhileActivated
=============================================================================
