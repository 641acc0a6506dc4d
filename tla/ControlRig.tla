----------------------------- MODULE ControlRig -----------------------------
(***************************************************************************)
(* control_kit.ControlRig: a controller manager in this process.  A switch *)
(* runs on a detached worker thread, through the one global request        *)
(* g_switch, while Python pumps update() until the worker says it is done  *)
(* or a deadline passes.  The rig books what it activated, and its         *)
(* teardown deactivates that before it lets the manager go.                *)
(*                                                                         *)
(* The controller manager is external: a STRICT switch is refused, or is   *)
(* applied as a whole by an update(), or fails or times out as a whole.    *)
(***************************************************************************)
EXTENDS Naturals

CONSTANTS
    RigControllers,   \* names of controllers
    MaxSwitches       \* bound: switches asked of the rig, before its teardown

ASSUME SwitchBoundAssumption == MaxSwitches \in Nat

VARIABLES
    manager,       \* external: manager[c], the state of controller c
    updated,       \* _updated
    booked,        \* _active
    request,       \* g_switch.activate and deactivate
    switch_done, switch_ok,   \* g_switch.done, and result = 0
    runner,        \* runner[i]: where the i-th worker stands
    argument,      \* argument[i]: the request it passed to the manager
    switches,      \* workers started
    rig,           \* what Python does: "idle", "pumping" or "closed"
    asked,         \* the arguments of _switch
    torn_down,     \* _torn_down
    overran        \* history: a _switch returned before its worker ended

rigVars == <<manager, updated, booked, request, switch_done, switch_ok, runner,
             argument, switches, rig, asked, torn_down, overran>>
switchVars == <<request, switch_done, switch_ok, runner, argument, switches>>

Runners == 1 .. MaxSwitches + 1
NoSwitch == [activate |-> {}, deactivate |-> {}]
ActiveControllers == {c \in RigControllers : manager[c] = "active"}

RigInit ==
    /\ manager = [c \in RigControllers |-> "absent"]
    /\ updated = FALSE /\ booked = {}
    /\ request = NoSwitch /\ switch_done = FALSE /\ switch_ok = FALSE
    /\ runner = [i \in Runners |-> "none"]
    /\ argument = [i \in Runners |-> NoSwitch]
    /\ switches = 0
    /\ rig = "idle" /\ asked = NoSwitch
    /\ torn_down = FALSE /\ overran = FALSE

-----------------------------------------------------------------------------
\* load_controller and its kin: _guard_before_loop refuses them after update().
AddController(c) ==
    /\ rig = "idle" /\ ~torn_down /\ ~updated
    /\ manager[c] = "absent"
    /\ manager' = [manager EXCEPT ![c] = "unconfigured"]
    /\ UNCHANGED <<updated, booked, switchVars, rig, asked, torn_down, overran>>

ConfigureController(c, usable) ==
    /\ rig = "idle" /\ ~torn_down
    /\ manager[c] \in {"unconfigured", "inactive"}
    /\ manager' = [manager EXCEPT ![c] = IF usable THEN "inactive" ELSE "unconfigured"]
    /\ UNCHANGED <<updated, booked, switchVars, rig, asked, torn_down, overran>>

\* request_switch overwrites the global request and starts a thread.
RequestSwitch(wanted) ==
    /\ request' = wanted
    /\ switch_done' = FALSE /\ switch_ok' = FALSE
    /\ switches' = switches + 1
    /\ runner' = [runner EXCEPT ![switches'] = "started"]
    /\ rig' = "pumping" /\ asked' = wanted
    /\ UNCHANGED argument

Switch(wanted) ==
    /\ rig = "idle" /\ ~torn_down
    /\ switches < MaxSwitches
    /\ RequestSwitch(wanted)
    /\ UNCHANGED <<manager, updated, booked, torn_down, overran>>

-----------------------------------------------------------------------------
(* The worker, and the manager it calls.                                   *)

\* The manager takes one switch at a time and refuses what STRICT forbids.
WorkerCallsManager(i) ==
    /\ runner[i] = "started"
    /\ \A j \in Runners : runner[j] # "waiting"
    /\ argument' = [argument EXCEPT ![i] = request]
    /\ runner' = [runner EXCEPT ![i] =
            IF /\ \A c \in request.activate : manager[c] = "inactive"
               /\ request.deactivate \subseteq ActiveControllers
            THEN "waiting" ELSE "refused"]
    /\ UNCHANGED <<manager, updated, booked, request, switch_done, switch_ok,
                   switches, rig, asked, torn_down, overran>>

\* update() applies the switch that waits, if there is one.
Update(works) ==
    /\ rig # "closed"
    /\ updated' = TRUE
    /\ LET waiting == {i \in Runners : runner[i] = "waiting"}
       IN  /\ runner' = [i \in Runners |->
                IF i \notin waiting THEN runner[i]
                ELSE IF works THEN "applied" ELSE "refused"]
           /\ manager' = [c \in RigControllers |->
                IF ~works THEN manager[c]
                ELSE IF \E i \in waiting : c \in argument[i].activate THEN "active"
                ELSE IF \E i \in waiting : c \in argument[i].deactivate THEN "inactive"
                ELSE manager[c]]
    /\ UNCHANGED <<booked, request, switch_done, switch_ok, argument, switches,
                   rig, asked, torn_down, overran>>

SwitchTimesOut(i) ==
    /\ runner[i] = "waiting"
    /\ runner' = [runner EXCEPT ![i] = "refused"]
    /\ UNCHANGED <<manager, updated, booked, request, switch_done, switch_ok,
                   argument, switches, rig, asked, torn_down, overran>>

\* result is stored before done.
WorkerStoresResult(i) ==
    /\ runner[i] \in {"applied", "refused"}
    /\ switch_ok' = (runner[i] = "applied")
    /\ runner' = [runner EXCEPT ![i] = "stored"]
    /\ UNCHANGED <<manager, updated, booked, request, switch_done, argument,
                   switches, rig, asked, torn_down, overran>>

WorkerIsDone(i) ==
    /\ runner[i] = "stored"
    /\ switch_done' = TRUE
    /\ runner' = [runner EXCEPT ![i] = "ended"]
    /\ UNCHANGED <<manager, updated, booked, request, switch_ok, argument,
                   switches, rig, asked, torn_down, overran>>

-----------------------------------------------------------------------------
(* _switch ends, and the teardown.                                         *)

\* The teardown goes on to release_switch() and drops the manager.
AfterSwitch == IF torn_down THEN "closed" ELSE "idle"

\* Faulty variant: the result is not looked at.
SwitchReturnsDone ==
    /\ rig = "pumping" /\ switch_done
    /\ booked' = (booked \cup asked.activate) \ asked.deactivate
    /\ rig' = AfterSwitch
    /\ UNCHANGED <<manager, updated, switchVars, asked, torn_down, overran>>

SwitchReturns ==
    /\ rig = "pumping" /\ switch_done
    /\ booked' = IF switch_ok THEN (booked \cup asked.activate) \ asked.deactivate
                 ELSE booked
    /\ rig' = AfterSwitch
    /\ UNCHANGED <<manager, updated, switchVars, asked, torn_down, overran>>

\* The deadline passes: the worker goes on, whatever the caller does next.
SwitchOverruns ==
    /\ rig = "pumping" /\ ~switch_done
    /\ overran' = TRUE
    /\ rig' = AfterSwitch
    /\ UNCHANGED <<manager, updated, booked, switchVars, asked, torn_down>>

RigTeardown ==
    /\ rig = "idle" /\ ~torn_down
    /\ torn_down' = TRUE
    /\ IF booked = {}
       THEN rig' = "closed" /\ UNCHANGED <<switchVars, asked>>
       ELSE RequestSwitch([activate |-> {}, deactivate |-> booked])
    /\ UNCHANGED <<manager, updated, booked, overran>>

-----------------------------------------------------------------------------
Wanted == {[activate |-> cs, deactivate |-> {}] : cs \in SUBSET RigControllers \ {{}}}
          \cup {[activate |-> {}, deactivate |-> cs] : cs \in SUBSET RigControllers \ {{}}}

RigNext ==
    \/ \E c \in RigControllers :
        AddController(c) \/ (\E usable \in BOOLEAN : ConfigureController(c, usable))
    \/ \E wanted \in Wanted : Switch(wanted)
    \/ \E i \in Runners :
        \/ WorkerCallsManager(i) \/ SwitchTimesOut(i)
        \/ WorkerStoresResult(i) \/ WorkerIsDone(i)
    \/ \E works \in BOOLEAN : Update(works)
    \/ SwitchReturns \/ SwitchOverruns \/ RigTeardown

RigSpec == RigInit /\ [][RigNext]_rigVars

-----------------------------------------------------------------------------
\* As long as no switch overran its deadline, the rig has booked exactly the
\* active controllers whenever it is idle, whatever was refused, failed or
\* timed out, so its teardown deactivates all of them if its own switch
\* works; and no worker is left to use the manager once it is dropped.
RigBooksSwitches ==
    ~overran =>
        /\ rig = "idle" => booked = ActiveControllers
        /\ rig = "closed" =>
            /\ ActiveControllers \subseteq booked
            /\ \A i \in Runners : runner[i] \in {"none", "ended"}
=============================================================================
