---------------------------- MODULE MCComponents ----------------------------
(***************************************************************************)
(* The components that promise that a call returns, and the session with a *)
(* pipeline as its resource, in one run: a behaviour picks one of them at  *)
(* the start and only that one moves, so the states are the sum of theirs  *)
(* and not the product.                                                    *)
(***************************************************************************)
EXTENDS NativeActionClient, NativeParameters, SessionPipeline

VARIABLE component  \* the component that moves

allVars == <<component, actionClientVars, parameterVars, vars, pipeVars>>

ComponentsInit ==
    /\ component \in {"action_client", "parameters", "pipelined"}
    /\ ActionClientInit
    /\ NativeParametersInit
    /\ Init /\ PipelineInit
    \* One starting point for a component that does not move.
    /\ component # "parameters" => bridge_open = [b \in Bridges |-> TRUE]
    /\ component # "pipelined" => delivery = "every"

Chosen(c) == component = c

OnlyActionClient ==
    /\ Chosen("action_client")
    /\ UNCHANGED <<component, parameterVars, vars, pipeVars>>
OnlyParameters ==
    /\ Chosen("parameters")
    /\ UNCHANGED <<component, actionClientVars, vars, pipeVars>>
OnlyPipelined ==
    /\ Chosen("pipelined")
    /\ UNCHANGED <<component, actionClientVars, parameterVars>>

ComponentsNext ==
    \/ OnlyActionClient /\ ActionClientNext
    \/ OnlyParameters /\ NativeParametersNext
    \/ OnlyPipelined /\ (SessionStep \/ PipelineStep)

ComponentsSpec == ComponentsInit /\ [][ComponentsNext]_allVars

\* The fairness of the two components that promise to return.
ComponentsFairness ==
    /\ WF_actionClientVars(Chosen("action_client") /\ CallingStep)
    /\ WF_actionClientVars(Chosen("action_client") /\ ExecutingStep)
    /\ \A t \in ParameterThreads :
        /\ SF_parameterVars(Chosen("parameters") /\ ParameterStep(t))
        /\ SF_parameterVars(Chosen("parameters") /\ GoOn(t))

FairComponentsSpec == ComponentsSpec /\ ComponentsFairness
=============================================================================
