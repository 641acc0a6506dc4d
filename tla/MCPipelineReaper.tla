-------------------------- MODULE MCPipelineReaper --------------------------
(***************************************************************************)
(* The fused pipeline and the callable reaper in one run: a behaviour      *)
(* picks one of them at the start and only that one moves.  The reaper has *)
(* two entities shared by two workers: one wait set can be the last owner  *)
(* of an entity the other has already dropped.                             *)
(***************************************************************************)
EXTENDS MCFusedPipeline, CallableReaper

CONSTANTS e1, e2

MCEntities == {e1, e2}

VARIABLE component  \* the component that moves

queueVars == <<component, vars, reaperVars>>

QueuesInit ==
    /\ component \in {"pipeline", "reaper"}
    /\ Init /\ ReaperInit
    /\ component # "pipeline" => policy = "every"
    /\ current = [w \in Workers |-> e1]

Chosen(c) == component = c

OnlyPipeline == Chosen("pipeline") /\ UNCHANGED <<component, reaperVars>>
OnlyReaper == Chosen("reaper") /\ UNCHANGED <<component, vars>>

QueuesNext ==
    \/ OnlyPipeline /\ Next
    \/ OnlyReaper /\ ReaperNext

\* The fairness of FusedPipeline and of CallableReaper.
QueuesFairness ==
    /\ WF_vars(Chosen("pipeline") /\ Gate)
    /\ WF_vars(Chosen("pipeline") /\ NotifyOne)
    /\ SF_vars(Chosen("pipeline") /\ (StoreLatest \/ StoreBatch))
    /\ \A t \in Threads : WF_vars(Chosen("pipeline") /\ ProcessOne(t))
    /\ WF_vars(Chosen("pipeline") /\ WorkerLoop)
    /\ WF_vars(Chosen("pipeline") /\ CloseStep)
    /\ \A w \in Workers : WF_reaperVars(Chosen("reaper") /\ RebuildTakes(w))
    /\ SF_reaperVars(Chosen("reaper") /\ RemoveNodeReturns)

QueuesSpec == QueuesInit /\ [][QueuesNext]_queueVars /\ QueuesFairness
=============================================================================
