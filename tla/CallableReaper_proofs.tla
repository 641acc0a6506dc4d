----------------------- MODULE CallableReaper_proofs -----------------------
(***************************************************************************)
(* Proofs about CallableReaper for any sets of entities and workers.       *)
(***************************************************************************)
EXTENDS CallableReaper, TLAPS

\* Which copies of the std::function exist follows from who owns the entity.
CopiesFollowOwners ==
    \A e \in Entities :
        /\ dispatch[e] = 1
             <=> FacadeOwns(e) \/ Shared(e)
        /\ wrapped[e] = 1 <=> facade[e] = "open"
        /\ cpp_callback[e] = 1 <=> FacadeOwns(e)

\* The facade and its keep-alive list own their references until closed, and
\* nothing holds or was released of an entity that does not exist yet.
PythonReferences ==
    \A e \in Entities :
        /\ owned[e] >= FacadeReferences(e)
        /\ facade[e] = "none" => ~Shared(e) /\ queued[e] = 0 /\ batch[e] = 0

\* A worker dispatches an entity of its wait set, and holds none in the middle
\* of a rebuild.
DispatchesHeld ==
    \A w \in Workers :
        /\ place[w] \in {"wants gil", "running"} => current[w] \in held[w]
        /\ place[w] = "rebuilding" => held[w] = {}

\* A callback that runs holds the GIL.
RunsUnderGIL == \A w \in Workers : place[w] = "running" => interpreter = w

\* The batch is local to a running drain, and drain() is a C++ call made with
\* the GIL.
BatchIsLocal ==
    /\ main # "drain" => \A e \in Entities : batch[e] = 0
    /\ main # "python" => interpreter = MainThread

\* How far close() has gone bounds what is left: no worker after the join, no
\* wait set after the lists are cleared, nothing queued after the last drain.
CloseProgress ==
    /\ ending \notin {"open", "join"} => \A w \in Workers : place[w] = "exited"
    /\ ending \in {"drain again", "closed"} => \A w \in Workers : held[w] = {}
    /\ ending = "drain again" /\ main = "drain"
         => \A e \in Entities : queued[e] = 0
    /\ ending = "closed" => \A e \in Entities : queued[e] = 0 /\ batch[e] = 0

IInv ==
    /\ ReaperTypeOK
    /\ RefsBalance
    /\ CopiesFollowOwners
    /\ PythonReferences
    /\ DispatchesHeld
    /\ RunsUnderGIL
    /\ BatchIsLocal
    /\ CloseProgress

USE DEF copies, objects, queues, workers

\* The values the steps give the control variables.
LEMMA ControlValues ==
    /\ \A f \in {"none", "open", "closing", "closed"} : f \in Facades
    /\ \A c \in {"python", "remove_node", "drain"} : c \in Calls
    /\ \A p \in {"idle", "rebuilding", "wants gil", "running", "exited"} :
         p \in WorkerPlaces
    /\ \A p \in {"open", "join", "drain", "clear", "drain again", "closed"} :
         p \in ReaperPhases
BY DEF Facades, Calls, WorkerPlaces, ReaperPhases

\* A destroyed copy of the std::function queues the reference it owned.
LEMMA DestroyKeepsBalance ==
    ASSUME NEW dead, CountsOK, RefsBalance, Destroy(dead),
           \A f \in dead : f \in Entities /\ dispatch[f] = 1,
           UNCHANGED <<wrapped, cpp_callback, owned, refs, batch>>
    PROVE  CountsOK' /\ RefsBalance'
BY DEF CountsOK, RefsBalance, CopyCount, Destroy

\* The initial states satisfy the inductive invariant.
LEMMA InitIInv == ReaperInit => IInv
BY ThreadAssumption DEF ReaperInit, IInv, ReaperTypeOK, CountsOK, ControlOK, Facades,
   Calls, WorkerPlaces, ReaperPhases, RefsBalance, CopyCount, CopiesFollowOwners, FacadeOwns,
   Shared, PythonReferences, FacadeReferences, DispatchesHeld, RunsUnderGIL,
   BatchIsLocal, CloseProgress

\* Every step of the program preserves it.
LEMMA StepIInv == IInv /\ [ReaperNext]_reaperVars => IInv'
<1> SUFFICES ASSUME IInv, [ReaperNext]_reaperVars PROVE IInv'
  OBVIOUS
<1> USE ThreadAssumption DEF IInv
<1>1. ASSUME NEW e \in Entities, Create(e) PROVE IInv'
  <2>1. /\ dispatch[e] = 0 /\ wrapped[e] = 0 /\ cpp_callback[e] = 0
        /\ queued[e] = 0 /\ batch[e] = 0
    BY <1>1 DEF Create, ReaperTypeOK, CountsOK, CopiesFollowOwners, FacadeOwns,
       PythonReferences
  <2>2. CountsOK'
    BY <1>1 DEF Create, ReaperTypeOK, CountsOK
  <2>3. ControlOK'
    BY <1>1, ControlValues DEF Create, ReaperTypeOK, ControlOK
  <2>4. RefsBalance'
    BY <1>1, <2>1 DEF Create, ReaperTypeOK, CountsOK, RefsBalance, CopyCount
  <2>5. CopiesFollowOwners'
    BY <1>1 DEF Create, ReaperTypeOK, CountsOK, ControlOK, CopiesFollowOwners,
       FacadeOwns, Shared
  <2>6. PythonReferences'
    BY <1>1 DEF Create, Shared, ReaperTypeOK, CountsOK, PythonReferences,
       FacadeReferences
  <2>7. DispatchesHeld'
    BY <1>1 DEF Create, DispatchesHeld
  <2>8. RunsUnderGIL'
    BY <1>1 DEF Create, RunsUnderGIL
  <2>9. BatchIsLocal'
    BY <1>1 DEF Create, BatchIsLocal
  <2>10. CloseProgress'
    BY <1>1 DEF Create, CloseProgress
  <2> QED BY <2>2, <2>3, <2>4, <2>5, <2>6, <2>7, <2>8, <2>9, <2>10 DEF ReaperTypeOK
<1>2. ASSUME NEW e \in Entities, DropUserReference(e) PROVE IInv'
  <2>1. /\ refs[e] > 0 /\ owned[e] > 0
    BY <1>2 DEF DropUserReference, ReaperTypeOK, CountsOK, RefsBalance, CopyCount,
       FacadeReferences
  <2>2. CountsOK'
    BY <1>2, <2>1 DEF DropUserReference, ReaperTypeOK, CountsOK
  <2>3. ControlOK'
    BY <1>2, ControlValues DEF DropUserReference, ReaperTypeOK, ControlOK
  <2>4. RefsBalance'
    BY <1>2 DEF DropUserReference, ReaperTypeOK, CountsOK, RefsBalance, CopyCount
  <2>5. CopiesFollowOwners'
    BY <1>2 DEF DropUserReference, CopiesFollowOwners, FacadeOwns, Shared
  <2>6. PythonReferences'
    BY <1>2 DEF DropUserReference, Shared, ReaperTypeOK, CountsOK, PythonReferences,
       FacadeReferences
  <2>7. DispatchesHeld'
    BY <1>2 DEF DropUserReference, DispatchesHeld
  <2>8. RunsUnderGIL'
    BY <1>2 DEF DropUserReference, RunsUnderGIL
  <2>9. BatchIsLocal'
    BY <1>2 DEF DropUserReference, BatchIsLocal
  <2>10. CloseProgress'
    BY <1>2 DEF DropUserReference, CloseProgress
  <2> QED BY <2>2, <2>3, <2>4, <2>5, <2>6, <2>7, <2>8, <2>9, <2>10 DEF ReaperTypeOK
<1>3. ASSUME NEW e \in Entities, CloseManaged(e) PROVE IInv'
  <2>1. /\ wrapped[e] = 1 /\ owned[e] >= 2 /\ refs[e] > 0
    BY <1>3 DEF CloseManaged, ReaperTypeOK, CountsOK, RefsBalance, CopyCount,
       CopiesFollowOwners, FacadeOwns, PythonReferences, FacadeReferences
  <2>2. CountsOK'
    BY <1>3, <2>1 DEF CloseManaged, ReaperTypeOK, CountsOK
  <2>3. ControlOK'
    BY <1>3, ControlValues DEF CloseManaged, ReaperTypeOK, ControlOK
  <2>4. RefsBalance'
    BY <1>3, <2>1 DEF CloseManaged, ReaperTypeOK, CountsOK, RefsBalance, CopyCount
  <2>5. CopiesFollowOwners'
    BY <1>3 DEF CloseManaged, ReaperTypeOK, CountsOK, ControlOK, CopiesFollowOwners,
       FacadeOwns, Shared
  <2>6. PythonReferences'
    BY <1>3 DEF CloseManaged, Shared, ReaperTypeOK, CountsOK, ControlOK,
       PythonReferences, FacadeReferences
  <2>7. DispatchesHeld'
    BY <1>3 DEF CloseManaged, DispatchesHeld
  <2>8. RunsUnderGIL'
    BY <1>3 DEF CloseManaged, RunsUnderGIL
  <2>9. BatchIsLocal'
    BY <1>3 DEF CloseManaged, BatchIsLocal
  <2>10. CloseProgress'
    BY <1>3 DEF CloseManaged, CloseProgress
  <2> QED BY <2>2, <2>3, <2>4, <2>5, <2>6, <2>7, <2>8, <2>9, <2>10 DEF ReaperTypeOK
<1>4. ASSUME NEW e \in Entities, CloseFields(e) PROVE IInv'
  <2>1. /\ dispatch[e] = 1 /\ cpp_callback[e] = 1 /\ wrapped[e] = 0
        /\ owned[e] >= 1 /\ refs[e] > 0
    BY <1>4 DEF CloseFields, ReaperTypeOK, CountsOK, RefsBalance, CopyCount,
       CopiesFollowOwners, FacadeOwns, PythonReferences, FacadeReferences
  <2>2. CountsOK'
    BY <1>4, <2>1 DEF CloseFields, ReaperTypeOK, CountsOK
  <2>3. ControlOK'
    BY <1>4, ControlValues DEF CloseFields, ReaperTypeOK, ControlOK
  <2>4. RefsBalance'
    BY <1>4, <2>1 DEF CloseFields, ReaperTypeOK, CountsOK, RefsBalance, CopyCount
  <2>5. CopiesFollowOwners'
    BY <1>4 DEF CloseFields, Shared, ReaperTypeOK, CountsOK, ControlOK,
       CopiesFollowOwners, FacadeOwns
  <2>6. PythonReferences'
    BY <1>4 DEF CloseFields, Shared, ReaperTypeOK, CountsOK, ControlOK,
       PythonReferences, FacadeReferences
  <2>7. DispatchesHeld'
    BY <1>4 DEF CloseFields, DispatchesHeld
  <2>8. RunsUnderGIL'
    BY <1>4 DEF CloseFields, RunsUnderGIL
  <2>9. BatchIsLocal'
    BY <1>4 DEF CloseFields, BatchIsLocal
  <2>10. CloseProgress'
    BY <1>4 DEF CloseFields, CloseProgress
  <2> QED BY <2>2, <2>3, <2>4, <2>5, <2>6, <2>7, <2>8, <2>9, <2>10 DEF ReaperTypeOK
<1>5. ASSUME NEW e \in Entities, DrainReleases(e) PROVE IInv'
  <2>1. batch[e] # 0
    BY <1>5 DEF DrainReleases
  <2>2. ending # "closed"
    BY <1>5, <2>1 DEF DrainReleases, CloseProgress
  <2>3. refs[e] > 0
    BY <1>5 DEF DrainReleases, ReaperTypeOK, CountsOK, RefsBalance, CopyCount
  <2>4. CountsOK'
    BY <1>5, <2>3 DEF DrainReleases, ReaperTypeOK, CountsOK
  <2>5. ControlOK'
    BY <1>5, ControlValues DEF DrainReleases, ReaperTypeOK, ControlOK
  <2>6. RefsBalance'
    BY <1>5 DEF DrainReleases, ReaperTypeOK, CountsOK, RefsBalance, CopyCount
  <2>7. CopiesFollowOwners'
    BY <1>5 DEF DrainReleases, CopiesFollowOwners, FacadeOwns, Shared
  <2>8. PythonReferences'
    BY <1>5 DEF DrainReleases, Shared, PythonReferences, FacadeReferences
  <2>9. DispatchesHeld'
    BY <1>5 DEF DrainReleases, DispatchesHeld
  <2>10. RunsUnderGIL'
    BY <1>5 DEF DrainReleases, RunsUnderGIL
  <2>11. BatchIsLocal'
    BY <1>5 DEF DrainReleases, BatchIsLocal
  <2>12. CloseProgress'
    BY <1>5, <2>2 DEF DrainReleases, CloseProgress
  <2> QED BY <2>4, <2>5, <2>6, <2>7, <2>8, <2>9, <2>10, <2>11, <2>12 DEF ReaperTypeOK
<1>6. CASE MainYields
  <2>1. CountsOK'
    BY <1>6 DEF MainYields, ReaperTypeOK, CountsOK
  <2>2. ControlOK'
    BY <1>6, ControlValues DEF MainYields, ReaperTypeOK, ControlOK
  <2>3. RefsBalance'
    BY <1>6 DEF MainYields, RefsBalance, CopyCount
  <2>4. CopiesFollowOwners'
    BY <1>6 DEF MainYields, CopiesFollowOwners, FacadeOwns, Shared
  <2>5. PythonReferences'
    BY <1>6 DEF MainYields, Shared, PythonReferences, FacadeReferences
  <2>6. DispatchesHeld'
    BY <1>6 DEF MainYields, DispatchesHeld
  <2>7. RunsUnderGIL'
    BY <1>6 DEF MainYields, RunsUnderGIL
  <2>8. BatchIsLocal'
    BY <1>6 DEF MainYields, BatchIsLocal
  <2>9. CloseProgress'
    BY <1>6 DEF MainYields, CloseProgress
  <2> QED BY <2>1, <2>2, <2>3, <2>4, <2>5, <2>6, <2>7, <2>8, <2>9 DEF ReaperTypeOK
<1>7. CASE MainResumes
  <2>1. CountsOK'
    BY <1>7 DEF MainResumes, ReaperTypeOK, CountsOK
  <2>2. ControlOK'
    BY <1>7, ControlValues DEF MainResumes, ReaperTypeOK, ControlOK
  <2>3. RefsBalance'
    BY <1>7 DEF MainResumes, RefsBalance, CopyCount
  <2>4. CopiesFollowOwners'
    BY <1>7 DEF MainResumes, CopiesFollowOwners, FacadeOwns, Shared
  <2>5. PythonReferences'
    BY <1>7 DEF MainResumes, Shared, PythonReferences, FacadeReferences
  <2>6. DispatchesHeld'
    BY <1>7 DEF MainResumes, DispatchesHeld
  <2>7. RunsUnderGIL'
    BY <1>7 DEF MainResumes, RunsUnderGIL
  <2>8. BatchIsLocal'
    BY <1>7 DEF MainResumes, BatchIsLocal
  <2>9. CloseProgress'
    BY <1>7 DEF MainResumes, CloseProgress
  <2> QED BY <2>1, <2>2, <2>3, <2>4, <2>5, <2>6, <2>7, <2>8, <2>9 DEF ReaperTypeOK
<1>8. ASSUME NEW w \in Workers, RebuildDrops(w) PROVE IInv'
  <2>1. \A f \in Dying({w}) : f \in Entities /\ dispatch[f] = 1
    BY <1>8 DEF RebuildDrops, Destroy, Dying, CopiesFollowOwners, Shared
  <2>2. CountsOK'
    BY <1>8, <2>1, DestroyKeepsBalance DEF RebuildDrops, ReaperTypeOK
  <2>3. ControlOK'
    BY <1>8, ControlValues DEF RebuildDrops, Destroy, ReaperTypeOK, ControlOK
  <2>4. RefsBalance'
    BY <1>8, <2>1, DestroyKeepsBalance DEF RebuildDrops, ReaperTypeOK
  <2>5. CopiesFollowOwners'
    BY <1>8 DEF RebuildDrops, Destroy, ReaperTypeOK, ControlOK, CopiesFollowOwners,
       FacadeOwns, Shared, Dying
  <2>6. PythonReferences'
    BY <1>8 DEF RebuildDrops, Destroy, Shared, PythonReferences,
       FacadeReferences, Dying
  <2>7. DispatchesHeld'
    BY <1>8 DEF RebuildDrops, Destroy, ReaperTypeOK, ControlOK, DispatchesHeld
  <2>8. RunsUnderGIL'
    BY <1>8 DEF RebuildDrops, Destroy, RunsUnderGIL
  <2>9. BatchIsLocal'
    BY <1>8 DEF RebuildDrops, Destroy, BatchIsLocal
  <2>10. CloseProgress'
    BY <1>8 DEF RebuildDrops, Destroy, CloseProgress
  <2> QED BY <2>2, <2>3, <2>4, <2>5, <2>6, <2>7, <2>8, <2>9, <2>10 DEF ReaperTypeOK
<1>9. ASSUME NEW w \in Workers, RebuildTakes(w) PROVE IInv'
  <2>1. CountsOK'
    BY <1>9 DEF RebuildTakes, ReaperTypeOK, CountsOK
  <2>2. ControlOK'
    BY <1>9, ControlValues DEF RebuildTakes, ReaperTypeOK, ControlOK
  <2>3. RefsBalance'
    BY <1>9 DEF RebuildTakes, RefsBalance, CopyCount
  <2>4. CopiesFollowOwners'
    <3>1. \A v \in Workers : held'[v] \subseteq held[v]
                               \union {e \in Entities : FacadeOwns(e)}
      BY <1>9 DEF RebuildTakes, ReaperTypeOK, ControlOK
    <3>2. \A e \in Entities : Shared(e)' => Shared(e) \/ FacadeOwns(e)
      BY <3>1 DEF Shared
    <3>3. \A v \in Workers : held[v] \subseteq held'[v]
      BY <1>9 DEF RebuildTakes, ReaperTypeOK, ControlOK, DispatchesHeld
    <3>4. \A e \in Entities : Shared(e) => Shared(e)'
      BY <3>3 DEF Shared
    <3>5. \A e \in Entities : FacadeOwns(e)' <=> FacadeOwns(e)
      BY <1>9 DEF RebuildTakes, FacadeOwns
    <3>6. /\ dispatch' = dispatch /\ wrapped' = wrapped
          /\ cpp_callback' = cpp_callback /\ facade' = facade
      BY <1>9 DEF RebuildTakes
    <3> QED
      BY <3>2, <3>4, <3>5, <3>6 DEF CopiesFollowOwners
  <2>5. PythonReferences'
    BY <1>9 DEF RebuildTakes, Shared, PythonReferences, FacadeReferences,
       FacadeOwns
  <2>6. DispatchesHeld'
    BY <1>9 DEF RebuildTakes, ReaperTypeOK, ControlOK, DispatchesHeld
  <2>7. RunsUnderGIL'
    BY <1>9 DEF RebuildTakes, RunsUnderGIL
  <2>8. BatchIsLocal'
    BY <1>9 DEF RebuildTakes, BatchIsLocal
  <2>9. CloseProgress'
    BY <1>9 DEF RebuildTakes, CloseProgress
  <2> QED BY <2>1, <2>2, <2>3, <2>4, <2>5, <2>6, <2>7, <2>8, <2>9 DEF ReaperTypeOK
<1>10. ASSUME NEW w \in Workers, CallbackRuns(w) PROVE IInv'
  <2>1. CountsOK'
    BY <1>10 DEF CallbackRuns, ReaperTypeOK, CountsOK
  <2>2. ControlOK'
    BY <1>10, ControlValues DEF CallbackRuns, ReaperTypeOK, ControlOK
  <2>3. RefsBalance'
    BY <1>10 DEF CallbackRuns, RefsBalance, CopyCount
  <2>4. CopiesFollowOwners'
    BY <1>10 DEF CallbackRuns, CopiesFollowOwners, FacadeOwns, Shared
  <2>5. PythonReferences'
    BY <1>10 DEF CallbackRuns, Shared, PythonReferences, FacadeReferences
  <2>6. DispatchesHeld'
    BY <1>10 DEF CallbackRuns, ReaperTypeOK, ControlOK, DispatchesHeld
  <2>7. RunsUnderGIL'
    BY <1>10 DEF CallbackRuns, ReaperTypeOK, ControlOK, RunsUnderGIL
  <2>8. BatchIsLocal'
    BY <1>10 DEF CallbackRuns, BatchIsLocal
  <2>9. CloseProgress'
    BY <1>10 DEF CallbackRuns, CloseProgress
  <2> QED BY <2>1, <2>2, <2>3, <2>4, <2>5, <2>6, <2>7, <2>8, <2>9 DEF ReaperTypeOK
<1>11. ASSUME NEW w \in Workers, CallbackReturns(w) PROVE IInv'
  <2>1. CountsOK'
    BY <1>11 DEF CallbackReturns, ReaperTypeOK, CountsOK
  <2>2. ControlOK'
    BY <1>11, ControlValues DEF CallbackReturns, ReaperTypeOK, ControlOK
  <2>3. RefsBalance'
    BY <1>11 DEF CallbackReturns, RefsBalance, CopyCount
  <2>4. CopiesFollowOwners'
    BY <1>11 DEF CallbackReturns, CopiesFollowOwners, FacadeOwns, Shared
  <2>5. PythonReferences'
    BY <1>11 DEF CallbackReturns, Shared, PythonReferences, FacadeReferences
  <2>6. DispatchesHeld'
    BY <1>11 DEF CallbackReturns, ReaperTypeOK, ControlOK, DispatchesHeld
  <2>7. RunsUnderGIL'
    BY <1>11 DEF CallbackReturns, ReaperTypeOK, ControlOK, RunsUnderGIL
  <2>8. BatchIsLocal'
    BY <1>11 DEF CallbackReturns, BatchIsLocal, RunsUnderGIL
  <2>9. CloseProgress'
    BY <1>11 DEF CallbackReturns, CloseProgress
  <2> QED BY <2>1, <2>2, <2>3, <2>4, <2>5, <2>6, <2>7, <2>8, <2>9 DEF ReaperTypeOK
<1>12. ASSUME NEW w \in Workers, WorkerExits(w) PROVE IInv'
  <2>1. CountsOK'
    BY <1>12 DEF WorkerExits, ReaperTypeOK, CountsOK
  <2>2. ControlOK'
    BY <1>12, ControlValues DEF WorkerExits, ReaperTypeOK, ControlOK
  <2>3. RefsBalance'
    BY <1>12 DEF WorkerExits, RefsBalance, CopyCount
  <2>4. CopiesFollowOwners'
    BY <1>12 DEF WorkerExits, CopiesFollowOwners, FacadeOwns, Shared
  <2>5. PythonReferences'
    BY <1>12 DEF WorkerExits, Shared, PythonReferences, FacadeReferences
  <2>6. DispatchesHeld'
    BY <1>12 DEF WorkerExits, ReaperTypeOK, ControlOK, DispatchesHeld
  <2>7. RunsUnderGIL'
    BY <1>12 DEF WorkerExits, RunsUnderGIL
  <2>8. BatchIsLocal'
    BY <1>12 DEF WorkerExits, BatchIsLocal
  <2>9. CloseProgress'
    BY <1>12 DEF WorkerExits, CloseProgress
  <2> QED BY <2>1, <2>2, <2>3, <2>4, <2>5, <2>6, <2>7, <2>8, <2>9 DEF ReaperTypeOK
<1>13. ASSUME NEW w \in Workers, NEW e \in Entities, Dispatch(w, e) PROVE IInv'
  <2>1. CountsOK'
    BY <1>13 DEF Dispatch, ReaperTypeOK, CountsOK
  <2>2. ControlOK'
    BY <1>13, ControlValues DEF Dispatch, ReaperTypeOK, ControlOK
  <2>3. RefsBalance'
    BY <1>13 DEF Dispatch, RefsBalance, CopyCount
  <2>4. CopiesFollowOwners'
    BY <1>13 DEF Dispatch, CopiesFollowOwners, FacadeOwns, Shared
  <2>5. PythonReferences'
    BY <1>13 DEF Dispatch, Shared, PythonReferences, FacadeReferences
  <2>6. DispatchesHeld'
    BY <1>13 DEF Dispatch, ReaperTypeOK, ControlOK, DispatchesHeld
  <2>7. RunsUnderGIL'
    BY <1>13 DEF Dispatch, ReaperTypeOK, ControlOK, RunsUnderGIL
  <2>8. BatchIsLocal'
    BY <1>13 DEF Dispatch, BatchIsLocal
  <2>9. CloseProgress'
    BY <1>13 DEF Dispatch, CloseProgress
  <2> QED BY <2>1, <2>2, <2>3, <2>4, <2>5, <2>6, <2>7, <2>8, <2>9 DEF ReaperTypeOK
<1>14. CASE RemoveNodeCalled
  <2>1. CountsOK'
    BY <1>14 DEF RemoveNodeCalled, ReaperTypeOK, CountsOK
  <2>2. ControlOK'
    BY <1>14, ControlValues DEF RemoveNodeCalled, ReaperTypeOK, ControlOK
  <2>3. RefsBalance'
    BY <1>14 DEF RemoveNodeCalled, RefsBalance, CopyCount
  <2>4. CopiesFollowOwners'
    BY <1>14 DEF RemoveNodeCalled, CopiesFollowOwners, FacadeOwns, Shared
  <2>5. PythonReferences'
    BY <1>14 DEF RemoveNodeCalled, Shared, PythonReferences, FacadeReferences
  <2>6. DispatchesHeld'
    BY <1>14 DEF RemoveNodeCalled, DispatchesHeld
  <2>7. RunsUnderGIL'
    BY <1>14 DEF RemoveNodeCalled, RunsUnderGIL
  <2>8. BatchIsLocal'
    BY <1>14 DEF RemoveNodeCalled, MainRuns, BatchIsLocal
  <2>9. CloseProgress'
    BY <1>14 DEF RemoveNodeCalled, CloseProgress
  <2> QED BY <2>1, <2>2, <2>3, <2>4, <2>5, <2>6, <2>7, <2>8, <2>9 DEF ReaperTypeOK
<1>15. CASE RemoveNodeReturns
  <2>1. CountsOK'
    BY <1>15 DEF RemoveNodeReturns, ReaperTypeOK, CountsOK
  <2>2. ControlOK'
    BY <1>15, ControlValues DEF RemoveNodeReturns, ReaperTypeOK, ControlOK
  <2>3. RefsBalance'
    BY <1>15 DEF RemoveNodeReturns, RefsBalance, CopyCount
  <2>4. CopiesFollowOwners'
    BY <1>15 DEF RemoveNodeReturns, CopiesFollowOwners, FacadeOwns, Shared
  <2>5. PythonReferences'
    BY <1>15 DEF RemoveNodeReturns, Shared, PythonReferences, FacadeReferences
  <2>6. DispatchesHeld'
    BY <1>15 DEF RemoveNodeReturns, DispatchesHeld
  <2>7. RunsUnderGIL'
    BY <1>15 DEF RemoveNodeReturns, RunsUnderGIL
  <2>8. BatchIsLocal'
    BY <1>15 DEF RemoveNodeReturns, BatchIsLocal
  <2>9. CloseProgress'
    BY <1>15 DEF RemoveNodeReturns, CloseProgress
  <2> QED BY <2>1, <2>2, <2>3, <2>4, <2>5, <2>6, <2>7, <2>8, <2>9 DEF ReaperTypeOK
<1>16. CASE DrainSwaps
  <2>1. \A f \in Entities : batch[f] = 0
    BY <1>16 DEF DrainSwaps, BatchIsLocal
  <2>2. CountsOK'
    BY <1>16 DEF DrainSwaps, ReaperTypeOK, CountsOK
  <2>3. ControlOK'
    BY <1>16, ControlValues DEF DrainSwaps, ReaperTypeOK, ControlOK
  <2>4. RefsBalance'
    <3> SUFFICES ASSUME NEW f \in Entities
                 PROVE  (refs[f] = owned[f] + CopyCount(f) + queued[f] + batch[f])'
      BY DEF RefsBalance
    <3>1. refs[f] = owned[f] + CopyCount(f) + queued[f]
      BY <2>1 DEF RefsBalance, CopyCount, ReaperTypeOK, CountsOK
    <3>2. /\ batch'[f] = queued[f] /\ queued'[f] = 0
          /\ refs'[f] = refs[f] /\ owned'[f] = owned[f]
          /\ CopyCount(f)' = CopyCount(f)
      BY <1>16 DEF DrainSwaps, CopyCount
    <3>3. /\ owned[f] \in Nat /\ queued[f] \in Nat
          /\ CopyCount(f) \in Nat
      BY DEF ReaperTypeOK, CountsOK, CopyCount
    <3> QED
      BY <3>1, <3>2, <3>3
  <2>5. CopiesFollowOwners'
    BY <1>16 DEF DrainSwaps, CopiesFollowOwners, FacadeOwns, Shared
  <2>6. PythonReferences'
    BY <1>16 DEF DrainSwaps, Shared, PythonReferences, FacadeReferences
  <2>7. DispatchesHeld'
    BY <1>16 DEF DrainSwaps, DispatchesHeld
  <2>8. RunsUnderGIL'
    BY <1>16 DEF DrainSwaps, RunsUnderGIL
  <2>9. BatchIsLocal'
    BY <1>16 DEF DrainSwaps, BatchIsLocal
  <2>10. CloseProgress'
    BY <1>16 DEF DrainSwaps, CloseProgress
  <2> QED BY <2>2, <2>3, <2>4, <2>5, <2>6, <2>7, <2>8, <2>9, <2>10 DEF ReaperTypeOK
<1>17. CASE DrainEnds
  <2>1. CountsOK'
    BY <1>17 DEF DrainEnds, ReaperTypeOK, CountsOK, AfterDrain
  <2>2. ControlOK'
    BY <1>17, ControlValues DEF DrainEnds, ReaperTypeOK, ControlOK, AfterDrain
  <2>3. RefsBalance'
    BY <1>17 DEF DrainEnds, RefsBalance, CopyCount, AfterDrain
  <2>4. CopiesFollowOwners'
    BY <1>17 DEF DrainEnds, CopiesFollowOwners, FacadeOwns, Shared, AfterDrain
  <2>5. PythonReferences'
    BY <1>17 DEF DrainEnds, Shared, PythonReferences, FacadeReferences,
       AfterDrain
  <2>6. DispatchesHeld'
    BY <1>17 DEF DrainEnds, DispatchesHeld, AfterDrain
  <2>7. RunsUnderGIL'
    BY <1>17 DEF DrainEnds, RunsUnderGIL, AfterDrain
  <2>8. BatchIsLocal'
    BY <1>17 DEF DrainEnds, BatchIsLocal, AfterDrain
  <2>9. CloseProgress'
    BY <1>17 DEF DrainEnds, CloseProgress, AfterDrain
  <2> QED BY <2>1, <2>2, <2>3, <2>4, <2>5, <2>6, <2>7, <2>8, <2>9 DEF ReaperTypeOK
<1>18. CASE SessionCloses
  <2>1. CountsOK'
    BY <1>18 DEF SessionCloses, ReaperTypeOK, CountsOK
  <2>2. ControlOK'
    BY <1>18, ControlValues DEF SessionCloses, ReaperTypeOK, ControlOK
  <2>3. RefsBalance'
    BY <1>18 DEF SessionCloses, RefsBalance, CopyCount
  <2>4. CopiesFollowOwners'
    BY <1>18 DEF SessionCloses, CopiesFollowOwners, FacadeOwns, Shared
  <2>5. PythonReferences'
    BY <1>18 DEF SessionCloses, Shared, PythonReferences, FacadeReferences
  <2>6. DispatchesHeld'
    BY <1>18 DEF SessionCloses, DispatchesHeld
  <2>7. RunsUnderGIL'
    BY <1>18 DEF SessionCloses, RunsUnderGIL
  <2>8. BatchIsLocal'
    BY <1>18 DEF SessionCloses, BatchIsLocal
  <2>9. CloseProgress'
    BY <1>18 DEF SessionCloses, CloseProgress
  <2> QED BY <2>1, <2>2, <2>3, <2>4, <2>5, <2>6, <2>7, <2>8, <2>9 DEF ReaperTypeOK
<1>19. CASE SessionJoins
  <2>1. CountsOK'
    BY <1>19 DEF SessionJoins, ReaperTypeOK, CountsOK
  <2>2. ControlOK'
    BY <1>19, ControlValues DEF SessionJoins, ReaperTypeOK, ControlOK
  <2>3. RefsBalance'
    BY <1>19 DEF SessionJoins, RefsBalance, CopyCount
  <2>4. CopiesFollowOwners'
    BY <1>19 DEF SessionJoins, CopiesFollowOwners, FacadeOwns, Shared
  <2>5. PythonReferences'
    BY <1>19 DEF SessionJoins, Shared, PythonReferences, FacadeReferences
  <2>6. DispatchesHeld'
    BY <1>19 DEF SessionJoins, DispatchesHeld
  <2>7. RunsUnderGIL'
    BY <1>19 DEF SessionJoins, RunsUnderGIL
  <2>8. BatchIsLocal'
    BY <1>19 DEF SessionJoins, BatchIsLocal
  <2>9. CloseProgress'
    BY <1>19 DEF SessionJoins, CloseProgress
  <2> QED BY <2>1, <2>2, <2>3, <2>4, <2>5, <2>6, <2>7, <2>8, <2>9 DEF ReaperTypeOK
<1>20. CASE SessionClears
  <2>1. \A f \in Dying(Workers) : f \in Entities /\ dispatch[f] = 1
    BY <1>20 DEF SessionClears, Destroy, Dying, CopiesFollowOwners, Shared
  <2>2. CountsOK'
    BY <1>20, <2>1, DestroyKeepsBalance DEF SessionClears, ReaperTypeOK
  <2>3. ControlOK'
    BY <1>20, ControlValues DEF SessionClears, Destroy, ReaperTypeOK, ControlOK
  <2>4. RefsBalance'
    BY <1>20, <2>1, DestroyKeepsBalance DEF SessionClears, ReaperTypeOK
  <2>5. CopiesFollowOwners'
    BY <1>20 DEF SessionClears, Destroy, ReaperTypeOK, CountsOK, CopiesFollowOwners,
       FacadeOwns, Shared, Dying
  <2>6. PythonReferences'
    BY <1>20 DEF SessionClears, Destroy, Shared, PythonReferences,
       FacadeReferences, Dying
  <2>7. DispatchesHeld'
    BY <1>20 DEF SessionClears, MainRuns, Destroy, DispatchesHeld, CloseProgress
  <2>8. RunsUnderGIL'
    BY <1>20 DEF SessionClears, Destroy, RunsUnderGIL
  <2>9. BatchIsLocal'
    BY <1>20 DEF SessionClears, Destroy, BatchIsLocal
  <2>10. CloseProgress'
    BY <1>20 DEF SessionClears, MainRuns, Destroy, CloseProgress
  <2> QED BY <2>2, <2>3, <2>4, <2>5, <2>6, <2>7, <2>8, <2>9, <2>10 DEF ReaperTypeOK
<1>21. CASE UNCHANGED reaperVars
  BY <1>21 DEF reaperVars, ReaperTypeOK, CountsOK, ControlOK, RefsBalance, CopyCount,
     CopiesFollowOwners, FacadeOwns, Shared, PythonReferences, FacadeReferences,
     DispatchesHeld, RunsUnderGIL, BatchIsLocal, CloseProgress
<1> QED
  BY <1>1, <1>2, <1>3, <1>4, <1>5, <1>6, <1>7, <1>8, <1>9, <1>10, <1>11, <1>12,
     <1>13, <1>14, <1>15, <1>16, <1>17, <1>18, <1>19, <1>20, <1>21 DEF ReaperNext

\* TLC's invariants follow from the inductive one.
LEMMA IInvImplies == IInv => CallableOutlivesDispatch /\ ClosedReleasesAll
<1> SUFFICES ASSUME IInv PROVE CallableOutlivesDispatch /\ ClosedReleasesAll
  OBVIOUS
<1>1. ASSUME NEW w \in Workers, NEW e \in held[w]
      PROVE  dispatch[e] = 1 /\ refs[e] > 0
  <2>1. e \in Entities /\ dispatch[e] = 1
    BY <1>1 DEF IInv, ReaperTypeOK, ControlOK, CopiesFollowOwners, Shared
  <2> QED
    BY <2>1 DEF IInv, ReaperTypeOK, CountsOK, RefsBalance, CopyCount
<1>2. ASSUME NEW e \in Entities, ending = "closed", facade[e] = "closed"
      PROVE  refs[e] = owned[e]
  <2>1. ~FacadeOwns(e) /\ ~Shared(e)
    BY <1>2 DEF IInv, CloseProgress, FacadeOwns, Shared
  <2>2. dispatch[e] = 0 /\ wrapped[e] = 0 /\ cpp_callback[e] = 0
    BY <1>2, <2>1 DEF IInv, ReaperTypeOK, CountsOK, CopiesFollowOwners, FacadeOwns
  <2> QED
    BY <1>2, <2>2 DEF IInv, ReaperTypeOK, CountsOK, CloseProgress, RefsBalance,
       CopyCount
<1> QED
  BY <1>1, <1>2 DEF CallableOutlivesDispatch, ClosedReleasesAll, IInv,
     DispatchesHeld

\* The inductive invariant holds throughout.
THEOREM InductiveInvariant == ReaperSpec => []IInv
BY InitIInv, StepIInv, PTL DEF ReaperSpec

\* The state always has the types its variables are declared with.
THEOREM TypeCorrect == ReaperSpec => []ReaperTypeOK
<1>1. IInv => ReaperTypeOK
  BY DEF IInv
<1> QED BY <1>1, InductiveInvariant, PTL

\* No reference of a callable is lost or released twice, for any number of
\* entities and workers: the count is what Python owns, the living copies of
\* the std::function and the queued releases.
THEOREM ReferencesBalance == ReaperSpec => []RefsBalance
<1>1. IInv => RefsBalance
  BY DEF IInv
<1> QED BY <1>1, InductiveInvariant, PTL

\* A worker that may dispatch an entity, or is dispatching it, finds the
\* entity's copy of the callable and a positive reference count.
THEOREM DispatchedCallableLives == ReaperSpec => []CallableOutlivesDispatch
BY InductiveInvariant, IInvImplies, PTL

\* After NativeSession.close the native side holds no reference to the callable
\* of a subscription that was closed before it.
THEOREM CloseLeavesNothing == ReaperSpec => []ClosedReleasesAll
BY InductiveInvariant, IInvImplies, PTL

\* Reference counts change only on the thread that holds the GIL, and never in
\* a step that rebuilds a wait set.
THEOREM OnlyUnderGIL == ReaperSpec => CountsChangeUnderGIL
<1> DEFINE Step == refs' # refs => interpreter # Nobody /\ UNCHANGED <<held, place, mutex>>
<1>1. IInv /\ [ReaperNext]_reaperVars => [Step]_reaperVars
  BY ThreadAssumption DEF IInv, BatchIsLocal, ReaperNext, reaperVars, InInterpreter, Create,
     DropUserReference, CloseManaged, CloseFields, DrainReleases, MainYields,
     MainResumes, RebuildDrops, RebuildTakes, CallbackRuns, CallbackReturns,
     WorkerExits, Dispatch, RemoveNodeCalled, RemoveNodeReturns, DrainSwaps,
     DrainEnds, SessionCloses, SessionJoins, SessionClears
<1> QED
  BY <1>1, InductiveInvariant, PTL DEF ReaperSpec, CountsChangeUnderGIL
=============================================================================
