----------------------- MODULE NativeSession_proofs -----------------------
(***************************************************************************)
(* Proofs about NativeSession for any executors and resources, about a     *)
(* pipeline that is one of them (SessionPipeline), and about the wait sets *)
(* of NativeWaitSet for any threads.                                       *)
(***************************************************************************)
EXTENDS SessionPipeline, NativeWaitSet, SequenceTheorems, TLAPS

Cleared == {"drain again", "shutdown", "closed"}

\* A thread holds the GIL exactly while it runs a Python callback.
GilIsPythons == \A x \in Executors : gil = x <=> thread[x] = "python"

CallerIsClosing == caller = NoThread <=> phase = "open"

\* The session knows every thread it started until it clears its lists.
StartedKnown ==
    phase \notin Cleared =>
        \A x \in Executors : thread[x] # "none" =>
            \E i \in 1 .. Len(started) : started[i] = x

\* Whoever stopped a thread, user or close(), has joined it, or still does.
StoppedEnds ==
    \A x \in Executors :
        stopped[x] => thread[x] = "exited" \/ joining = x \/ x = caller

JoinProgress ==
    /\ phase \in {"cancel", "join"} => cursor <= Len(started)
    /\ phase = "join" =>
        \A i \in 1 .. Len(started) : i > cursor => stopped[started[i]]

\* Resources are numbered as they are registered, and the loop over them has
\* released those above the cursor.
ReleaseProgress ==
    /\ phase \notin Cleared =>
        Len(resources) = registered /\ \A i \in 1 .. registered : resources[i] = i
    /\ phase \in {"open", "cancel", "join", "drain"} => Len(released) = 0
    /\ phase = "release" =>
        cursor <= registered /\ Len(released) = registered - cursor
    /\ phase \in {"clear"} \union Cleared => Len(released) = registered
    /\ \A i \in 1 .. Len(released) : released[i] = registered + 1 - i

SessionIInv ==
    /\ TypeOK
    /\ GilIsPythons
    /\ CallerIsClosing
    /\ StartedKnown
    /\ StoppedEnds
    /\ JoinProgress
    /\ JoinedBeforeDrain
    /\ ReleaseProgress

LEMMA RegisteredIsNat ==
    ASSUME registered \in 0 .. MaxResources PROVE registered \in Nat
BY BoundAssumption

LEMMA InitSessionIInv == Init => SessionIInv
<1> SUFFICES ASSUME Init PROVE SessionIInv
  OBVIOUS
<1>1. valid \in BOOLEAN /\ spinning \in [Executors -> BOOLEAN]
        /\ interrupt \in [Executors -> BOOLEAN] /\ stopped \in [Executors -> BOOLEAN]
  BY DEF Init
<1>2. TypeOK
  BY <1>1, BoundAssumption DEF Init, TypeOK, Phases, Places, Threads, Resources
<1>3. GilIsPythons /\ CallerIsClosing /\ StartedKnown /\ StoppedEnds
  BY ExecutorAssumption DEF Init, GilIsPythons, CallerIsClosing, StartedKnown,
     StoppedEnds
<1>4. JoinProgress /\ JoinedBeforeDrain /\ ReleaseProgress
  BY DEF Init, JoinProgress, JoinedBeforeDrain, Joined, ReleaseProgress, Cleared
<1> QED
  BY <1>2, <1>3, <1>4 DEF SessionIInv

-----------------------------------------------------------------------------
(* Steps of the threads leave the session's variables alone.               *)

ThreadStep ==
    \/ \E t \in Threads : Yield(t)
    \/ MainTakesGil
    \/ \E x \in Executors : Worker(x) \/ WorkerTakesGil(x) \/ WaitEnds(x)

\* A thread that moves was alive, and none comes to life.
LEMMA ThreadsMove ==
    ASSUME SessionIInv, ThreadStep
    PROVE  /\ UNCHANGED <<sessionVars, resourceVars, valid>>
           /\ gil' \in Threads \union {NoThread}
           /\ thread' \in [Executors -> Places]
           /\ spinning' \in [Executors -> BOOLEAN]
           /\ interrupt' \in [Executors -> BOOLEAN]
           /\ \A x \in Executors :
                thread'[x] # thread[x] => Alive(x) /\ thread'[x] # "none"
           /\ GilIsPythons'
<1> USE DEF SessionIInv, TypeOK, Threads
<1>1. ASSUME NEW t \in Threads, Yield(t)
      PROVE  /\ thread' \in [Executors -> Places]
             /\ \A x \in Executors :
                  thread'[x] # thread[x] => Alive(x) /\ thread'[x] # "none"
             /\ GilIsPythons'
  BY <1>1, ExecutorAssumption DEF Yield, GilIsPythons, Alive, Places
<1>2. ASSUME MainTakesGil
      PROVE  GilIsPythons'
  BY <1>2, ExecutorAssumption DEF MainTakesGil, GilIsPythons
<1>3. ASSUME NEW y \in Executors, WorkerTakesGil(y) \/ PythonCallbackReturns(y)
      PROVE  /\ thread' \in [Executors -> Places]
             /\ \A x \in Executors :
                  thread'[x] # thread[x] => Alive(x) /\ thread'[x] # "none"
             /\ GilIsPythons'
  BY <1>3, ExecutorAssumption DEF WorkerTakesGil, PythonCallbackReturns,
     GilIsPythons, Alive, Places
<1>4. ASSUME NEW y \in Executors,
             \/ ThreadStarts(y) \/ SpinEnters(y) \/ SpinTests(y) \/ WaitInterrupted(y)
             \/ Execute(y) \/ NativeCallbackReturns(y) \/ ThreadEnds(y) \/ WaitEnds(y)
      PROVE  /\ thread' \in [Executors -> Places]
             /\ \A x \in Executors :
                  thread'[x] # thread[x] => Alive(x) /\ thread'[x] # "none"
             /\ GilIsPythons'
  <2>1. PICK p \in Places \ {"none", "python"} :
            thread' = [thread EXCEPT ![y] = p] /\ gil' = gil
    BY <1>4 DEF ThreadStarts, SpinEnters, SpinTests, WaitInterrupted, Execute,
       NativeCallbackReturns, ThreadEnds, WaitEnds, Places
  <2>2. thread[y] \notin {"none", "exited", "python"}
    BY <1>4 DEF ThreadStarts, SpinEnters, SpinTests, WaitInterrupted, Execute,
       NativeCallbackReturns, ThreadEnds, WaitEnds
  <2> QED
    BY <2>1, <2>2 DEF GilIsPythons, Alive
<1>5. UNCHANGED <<sessionVars, resourceVars, valid>>
  BY DEF ThreadStep, Worker, Yield, MainTakesGil, WorkerTakesGil,
     PythonCallbackReturns, ThreadStarts, SpinEnters, SpinTests, WaitInterrupted,
     Execute, NativeCallbackReturns, ThreadEnds, WaitEnds
<1>6. gil' \in Threads \union {NoThread}
  BY DEF ThreadStep, Worker, Yield, MainTakesGil, WorkerTakesGil,
     PythonCallbackReturns, ThreadStarts, SpinEnters, SpinTests, WaitInterrupted,
     Execute, NativeCallbackReturns, ThreadEnds, WaitEnds
<1>7. spinning' \in [Executors -> BOOLEAN] /\ interrupt' \in [Executors -> BOOLEAN]
  BY DEF ThreadStep, Worker, Yield, MainTakesGil, WorkerTakesGil,
     PythonCallbackReturns, ThreadStarts, SpinEnters, SpinTests, WaitInterrupted,
     Execute, NativeCallbackReturns, ThreadEnds, WaitEnds
<1>8. MainTakesGil => thread' = thread
  BY DEF MainTakesGil
<1> QED
  BY <1>1, <1>2, <1>3, <1>4, <1>5, <1>6, <1>7, <1>8 DEF ThreadStep, Worker

LEMMA ThreadsKeepIInv ==
    ASSUME SessionIInv, ThreadStep
    PROVE  SessionIInv'
<1>1. /\ UNCHANGED <<phase, caller, cursor, stopped, started, joining, registered,
                     resources, released, valid>>
      /\ gil' \in Threads \union {NoThread}
      /\ thread' \in [Executors -> Places]
      /\ spinning' \in [Executors -> BOOLEAN]
      /\ interrupt' \in [Executors -> BOOLEAN]
      /\ \A x \in Executors :
            thread'[x] # thread[x] => Alive(x) /\ thread'[x] # "none"
      /\ GilIsPythons'
  BY ThreadsMove DEF sessionVars, resourceVars
<1>2. TypeOK'
  BY <1>1 DEF SessionIInv, TypeOK
<1>3. CallerIsClosing' /\ JoinProgress' /\ ReleaseProgress'
  BY <1>1 DEF SessionIInv, CallerIsClosing, JoinProgress, ReleaseProgress
<1>4. StartedKnown' /\ StoppedEnds' /\ JoinedBeforeDrain'
  BY <1>1 DEF SessionIInv, StartedKnown, StoppedEnds, JoinedBeforeDrain, Alive
<1> QED
  BY <1>1, <1>2, <1>3, <1>4 DEF SessionIInv

-----------------------------------------------------------------------------
(* Steps of the session.                                                   *)

LEMMA StartKeepsIInv ==
    ASSUME SessionIInv, NEW x \in Executors, StartExecutor(x)
    PROVE  SessionIInv'
<1> USE DEF SessionIInv, StartExecutor, resourceVars
<1>1. TypeOK'
  <2>1. started' \in Seq(Executors)
    BY AppendProperties DEF TypeOK
  <2>2. thread' \in [Executors -> Places]
    BY DEF TypeOK, Places
  <2> QED
    BY <2>1, <2>2 DEF TypeOK
<1>2. GilIsPythons' /\ CallerIsClosing' /\ JoinProgress' /\ ReleaseProgress'
  BY DEF TypeOK, GilIsPythons, CallerIsClosing, JoinProgress, ReleaseProgress
<1>3. JoinedBeforeDrain'
  BY DEF JoinedBeforeDrain, Joined
<1>4. StoppedEnds'
  BY DEF TypeOK, StoppedEnds
<1>5. StartedKnown'
  <2>1. Len(started') = Len(started) + 1 /\ started'[Len(started) + 1] = x
          /\ \A i \in 1 .. Len(started) : started'[i] = started[i]
    BY DEF TypeOK
  <2>2. \A y \in Executors : y # x => thread'[y] = thread[y]
    BY DEF TypeOK
  <2>3. Len(started) \in Nat
    BY DEF TypeOK
  <2> QED
    BY <2>1, <2>2, <2>3 DEF StartedKnown
<1> QED
  BY <1>1, <1>2, <1>3, <1>4, <1>5

\* A resource is registered only before the drain: whoever has the GIL then is
\* the main thread, which has the session to itself, or a thread to be joined.
LEMMA RegisterKeepsIInv ==
    ASSUME SessionIInv, NEW t \in Threads, RegisterResource(t)
    PROVE  SessionIInv'
<1> USE DEF SessionIInv, RegisterResource, sessionVars
<1>1. phase \in {"open", "cancel", "join"}
  <2>1. CASE t = Main
    BY <2>1
  <2>2. CASE t \in Executors
    <3>1. Alive(t) /\ t # caller
      BY <2>2 DEF InPython, GilIsPythons, Alive
    <3>2. phase \notin Joined
      BY <2>2, <3>1 DEF JoinedBeforeDrain
    <3> QED
      BY <3>2 DEF TypeOK, Phases, Joined
  <2> QED
    BY <2>1, <2>2 DEF Threads
<1>2. registered + 1 \in Resources /\ registered' \in 0 .. MaxResources
  BY BoundAssumption DEF TypeOK, Resources
<1>3. TypeOK'
  BY <1>2 DEF TypeOK
<1>4. GilIsPythons' /\ CallerIsClosing' /\ JoinProgress' /\ StartedKnown'
        /\ StoppedEnds' /\ JoinedBeforeDrain'
  BY DEF GilIsPythons, CallerIsClosing, JoinProgress, StartedKnown, StoppedEnds,
     JoinedBeforeDrain, Alive
<1>5. ReleaseProgress'
  <2>1. /\ Len(resources') = registered + 1 /\ resources'[registered + 1] = registered + 1
        /\ \A i \in 1 .. registered : resources'[i] = i
    <3>1. /\ resources \in Seq(Resources) /\ Len(resources) = registered
          /\ \A i \in 1 .. registered : resources[i] = i
      BY <1>1 DEF TypeOK, ReleaseProgress, Cleared
    <3>2. resources' = Append(resources, registered + 1)
      OBVIOUS
    <3> QED
      BY <1>2, <3>1, <3>2, AppendProperties
  <2>2. Len(released) = 0 /\ released' = released
    BY <1>1 DEF ReleaseProgress
  <2>3. registered' = registered + 1 /\ registered \in Nat /\ phase' = phase
    BY RegisteredIsNat DEF TypeOK
  <2>4. \A i \in 1 .. registered' : resources'[i] = i
    BY <2>1, <2>3
  <2>5. Len(resources') = registered'
    BY <2>1, <2>3
  <2>6. \A i \in 1 .. Len(released') : released'[i] = registered' + 1 - i
    BY <2>2
  <2> QED
    BY <1>1, <2>2, <2>3, <2>4, <2>5, <2>6 DEF ReleaseProgress, Cleared
<1> QED
  BY <1>3, <1>4, <1>5

LEMMA StopKeepsIInv ==
    ASSUME SessionIInv,
           (\E x \in Executors : UserClosesThread(x)) \/ JoinReturns
    PROVE  SessionIInv'
<1> USE DEF SessionIInv, resourceVars
<1>1. ASSUME NEW x \in Executors, UserClosesThread(x)
      PROVE  TypeOK' /\ StoppedEnds' /\ phase = "open"
  BY <1>1, ExecutorAssumption DEF UserClosesThread, StopThread, Cancelled,
     InPython, TypeOK, StoppedEnds
<1>2. ASSUME JoinReturns
      PROVE  TypeOK' /\ StoppedEnds'
  BY <1>2, ExecutorAssumption DEF JoinReturns, TypeOK, StoppedEnds
<1>3. /\ UNCHANGED <<phase, caller, cursor, started, registered, resources,
                     released, gil, thread>>
      /\ phase = "open" \/ stopped' = stopped
  BY DEF UserClosesThread, JoinReturns
<1>4. GilIsPythons' /\ CallerIsClosing' /\ StartedKnown' /\ JoinedBeforeDrain'
        /\ ReleaseProgress' /\ JoinProgress'
  BY <1>3 DEF GilIsPythons, CallerIsClosing, StartedKnown, JoinedBeforeDrain,
     Alive, ReleaseProgress, JoinProgress
<1> QED
  BY <1>1, <1>2, <1>4

-----------------------------------------------------------------------------
(* Steps of close().                                                       *)

LEMMA BeginsKeepsIInv ==
    ASSUME SessionIInv, NEW t \in Threads, CloseBegins(t)
    PROVE  SessionIInv'
<1> USE DEF SessionIInv, CloseBegins, resourceVars
<1>1. TypeOK'
  BY DEF TypeOK, Phases, Threads
<1>2. GilIsPythons' /\ CallerIsClosing' /\ StartedKnown' /\ ReleaseProgress'
  BY ExecutorAssumption DEF GilIsPythons, CallerIsClosing, StartedKnown,
     ReleaseProgress, Cleared, Threads
<1>3. StoppedEnds'
  BY ExecutorAssumption DEF StoppedEnds, CallerIsClosing
<1>4. JoinProgress' /\ JoinedBeforeDrain'
  BY DEF TypeOK, JoinProgress, JoinedBeforeDrain, Joined
<1> QED
  BY <1>1, <1>2, <1>3, <1>4

LEMMA CancelsKeepsIInv ==
    ASSUME SessionIInv, CloseCancels
    PROVE  SessionIInv'
<1> USE DEF SessionIInv, CloseCancels, InClose, resourceVars
<1>1. /\ UNCHANGED <<caller, started, joining, stopped, registered, resources,
                     released, gil, thread, valid>>
      /\ phase = "cancel" /\ phase' \in {"cancel", "join"}
  BY DEF CloseCancels
<1>2. /\ cursor' \in Nat /\ cursor' <= Len(started)
      /\ phase' = "join" => cursor' = Len(started)
      /\ spinning' \in [Executors -> BOOLEAN] /\ interrupt' \in [Executors -> BOOLEAN]
  <2>1. CASE cursor > 0
    <3>1. phase' = phase /\ cursor' = cursor - 1 /\ Cancelled(started[cursor])
      BY <2>1
    <3>2. started[cursor] \in Executors
      BY <1>1, <2>1, ElementOfSeq DEF TypeOK, JoinProgress
    <3> QED
      BY <1>1, <2>1, <3>1, <3>2 DEF TypeOK, JoinProgress, Cancelled
  <2>2. CASE ~(cursor > 0)
    <3>1. phase' = "join" /\ cursor' = Len(started)
          /\ UNCHANGED <<spinning, interrupt>>
      BY <2>2
    <3> QED
      BY <3>1, LenProperties DEF TypeOK
  <2> QED
    BY <2>1, <2>2
<1>3. TypeOK'
  BY <1>1, <1>2 DEF TypeOK, Phases
<1>4. GilIsPythons' /\ CallerIsClosing' /\ StartedKnown' /\ StoppedEnds'
        /\ JoinedBeforeDrain' /\ ReleaseProgress'
  BY <1>1 DEF GilIsPythons, CallerIsClosing, StartedKnown, StoppedEnds,
     JoinedBeforeDrain, Joined, ReleaseProgress, Cleared
<1>5. JoinProgress'
  BY <1>1, <1>2 DEF TypeOK, JoinProgress
<1> QED
  BY <1>3, <1>4, <1>5

LEMMA JoinsKeepsIInv ==
    ASSUME SessionIInv, CloseJoins
    PROVE  SessionIInv'
<1> USE DEF SessionIInv, resourceVars
<1>1. /\ UNCHANGED <<caller, started, registered, resources, released, gil,
                     thread, valid>>
      /\ phase = "join" /\ joining = NoThread /\ phase' \in {"join", "drain"}
  BY DEF CloseJoins, InClose, InPython
<1>2. GilIsPythons' /\ CallerIsClosing' /\ StartedKnown' /\ ReleaseProgress'
  BY <1>1 DEF GilIsPythons, CallerIsClosing, StartedKnown, ReleaseProgress, Cleared
<1>3. CASE cursor = 0
  <2>1. phase' = "drain" /\ UNCHANGED <<cursor, stopped, spinning, interrupt, joining>>
    BY <1>3 DEF CloseJoins
  <2>2. TypeOK' /\ StoppedEnds' /\ JoinProgress'
    BY <1>1, <2>1 DEF TypeOK, Phases, StoppedEnds, JoinProgress
  <2>3. \A x \in Executors : Alive(x) => x = caller
    <3> SUFFICES ASSUME NEW x \in Executors, Alive(x) PROVE x = caller
      OBVIOUS
    <3>1. PICK i \in 1 .. Len(started) : started[i] = x
      BY <1>1 DEF StartedKnown, Cleared, Alive
    <3>2. stopped[x]
      BY <1>1, <1>3, <3>1 DEF TypeOK, JoinProgress
    <3> QED
      BY <1>1, <3>2, ExecutorAssumption DEF StoppedEnds, Alive
  <2>4. JoinedBeforeDrain'
    BY <1>1, <2>3 DEF JoinedBeforeDrain, Alive
  <2> QED
    BY <1>2, <2>2, <2>4
<1>4. CASE cursor # 0
  <2> DEFINE x == started[cursor]
  <2>1. x \in Executors /\ cursor \in 1 .. Len(started)
    BY <1>1, <1>4 DEF TypeOK, JoinProgress
  <2>2. /\ phase' = "join" /\ cursor' = cursor - 1
        /\ \/ stopped[x] /\ UNCHANGED <<stopped, spinning, interrupt, joining>>
           \/ StopThread(x, caller)
    BY <1>1, <1>4 DEF CloseJoins
  <2>3. /\ stopped' \in [Executors -> BOOLEAN]
        /\ \A y \in Executors : stopped'[y] <=> stopped[y] \/ y = x
    BY <2>1, <2>2 DEF StopThread, TypeOK
  <2>4. StoppedEnds'
    <3>1. CASE stopped[x] /\ UNCHANGED <<stopped, spinning, interrupt, joining>>
      BY <1>1, <3>1 DEF StoppedEnds
    <3>2. CASE StopThread(x, caller)
      <4>1. joining' = x \/ x = caller
        BY <3>2 DEF StopThread
      <4>2. \A y \in Executors : stopped[y] => thread[y] = "exited" \/ y = caller
        BY <1>1, ExecutorAssumption DEF StoppedEnds
      <4> QED
        BY <1>1, <2>3, <4>1, <4>2 DEF StoppedEnds
    <3> QED
      BY <2>2, <3>1, <3>2
  <2>5. JoinProgress'
    <3>1. \A i \in 1 .. Len(started) : started[i] \in Executors
      BY DEF TypeOK
    <3>2. \A i \in 1 .. Len(started) : i > cursor - 1 => i > cursor \/ i = cursor
      BY <2>1
    <3> QED
      BY <1>1, <2>1, <2>2, <2>3, <3>1, <3>2 DEF JoinProgress
  <2>6. /\ spinning' \in [Executors -> BOOLEAN] /\ interrupt' \in [Executors -> BOOLEAN]
        /\ joining' \in Executors \union {NoThread}
    BY <2>1, <2>2 DEF StopThread, Cancelled, TypeOK
  <2>7. TypeOK'
    BY <1>1, <2>1, <2>2, <2>3, <2>6 DEF TypeOK, Phases
  <2>8. JoinedBeforeDrain'
    BY <2>2 DEF JoinedBeforeDrain, Joined
  <2> QED
    BY <1>2, <2>4, <2>5, <2>7, <2>8
<1> QED
  BY <1>3, <1>4

LEMMA DrainsKeepsIInv ==
    ASSUME SessionIInv,
           CloseDrains \/ CloseClears \/ CloseDrainsAgain \/ CloseShutsDown
    PROVE  SessionIInv'
<1> USE DEF SessionIInv, resourceVars
<1> USE DEF CloseDrains, CloseClears, CloseDrainsAgain, CloseShutsDown, InClose
<1>1. TypeOK'
  <2>1. CASE CloseDrains
    BY <2>1, LenProperties DEF TypeOK, Phases
  <2>2. CASE CloseClears
    BY <2>2, EmptySeq DEF TypeOK, Phases
  <2>3. CASE CloseDrainsAgain
    BY <2>3 DEF TypeOK, Phases
  <2>4. CASE CloseShutsDown
    BY <2>4 DEF TypeOK, Phases
  <2> QED
    BY <2>1, <2>2, <2>3, <2>4
<1>2. GilIsPythons' /\ CallerIsClosing' /\ JoinProgress'
  BY DEF GilIsPythons, CallerIsClosing, JoinProgress
<1>3. StartedKnown' /\ StoppedEnds' /\ JoinedBeforeDrain'
  BY DEF StartedKnown, StoppedEnds, JoinedBeforeDrain, Joined, Cleared, Alive
<1>4. ReleaseProgress'
  <2>1. registered \in Nat
    BY RegisteredIsNat DEF TypeOK
  <2>2. CASE CloseDrains
    BY <2>1, <2>2 DEF ReleaseProgress, Cleared
  <2>3. CASE CloseClears
    BY <2>3 DEF ReleaseProgress, Cleared
  <2>4. CASE CloseDrainsAgain
    BY <2>4 DEF ReleaseProgress, Cleared
  <2>5. CASE CloseShutsDown
    BY <2>5 DEF ReleaseProgress, Cleared
  <2> QED
    BY <2>2, <2>3, <2>4, <2>5
<1> QED
  BY <1>1, <1>2, <1>3, <1>4

LEMMA ReleasesKeepsIInv ==
    ASSUME SessionIInv, CloseReleases
    PROVE  SessionIInv'
<1> USE DEF SessionIInv
<1>1. /\ UNCHANGED <<caller, started, joining, stopped, registered, resources,
                     gil, thread, spinning, interrupt, valid>>
      /\ phase = "release" /\ phase' \in {"release", "clear"}
  BY DEF CloseReleases, InClose
<1>2. GilIsPythons' /\ CallerIsClosing' /\ JoinProgress' /\ StartedKnown'
        /\ StoppedEnds' /\ JoinedBeforeDrain'
  BY <1>1 DEF GilIsPythons, CallerIsClosing, JoinProgress, StartedKnown,
     StoppedEnds, JoinedBeforeDrain, Joined, Cleared, Alive
<1>3. CASE cursor = 0
  <2>1. phase' = "clear" /\ UNCHANGED <<cursor, released>>
    BY <1>3 DEF CloseReleases
  <2>2. TypeOK' /\ ReleaseProgress'
    BY <1>1, <1>3, <2>1 DEF TypeOK, Phases, ReleaseProgress, Cleared
  <2> QED
    BY <1>2, <2>2
<1>4. CASE cursor # 0
  <2>1. /\ phase' = "release" /\ cursor' = cursor - 1
        /\ released' = Append(released, resources[cursor])
    <3>1. cursor > 0
      BY <1>4 DEF TypeOK
    <3> QED
      BY <1>1, <3>1 DEF CloseReleases
  <2>2. /\ cursor \in 1 .. registered /\ resources[cursor] = cursor
        /\ Len(resources) = registered /\ Len(released) = registered - cursor
        /\ registered \in Nat /\ resources[cursor] \in Resources
    BY <1>1, <1>4 DEF TypeOK, ReleaseProgress, Cleared
  <2>3. /\ Len(released') = Len(released) + 1
        /\ released'[Len(released) + 1] = cursor
        /\ \A i \in 1 .. Len(released) : released'[i] = released[i]
        /\ released' \in Seq(Resources)
    BY <2>1, <2>2, AppendProperties DEF TypeOK
  <2>4. TypeOK'
    BY <1>1, <2>1, <2>2, <2>3 DEF TypeOK, Phases
  <2>5. ReleaseProgress'
    BY <1>1, <2>1, <2>2, <2>3 DEF ReleaseProgress, Cleared
  <2> QED
    BY <1>2, <2>4, <2>5
<1> QED
  BY <1>3, <1>4

-----------------------------------------------------------------------------
LEMMA StepSessionIInv == SessionIInv /\ [Next]_vars => SessionIInv'
<1> SUFFICES ASSUME SessionIInv, [Next]_vars PROVE SessionIInv'
  OBVIOUS
<1>1. CASE UNCHANGED vars
  BY <1>1 DEF vars, SessionIInv, TypeOK, GilIsPythons, CallerIsClosing,
     StartedKnown, StoppedEnds, JoinProgress, JoinedBeforeDrain, Alive,
     ReleaseProgress
<1>2. CASE ThreadStep
  BY <1>2, ThreadsKeepIInv
<1>3. CASE \/ \E t \in Threads : RegisterResource(t) \/ CloseBegins(t)
           \/ \E x \in Executors : StartExecutor(x) \/ UserClosesThread(x)
           \/ JoinReturns
  BY <1>3, RegisterKeepsIInv, BeginsKeepsIInv, StartKeepsIInv, StopKeepsIInv
<1>4. CASE CloseStep
  BY <1>4, CancelsKeepsIInv, JoinsKeepsIInv, DrainsKeepsIInv, ReleasesKeepsIInv
     DEF CloseStep
<1> QED
  BY <1>1, <1>2, <1>3, <1>4 DEF Next, ThreadStep

LEMMA InductiveSessionIInv == Spec => []SessionIInv
BY InitSessionIInv, StepSessionIInv, PTL DEF Spec

-----------------------------------------------------------------------------
\* The state of the session model is well typed.
THEOREM SessionTypeCorrect == Spec => []TypeOK
BY InductiveSessionIInv, PTL DEF SessionIInv

\* However many executors there are and whoever closes: the drains, the
\* resources' close() and the shutdown meet no running native thread but the
\* caller's own.
THEOREM DrainsAfterJoin == Spec => []JoinedBeforeDrain
BY InductiveSessionIInv, PTL DEF SessionIInv

\* Every resource, whenever and by whichever thread it was registered, is
\* closed once and in reverse.
THEOREM ReleasesInReverse == Spec => []ReleasedInReverse
<1>1. SessionIInv => ReleasedInReverse
  <2> SUFFICES ASSUME SessionIInv,
                      phase \in {"clear", "drain again", "shutdown", "closed"}
               PROVE  released = [i \in 1 .. registered |-> registered + 1 - i]
    BY DEF ReleasedInReverse
  <2>1. /\ released \in Seq(Resources) /\ registered \in Nat
        /\ Len(released) = registered
        /\ \A i \in 1 .. registered : released[i] = registered + 1 - i
    <3>1. released \in Seq(Resources) /\ registered \in Nat
      BY RegisteredIsNat DEF SessionIInv, TypeOK
    <3>2. phase \in {"clear"} \union Cleared
      BY DEF Cleared
    <3>3. ReleaseProgress
      BY DEF SessionIInv
    <3>4. Len(released) = registered
      BY <3>2, <3>3 DEF ReleaseProgress
    <3> QED
      BY <3>1, <3>3, <3>4 DEF ReleaseProgress
  <2> DEFINE reversed == [i \in 1 .. registered |-> registered + 1 - i]
  <2>2. released = [i \in 1 .. registered |-> released[i]]
    BY <2>1, LenProperties
  <2>3. [i \in 1 .. registered |-> released[i]] = reversed
    BY <2>1
  <2> QED
    BY <2>2, <2>3
<1> QED
  BY <1>1, InductiveSessionIInv, PTL

-----------------------------------------------------------------------------
(* A pipeline that is a resource of the session (SessionPipeline).         *)

\* Only the executors that have Python callbacks ever run one, so only they and
\* the main thread call close().
PythonOnly ==
    /\ \A x \in Executors : thread[x] \in {"want gil", "python"} => x \in PythonExecutors
    /\ caller \in Executors => caller \in PythonExecutors

\* A callback that is inside the pipeline keeps its executor in the callback.
CalledFromNode ==
    /\ DOMAIN pipe_pc = P!Threads
    /\ pipe_pc["callback"] # "idle" => InPipelineNode

SessionPipelineIInv == SessionIInv /\ PythonOnly /\ CalledFromNode

LEMMA InitSessionPipelineIInv == Init /\ PipelineInit => SessionPipelineIInv
<1> SUFFICES ASSUME Init, PipelineInit PROVE SessionPipelineIInv
  OBVIOUS
<1>1. PythonOnly
  BY ExecutorAssumption DEF Init, PythonOnly
<1>2. CalledFromNode
  BY DEF PipelineInit, P!Init, P!Threads, CalledFromNode
<1> QED
  BY <1>1, <1>2, InitSessionIInv DEF SessionPipelineIInv

LEMMA PythonOnlyStep == SessionIInv /\ PythonOnly /\ Next => PythonOnly'
<1> SUFFICES ASSUME SessionIInv, PythonOnly, Next PROVE PythonOnly'
  OBVIOUS
<1> thread \in [Executors -> Places]
  BY DEF SessionIInv, TypeOK
<1>1. ASSUME NEW t \in Threads, Yield(t) \/ RegisterResource(t)
      PROVE  PythonOnly'
  BY <1>1, ExecutorAssumption DEF Yield, RegisterResource, PythonOnly, SessionIInv,
     GilIsPythons, sessionVars, Threads
<1>2. ASSUME NEW t \in Threads, CloseBegins(t)
      PROVE  PythonOnly'
  BY <1>2 DEF CloseBegins, InPython, PythonOnly, SessionIInv, GilIsPythons
<1>3. ASSUME NEW x \in Executors,
             Worker(x) \/ WorkerTakesGil(x) \/ WaitEnds(x) \/ StartExecutor(x)
               \/ UserClosesThread(x)
      PROVE  PythonOnly'
  BY <1>3 DEF Worker, ThreadStarts, SpinEnters, SpinTests, WaitInterrupted, Execute,
     NativeCallbackReturns, PythonCallbackReturns, ThreadEnds, WorkerTakesGil, WaitEnds,
     StartExecutor, UserClosesThread, PythonOnly, sessionVars
<1>4. CASE MainTakesGil \/ JoinReturns \/ CloseStep
  BY <1>4 DEF MainTakesGil, JoinReturns, CloseStep, CloseCancels, CloseJoins, CloseDrains,
     CloseReleases, CloseClears, CloseDrainsAgain, CloseShutsDown, PythonOnly, sessionVars
<1> QED
  BY <1>1, <1>2, <1>3, <1>4 DEF Next

\* Once the joins are over they stay over.
LEMMA JoinedStays == phase \in Joined /\ Next => phase' \in Joined
<1> SUFFICES ASSUME phase \in Joined, Next PROVE phase' \in Joined
  OBVIOUS
<1>1. phase' = phase \/ CloseStep
  BY DEF Joined, Next, Yield, RegisterResource, CloseBegins, MainTakesGil, Worker,
     ThreadStarts, SpinEnters, SpinTests, WaitInterrupted, Execute,
     NativeCallbackReturns, PythonCallbackReturns, ThreadEnds, WorkerTakesGil, WaitEnds,
     StartExecutor, UserClosesThread, JoinReturns, sessionVars
<1> QED
  BY <1>1 DEF Joined, CloseStep, CloseCancels, CloseJoins, CloseDrains, CloseReleases,
     CloseClears, CloseDrainsAgain, CloseShutsDown, InClose

\* The pipeline's steps are FusedPipeline's.
LEMMA PipelineStepMaps ==
    SessionPipelineIInv /\ PipelineStep => SessionPipelineIInv' /\ P!Next
<1> SUFFICES ASSUME SessionPipelineIInv, PipelineStep
             PROVE  SessionPipelineIInv' /\ P!Next
  OBVIOUS
<1>1. P!Next
  BY DEF PipelineStep, PipelineCalled, PipelineRuns, UserClosesPipeline,
     SessionClosesPipeline, P!Next, P!Threads
<1>2. SessionIInv' /\ PythonOnly'
  <2>1. UNCHANGED vars
    BY DEF PipelineStep
  <2>2. SessionIInv'
    BY <2>1, StepSessionIInv DEF SessionPipelineIInv
  <2> QED
    BY <2>1, <2>2 DEF SessionPipelineIInv, PythonOnly, vars
<1>3. CalledFromNode'
  <2>1. InPipelineNode' = InPipelineNode
    BY DEF PipelineStep, vars, InPipelineNode
  <2>2. DOMAIN pipe_pc' = DOMAIN pipe_pc
    BY DEF PipelineStep, PipelineCalled, PipelineRuns, UserClosesPipeline,
       SessionClosesPipeline, P!Deliver, P!Callback, P!Gate, P!StoreLatest, P!StoreBatch,
       P!NotifyOne, P!WorkerLoop, P!CheckBlocks, P!Block, P!Take, P!WorkerExit,
       P!ProcessOne, P!TransformThrows, P!TransformPublishes, P!TransformSuppresses,
       P!Publish, P!NextItem, P!SpuriousWake, P!CloseBegin, P!CloseStep,
       P!CloseUnsubscribe, P!CloseNotify, P!CloseJoin, P!CloseRelease
  <2>3. CASE InPipelineNode
    BY <2>1, <2>2, <2>3 DEF SessionPipelineIInv, CalledFromNode
  <2>4. CASE ~InPipelineNode
    <3>1. pipe_pc'["callback"] = pipe_pc["callback"]
      BY <2>4 DEF SessionPipelineIInv, CalledFromNode, P!Threads, PipelineCalled,
         PipelineStep, PipelineRuns, UserClosesPipeline, SessionClosesPipeline,
         P!WorkerLoop, P!CheckBlocks, P!Block, P!Take, P!WorkerExit, P!ProcessOne,
         P!TransformThrows, P!TransformPublishes, P!TransformSuppresses, P!Publish,
         P!NextItem, P!SpuriousWake, P!CloseBegin, P!CloseStep, P!CloseUnsubscribe,
         P!CloseNotify, P!CloseJoin, P!CloseRelease
    <3> QED
      BY <2>1, <2>2, <2>4, <3>1 DEF CalledFromNode, SessionPipelineIInv
  <2> QED
    BY <2>3, <2>4
<1> QED
  BY <1>1, <1>2, <1>3 DEF SessionPipelineIInv

\* The session's steps leave it alone, but for the one that ends the joins:
\* by then the executor's thread has ended, or never was in the callback.
LEMMA SessionStepMaps ==
    SessionPipelineIInv /\ SessionStep => SessionPipelineIInv' /\ [P!Next]_P!vars
<1> SUFFICES ASSUME SessionPipelineIInv, SessionStep
             PROVE  SessionPipelineIInv' /\ [P!Next]_P!vars
  OBVIOUS
<1>1. SessionIInv' /\ PythonOnly'
  BY StepSessionIInv, PythonOnlyStep DEF SessionPipelineIInv, SessionStep
<1>2. /\ UNCHANGED pipeVars
      /\ InPipelineNode /\ ~InPipelineNode' => pipe_pc["callback"] = "idle"
  BY DEF SessionStep
<1>3. CalledFromNode'
  BY <1>2 DEF SessionPipelineIInv, CalledFromNode, pipeVars
<1>4. CASE (phase' \in Joined) <=> (phase \in Joined)
  <2>1. UNCHANGED P!vars
    BY <1>2, <1>4 DEF P!vars, pipeVars
  <2> QED
    BY <1>1, <1>3, <2>1 DEF SessionPipelineIInv
<1>5. CASE phase \notin Joined /\ phase' \in Joined
  <2>1. PipelineExecutor \in Executors /\ PipelineExecutor # caller'
    BY <1>1, PipelineExecutorAssumption DEF PythonOnly
  <2>2. ~InPipelineNode'
    BY <1>1, <1>5, <2>1 DEF SessionIInv, JoinedBeforeDrain, Alive, InPipelineNode
  <2>3. pipe_pc["callback"] = "idle"
    BY <1>2, <2>2 DEF SessionPipelineIInv, CalledFromNode
  <2>4. P!JoinExecutor
    BY <1>2, <1>5, <2>3 DEF P!JoinExecutor, pipeVars
  <2> QED
    BY <1>1, <1>3, <2>4 DEF SessionPipelineIInv, P!Next
<1> QED
  BY <1>4, <1>5, JoinedStays DEF SessionStep

\* In the session the pipeline is a behaviour of FusedPipeline, for any
\* executors, resources and messages: what that module takes for granted of
\* the joined executor is what the session's joins establish.
THEOREM PipelineImplemented == SessionPipelineSpec => PipelineKeptBySession
<1>1. Init /\ PipelineInit => SessionPipelineIInv /\ P!Init
  BY InitSessionPipelineIInv DEF PipelineInit
<1>2. SessionPipelineIInv /\ [SessionStep \/ PipelineStep]_<<vars, pipeVars>>
        => SessionPipelineIInv' /\ [P!Next]_P!vars
  <2> SUFFICES ASSUME SessionPipelineIInv, UNCHANGED <<vars, pipeVars>>
               PROVE  SessionPipelineIInv' /\ UNCHANGED P!vars
    BY PipelineStepMaps, SessionStepMaps
  <2>1. SessionIInv'
    BY StepSessionIInv DEF SessionPipelineIInv
  <2> QED
    BY <2>1 DEF SessionPipelineIInv, PythonOnly, CalledFromNode, InPipelineNode, vars,
       pipeVars, P!vars
<1> QED
  BY <1>1, <1>2, PTL DEF SessionPipelineSpec, PipelineKeptBySession, P!Spec

\* The proofs about FusedPipeline, of the pipeline in the session.
PF == INSTANCE FusedPipeline_proofs WITH
        Policies <- Deliveries, BatchSize <- PipelineBatch,
        QueueCapacity <- PipelineCapacity, MaxMessages <- MaxPipelined,
        policy <- delivery,
        executor <- IF phase \in Joined THEN "joined" ELSE "running",
        pc <- pipe_pc, work <- pipe_work, queue <- pipe_queue,
        stopping <- pipe_stopping, subscribed <- pipe_subscribed,
        publishes <- pipe_publishes, closer <- pipe_closer,
        quiet <- pipe_quiet, stats <- pipe_stats, outcome <- pipe_outcome

\* What FusedPipeline proves holds of the pipeline in the session: nothing is
\* left in a pipeline that the session closed, and every message it received,
\* before or during the close, is published, dropped, coalesced or failed.
THEOREM SessionDrainsPipeline ==
    SessionPipelineSpec => [](P!ClosedIsDrained /\ P!Accounted)
<1>1. PF!PolicyAssumption /\ PF!SizeAssumption
  BY PipelineAssumption DEF PF!PolicyAssumption, PF!SizeAssumption, PF!AllPolicies
<1>2. PF!Spec => []PF!ClosedIsDrained
  BY <1>1, PF!CloseDrains
<1>3. PF!Spec => []PF!Accounted
  BY <1>1, PF!BooksBalance
<1>4. P!Init => PF!Init
  BY DEF P!Init, PF!Init, P!Threads, PF!Threads, P!Counters, PF!Counters, P!Messages,
     PF!Messages
<1>5. [P!Next]_P!vars => [PF!Next]_PF!vars
  <2>1. P!Deliver \/ P!Callback \/ P!JoinExecutor => PF!Next
    BY DEF P!Next, PF!Next, P!Deliver, PF!Deliver, P!Callback, PF!Callback, P!Gate,
       PF!Gate, P!StoreLatest, PF!StoreLatest, P!StoreBatch, PF!StoreBatch,
       P!QueueMutexFree, PF!QueueMutexFree, P!NotifyOne, PF!NotifyOne, P!Woken,
       PF!Woken, P!Count, PF!Count, P!JoinExecutor, PF!JoinExecutor
  <2>2. ASSUME NEW t \in P!Threads, P!ProcessOne(t) PROVE PF!Next
    BY <2>2 DEF P!Next, PF!Next, P!Threads, PF!Threads, P!ProcessOne, PF!ProcessOne,
       P!TransformThrows, PF!TransformThrows, P!TransformPublishes,
       PF!TransformPublishes, P!TransformSuppresses, PF!TransformSuppresses, P!Publish,
       PF!Publish, P!NextItem, PF!NextItem, P!Count, PF!Count
  <2>3. P!WorkerLoop \/ P!SpuriousWake => PF!Next
    BY DEF P!Next, PF!Next, P!WorkerLoop, PF!WorkerLoop, P!CheckBlocks, PF!CheckBlocks,
       P!Ready, PF!Ready, P!Block, PF!Block, P!Take, PF!Take, P!TakeSize, PF!TakeSize,
       P!WorkerExit, PF!WorkerExit, P!SpuriousWake, PF!SpuriousWake
  <2>4. P!CloseBegin \/ P!CloseStep => PF!Next
    BY DEF P!Next, PF!Next, P!CloseBegin, PF!CloseBegin, P!CloseStep, PF!CloseStep,
       P!CloseUnsubscribe, PF!CloseUnsubscribe, P!CloseNotify, PF!CloseNotify,
       P!CloseJoin, PF!CloseJoin, P!CloseRelease, PF!CloseRelease, P!Woken, PF!Woken
  <2>5. UNCHANGED P!vars => UNCHANGED PF!vars
    BY DEF P!vars, PF!vars
  <2> QED
    BY <2>1, <2>2, <2>3, <2>4, <2>5 DEF P!Next
<1>6. P!Spec => PF!Spec
  BY <1>4, <1>5, PTL DEF P!Spec, PF!Spec
<1>7. PF!ClosedIsDrained /\ PF!Accounted => P!ClosedIsDrained /\ P!Accounted
  BY DEF P!ClosedIsDrained, PF!ClosedIsDrained, P!Held, PF!Held, P!Accounted, PF!Accounted
<1> QED
  BY PipelineImplemented, <1>2, <1>3, <1>6, <1>7, PTL DEF PipelineKeptBySession

-----------------------------------------------------------------------------
(* NativeWaitSet: a wait and what disturbs it.                             *)

\* A call that blocks has the GIL until it returns.
GilIsKept == \A t \in PyThreads : Blocked(t) => gil_owner = t

WaitIInv == WaitTypeOK /\ GilIsKept

LEMMA InitWaitIInv == WaitInit => WaitIInv
<1> SUFFICES ASSUME WaitInit PROVE WaitIInv
  OBVIOUS
<1>1. timed \in [PyThreads -> BOOLEAN]
  BY Zenon DEF WaitInit
<1> QED
  BY <1>1, AdapterAssumption DEF WaitInit, WaitIInv, WaitTypeOK, GilIsKept, Blocked

\* The calls of one thread, whichever place it goes to.
LEMMA PythonStepKeeps ==
    ASSUME WaitIInv, NEW t \in PyThreads, PythonStep(t) PROVE WaitIInv'
<1> USE DEF WaitIInv
<1>1. CASE Trigger(t)
  BY <1>1 DEF Trigger, WaitTypeOK, GilIsKept, Blocked, Stands
<1>2. ASSUME NEW g \in Guards, TriggerCalled(t, g) PROVE WaitIInv'
  BY <1>2 DEF TriggerCalled, WaitTypeOK, GilIsKept, Blocked, Stands, InPythonCode
<1>3. ASSUME NEW g \in Guards, TakeRawGuard(t, g) \/ CloseGuard(t, g) PROVE WaitIInv'
  BY <1>3 DEF TakeRawGuard, CloseGuard, Expires, WaitTypeOK, GilIsKept, Blocked
<1>4. ASSUME NEW s \in WaitSets, NEW g \in Guards, AddGuardCondition(t, s, g)
      PROVE WaitIInv'
  BY <1>4 DEF AddGuardCondition, WaitTypeOK, GilIsKept, Blocked
<1>5. ASSUME NEW s \in WaitSets, NEW limited \in BOOLEAN, WaitBlocks(t, s, limited)
      PROVE WaitIInv'
  <2>1. timed' \in [PyThreads -> BOOLEAN] /\ blocks' \in 0 .. MaxBlocks
    <3>1. WaitTypeOK
      OBVIOUS
    <3>2. timed' = [timed EXCEPT ![t] = limited] /\ timed \in [PyThreads -> BOOLEAN]
      BY <1>5, <3>1 DEF WaitBlocks, WaitTypeOK
    <3>3. timed' \in [PyThreads -> BOOLEAN]
      BY <3>2, Zenon
    <3> QED
      BY <1>5, <3>3, AdapterAssumption DEF WaitBlocks, WaitTypeOK
  <2>2. /\ gil_owner = t /\ gil_owner' = gil_owner
        /\ stands' = [stands EXCEPT ![t] = "waiting"]
    BY <1>5 DEF WaitBlocks, InPythonCode, Stands
  <2>3. GilIsKept'
    BY <2>2 DEF GilIsKept, Blocked, WaitTypeOK
  <2> QED
    BY <1>5, <2>1, <2>2, <2>3 DEF WaitBlocks, WaitTypeOK
<1>6. ASSUME NEW s \in WaitSets, CloseWaitSet(t, s) PROVE WaitIInv'
  BY <1>6 DEF CloseWaitSet, WaitTypeOK, GilIsKept, Blocked
<1>7. CASE SleepBegins(t)
  BY <1>7, AdapterAssumption
     DEF SleepBegins, WaitTypeOK, GilIsKept, Blocked, Stands, InPythonCode
<1>8. CASE CloseSleeper(t) \/ SessionShutsDown(t)
  BY <1>8 DEF CloseSleeper, SessionShutsDown, WaitTypeOK, GilIsKept, Blocked
<1> QED
  BY <1>1, <1>2, <1>3, <1>4, <1>5, <1>6, <1>7, <1>8 DEF PythonStep

\* The interpreter, and a call that stops blocking.
LEMMA ThreadStepKeeps ==
    ASSUME WaitIInv, NEW t \in PyThreads,
           \/ ThreadRuns(t) \/ ThreadPauses(t)
           \/ WaitReady(t) \/ WaitTimesOut(t) \/ SleepEnds(t)
    PROVE  WaitIInv'
<1> USE DEF WaitIInv
<1>1. CASE ThreadRuns(t)
  <2>1. \A u \in PyThreads : ~Blocked(u)
    BY <1>1, AdapterAssumption DEF ThreadRuns, GilIsKept
  <2> QED
    BY <1>1, <2>1 DEF ThreadRuns, WaitTypeOK, GilIsKept, Blocked
<1>2. CASE ThreadPauses(t)
  <2>1. \A u \in PyThreads : ~Blocked(u)
    BY <1>2 DEF ThreadPauses, GilIsKept
  <2> QED
    BY <1>2, <2>1 DEF ThreadPauses, WaitTypeOK, GilIsKept, Blocked
<1>3. ASSUME NEW woke, WaitReturns(t, woke) PROVE WaitIInv'
  BY <1>3 DEF WaitReturns, WaitTypeOK, GilIsKept, Blocked, Stands
<1>4. CASE SleepEnds(t)
  BY <1>4 DEF SleepEnds, WaitTypeOK, GilIsKept, Blocked, Stands
<1> QED
  BY <1>1, <1>2, <1>3, <1>4 DEF WaitReady, WaitTimesOut

LEMMA StepWaitIInv == WaitIInv /\ [WaitNext]_waitVars => WaitIInv'
<1> SUFFICES ASSUME WaitIInv, [WaitNext]_waitVars PROVE WaitIInv'
  OBVIOUS
<1>1. ASSUME NEW g \in Guards, NativeTriggers(g) \/ NativeDrops(g) PROVE WaitIInv'
  BY <1>1 DEF NativeTriggers, NativeDrops, Expires, WaitIInv, WaitTypeOK, GilIsKept,
              Blocked
<1>2. CASE SignalArrives
  BY <1>2 DEF SignalArrives, WaitIInv, WaitTypeOK, GilIsKept, Blocked
<1>3. CASE UNCHANGED waitVars
  BY <1>3 DEF waitVars, WaitIInv, WaitTypeOK, GilIsKept, Blocked
<1> QED
  BY <1>1, <1>2, <1>3, PythonStepKeeps, ThreadStepKeeps DEF WaitNext

LEMMA InductiveWaitIInv == WaitSpec => []WaitIInv
BY InitWaitIInv, StepWaitIInv, PTL DEF WaitSpec

\* The guards, the wait sets, the sleeper and their threads stay well typed,
\* for any of them and any number of blocking calls.
THEOREM WaitTypeCorrect == WaitSpec => []WaitTypeOK
BY InductiveWaitIInv, PTL DEF WaitIInv

\* The GIL that a blocked call keeps is what protects the adapters it uses:
\* neither close() nor the end of the session comes in between.
THEOREM BlockedIsUndisturbedHolds == WaitSpec => BlockedIsUndisturbed
<1> DEFINE Undisturbed ==
        (\E t \in PyThreads : Blocked(t)) =>
            usable' = usable /\ (context' = "closed" => context = "closed")
<1>1. WaitIInv /\ [WaitNext]_waitVars => [Undisturbed]_waitVars
  <2> SUFFICES ASSUME WaitIInv, WaitNext, NEW t \in PyThreads, Blocked(t)
               PROVE  usable' = usable /\ (context' = "closed" => context = "closed")
    OBVIOUS
  <2>1. \A u \in PyThreads : ~InPythonCode(u)
    BY DEF WaitIInv, GilIsKept, InPythonCode, Blocked
  <2>2. ASSUME NEW u \in PyThreads, PythonStep(u)
        PROVE  usable' = usable /\ (context' = "closed" => context = "closed")
    BY <2>1, <2>2 DEF PythonStep, Trigger, TriggerCalled, TakeRawGuard, CloseGuard,
         AddGuardCondition, WaitBlocks, CloseWaitSet, SleepBegins, CloseSleeper,
         SessionShutsDown
  <2> QED
    BY <2>2 DEF WaitNext, ThreadRuns, ThreadPauses, WaitReady, WaitTimesOut,
         WaitReturns, SleepEnds, NativeTriggers, NativeDrops, SignalArrives
<1> QED
  BY <1>1, InductiveWaitIInv, PTL DEF WaitSpec, BlockedIsUndisturbed
=============================================================================
