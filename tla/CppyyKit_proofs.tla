-------------------------- MODULE CppyyKit_proofs --------------------------
(***************************************************************************)
(* Proofs about cppyy_kit: the code that makes things once and shares them *)
(* (CompileCache, KernelOnce and HeaderFetch, for any processes, threads   *)
(* and operations), the order of Teardown for any cleanups, and the locks  *)
(* under which AutoPch builds, for any header sets and processes.          *)
(***************************************************************************)
EXTENDS CompileCache, KernelOnce, HeaderFetch, Teardown, AutoPch,
        FiniteSetTheorems, SequenceTheorems, TLAPS

-----------------------------------------------------------------------------
(* CompileCache: the inductive invariant.                                  *)

\* What a call can be in the middle of, given the operation it runs.
Fits(k, place) ==
    /\ place = "clear" => k = "clear"
    /\ place \notin {"idle", "clear"} => k # "clear"
    /\ place \in {"enter", "load", "discard", "define", "load built"}
         => k # "prebuild"
    /\ place = "define" => k = "plain"
    /\ place = "load built" => k = "compiled_only"

KindAtPlace == \A c \in Callers : Fits(kind[c], pc[c])

\* The call of c is inside its process's _SESSION_LOCK.
InSession(c) ==
    kind[c] \in {"plain", "compiled_only"} /\ pc[c] \notin {"idle", "enter"}

Building == {"unlink", "stage", "compile", "header", "meta", "publish"}

\* c has given Cling the definitions and has yet to record it in _APPLIED.
DefinedUnrecorded(c) == kind[c] = "plain" /\ pc[c] \in Building

\* Inside the session lock nothing is recorded yet, and Cling has the names
\* only if this very call gave them.
SessionLocked ==
    \A c \in Callers :
        InSession(c) =>
            /\ session[ProcessOf[c]] = c
            /\ applied[ProcessOf[c]] = "none"
            /\ cppdefs[ProcessOf[c]] = IF DefinedUnrecorded(c) THEN 1 ELSE 0

\* Outside it, Cling has the names once exactly when that is recorded.
RecordedOnce ==
    \A p \in Procs :
        /\ cppdefs[p] = 0 \/ cppdefs[p] = 1
        /\ applied[p] # "none" => cppdefs[p] = 1
        /\ cppdefs[p] = 1 /\ applied[p] = "none"
             => \E c \in Callers : ProcessOf[c] = p /\ DefinedUnrecorded(c)

Loaded == {"cached", "miss-built-loaded"}

\* Who reports a library read the record, and who made the record loaded it.
ReportsAreLoaded ==
    /\ \A p \in Procs : applied[p] \in Loaded => p \in loaded
    /\ \A c \in Callers :
        outcome[c] \in Loaded => applied[ProcessOf[c]] \in Loaded

\* The places reached only with the entry's file lock.
UnderFileLock == Building \cup {"discard", "define", "load built"}

\* What the holder of the file lock has seen of the entry stays so: only a
\* holder makes a file appear.
EntryLocked ==
    \A c \in Callers :
        /\ pc[c] \in UnderFileLock => filelock = c
        /\ pc[c] = "discard" => file["so"] # "good"
        /\ pc[c] \in {"define", "unlink"} => ~Complete
        /\ pc[c] \in Building \ {"unlink"} => file["so"] = "absent"

CacheIInv ==
    /\ TypeOK
    /\ KindAtPlace
    /\ SessionLocked
    /\ RecordedOnce
    /\ ReportsAreLoaded
    /\ EntryLocked

-----------------------------------------------------------------------------
(* Types.                                                                  *)

\* _complete has a file to look for until it has found all three.
LEMMA NextProbeIsArtifact ==
    ASSUME NEW c \in Callers, probed[c] \subseteq Artifacts, probed[c] # Artifacts
    PROVE  NextProbe(c) \in Artifacts
<1>1. \E n \in Artifacts : /\ n \notin probed[c]
                           /\ n = "meta" => "header" \in probed[c]
                           /\ n = "header" => "so" \in probed[c]
  BY DEF Artifacts
<1> QED
  BY <1>1, Zenon DEF NextProbe

\* A file appears whole or disappears; only a library can be bad.
LEMMA FileType ==
    ASSUME TypeOK, NEW n \in Artifacts, NEW v \in {"absent", "good"},
           file' = [file EXCEPT ![n] = v]
    PROVE  /\ file' \in [Artifacts -> {"absent", "good", "bad"}]
           /\ file'["header"] # "bad" /\ file'["meta"] # "bad"
BY DEF TypeOK, Artifacts

\* The with blocks release what a call holds.
LEMMA ReturnType ==
    ASSUME TypeOK, NEW c \in Callers, NEW r, Return(c, r),
           r \in Results \cup {"none", "raised", "done"}
    PROVE  /\ pc' \in [Callers -> Places]
           /\ outcome' \in [Callers -> Results \cup {"none", "raised", "done"}]
           /\ filelock' \in Callers \cup {Free}
           /\ session' \in [Procs -> Callers \cup {Free}]
BY DEF TypeOK, Return, Goto, Places

LEMMA CppdefType ==
    ASSUME TypeOK, NEW c \in Callers, Cppdef(c)
    PROVE  cppdefs' \in [Procs -> Nat]
BY CallerAssumption DEF TypeOK, Cppdef

LEMMA StepKeepsTypes ==
    ASSUME TypeOK, NEW c \in Callers, Step(c)
    PROVE  TypeOK'
<1>1. ProcessOf[c] \in Procs
  BY CallerAssumption
<1>2. CASE Enter(c)
  <2>1. CASE Return(c, applied[ProcessOf[c]])
    <3>1. applied[ProcessOf[c]] \in Results \cup {"none", "raised", "done"}
      BY <1>1 DEF TypeOK
    <3> QED
      BY <1>2, <2>1, <3>1, ReturnType
      DEF Enter, TypeOK, directory, bounds
  <2>2. CASE ~Return(c, applied[ProcessOf[c]])
    BY <1>1, <1>2, <2>2 DEF Enter, Goto, TypeOK, Places, directory, bounds
  <2> QED
    BY <2>1, <2>2
<1>3. CASE ProbeFinds(c) \/ ProbeMisses(c)
  <2>1. probed[c] # Artifacts => NextProbe(c) \in Artifacts
    BY NextProbeIsArtifact DEF TypeOK
  <2>2. probed' \in [Callers -> SUBSET Artifacts]
    BY <1>3, <2>1 DEF ProbeFinds, ProbeMisses, TypeOK
  <2>3. pc' \in [Callers -> Places]
    BY <1>3 DEF ProbeFinds, ProbeMisses, Goto, TypeOK, Places
  <2> QED
    BY <1>3, <2>2, <2>3 DEF ProbeFinds, ProbeMisses, TypeOK, directory, process, bounds
<1>4. CASE ProbeHits(c)
  BY <1>4, ReturnType DEF ProbeHits, Goto, TypeOK, Places, directory, bounds
<1>5. ASSUME NEW place, NEW result \in {"cached", "miss-built-loaded"},
             LoadSucceeds(c, place, result)
      PROVE  TypeOK'
  <2>1. result \in Results
    BY DEF Results
  <2>2. applied' \in [Procs -> Results \cup {"none"}]
    BY <1>1, <1>5, <2>1 DEF LoadSucceeds, Apply, TypeOK
  <2>3. /\ loaded' \subseteq Procs
        /\ cppdefs' \in [Procs -> Nat]
        /\ UNCHANGED <<file, staged, kind, probed, listed, calls, crashes>>
    BY <1>1, <1>5, CppdefType DEF LoadSucceeds, TypeOK, directory, bounds
  <2>4. Return(c, result)
    BY <1>5 DEF LoadSucceeds, Apply
  <2> QED
    BY <2>1, <2>2, <2>3, <2>4, ReturnType DEF TypeOK
<1>6. CASE LoadFails(c) \/ LockFile(c)
  BY <1>6 DEF LoadFails, LockFile, Goto, TypeOK, Places, directory, process, bounds
<1>7. CASE Discard(c)
  <2>1. CASE Return(c, "raised")
    BY <1>7, <2>1, ReturnType
    DEF Discard, TypeOK, Artifacts, bounds
  <2>2. CASE ~Return(c, "raised")
    <3>1. pc' \in [Callers -> Places] /\ loaded' \subseteq Procs
      BY <1>7, <2>2 DEF Discard, Goto, TypeOK, Places
    <3>2. /\ file' = [file EXCEPT !["so"] = "absent"]
          /\ "so" \in Artifacts
      BY <1>7, <2>2 DEF Discard, Artifacts
    <3> QED
      BY <1>7, <2>2, <3>1, <3>2, FileType DEF Discard, TypeOK, bounds
  <2> QED
    BY <2>1, <2>2
<1>8. CASE Define(c)
  BY <1>8, CppdefType DEF Define, Goto, TypeOK, Places, directory, bounds
<1>9. CASE UnlinkOld(c)
  BY <1>9, FileType
  DEF UnlinkOld, Goto, TypeOK, Places, Artifacts, process, bounds
<1>10. CASE Stage(c)
  <2>1. /\ pc' \in [Callers -> Places]
        /\ staged' \subseteq Callers
        /\ listed' \in [Callers -> SUBSET (Artifacts \cup Callers)]
    BY <1>10 DEF Stage, Goto, TypeOK, Places
  <2> QED
    BY <1>10, <2>1 DEF Stage, TypeOK, process, bounds
<1>11. CASE Compile(c)
  BY <1>11 DEF Compile, Goto, TypeOK, Places, directory, process, bounds
<1>12. ASSUME NEW n \in Artifacts, NEW next \in Places, Write(c, n, next)
       PROVE  TypeOK'
  BY <1>12, FileType DEF Write, Goto, TypeOK, Places, process, bounds
<1>13. /\ "header" \in Artifacts /\ "meta" \in Artifacts
       /\ "meta" \in Places /\ "publish" \in Places
  BY DEF Artifacts, Places
<1>14. CASE Publish(c)
  BY <1>1, <1>14, ReturnType
  DEF Publish, Apply, Goto, TypeOK, Places, Artifacts, Results, bounds
<1>15. CASE BuildFails(c)
  BY <1>1, <1>15, ReturnType DEF BuildFails, Apply, TypeOK, Results, bounds
<1>16. CASE LoadBuiltFails(c) \/ Cleared(c)
  BY <1>16, ReturnType DEF LoadBuiltFails, Cleared, TypeOK, directory, bounds
<1>17. ASSUME NEW n \in listed[c], Unlink(c, n)
       PROVE  TypeOK'
  BY <1>17 DEF Unlink, TypeOK, Artifacts, process, bounds
<1> QED
  BY <1>2, <1>3, <1>4, <1>5, <1>6, <1>7, <1>8, <1>9, <1>12, <1>14, <1>15,
     <1>16, <1>17, <1>10, <1>13, <1>11 DEF Step

LEMMA CacheTypeStep == TypeOK /\ [Next]_vars => TypeOK'
<1> SUFFICES ASSUME TypeOK, [Next]_vars PROVE TypeOK'
  OBVIOUS
<1>1. ASSUME NEW c \in Callers, NEW k \in Uses[c], Call(c, k)
      PROVE  TypeOK'
  <2>1. k \in Kinds
    BY CallerAssumption DEF Kinds
  <2>2. /\ pc' \in [Callers -> Places]
        /\ listed' \in [Callers -> SUBSET (Artifacts \cup Callers)]
    <3>1. pc' \in [Callers -> Places]
      BY <1>1 DEF Call, Goto, TypeOK, Places
    <3>2. {n \in Artifacts : file[n] # "absent"} \cup staged
            \in SUBSET (Artifacts \cup Callers)
      BY DEF TypeOK
    <3> QED
      BY <1>1, <3>1, <3>2 DEF Call, TypeOK
  <2>3. /\ calls' \in [Callers -> 0 .. MaxCalls]
        /\ kind' \in [Callers -> Kinds]
        /\ outcome' \in [Callers -> Results \cup {"none", "raised", "done"}]
    BY <1>1, <2>1, CallerAssumption DEF Call, TypeOK
  <2> QED
    BY <1>1, <2>2, <2>3 DEF Call, TypeOK, directory, process
<1>2. ASSUME NEW c \in Callers, Step(c)
      PROVE  TypeOK'
  BY <1>2, StepKeepsTypes
<1>3. ASSUME NEW p \in Procs, Crash(p)
      PROVE  TypeOK'
  <2>1. /\ pc' \in [Callers -> Places]
        /\ outcome' \in [Callers -> Results \cup {"none", "raised", "done"}]
        /\ probed' \in [Callers -> SUBSET Artifacts]
        /\ listed' \in [Callers -> SUBSET (Artifacts \cup Callers)]
        /\ staged' \subseteq Callers
        /\ filelock' \in Callers \cup {Free}
    BY <1>3 DEF Crash, TypeOK, Places
  <2>2. /\ session' \in [Procs -> Callers \cup {Free}]
        /\ loaded' \subseteq Procs
        /\ applied' \in [Procs -> Results \cup {"none"}]
        /\ cppdefs' \in [Procs -> Nat]
        /\ crashes' \in 0 .. MaxCrashes
    BY <1>3, CallerAssumption DEF Crash, TypeOK
  <2> QED
    BY <1>3, <2>1, <2>2 DEF Crash, TypeOK
<1>4. CASE UNCHANGED vars
  BY <1>4 DEF vars, directory, process, bounds, TypeOK
<1> QED
  BY <1>1, <1>2, <1>3, <1>4 DEF Next

-----------------------------------------------------------------------------
(* What a step of c is in the middle of.                                   *)

LEMMA StepGoes ==
    ASSUME TypeOK, KindAtPlace, NEW c \in Callers, Step(c)
    PROVE  /\ kind' = kind
           /\ \E q \in Places :
                pc' = [pc EXCEPT ![c] = q] /\ Fits(kind[c], q)
<1>1. /\ Fits(kind[c], pc[c])
      /\ kind[c] \in {"plain", "compiled_only", "prebuild", "clear"}
      /\ Fits(kind[c], "idle")
  BY DEF KindAtPlace, TypeOK, Kinds, Fits
<1>2. /\ kind' = kind
      /\ \/ pc' = pc
         \/ \E q \in Places : Goto(c, q) /\ Fits(kind[c], q)
         \/ Goto(c, "idle")
  <2>1. CASE Enter(c)
    BY <1>1, <2>1 DEF Enter, Return, Places, Fits, At
  <2>2. CASE ProbeFinds(c) \/ (\E n \in listed[c] : Unlink(c, n))
    BY <2>2 DEF ProbeFinds, Unlink
  <2>3. CASE ProbeMisses(c) \/ ProbeHits(c)
    BY <1>1, <2>3 DEF ProbeMisses, ProbeHits, Return, Places, Fits, At
  <2>4. CASE LoadFails(c) \/ LockFile(c) \/ Define(c)
    BY <1>1, <2>4 DEF LoadFails, LockFile, Define, Places, Fits, At
  <2>5. CASE Discard(c)
    BY <1>1, <2>5 DEF Discard, Return, Places, Fits, At
  <2>6. CASE UnlinkOld(c) \/ Stage(c) \/ Compile(c)
    BY <1>1, <2>6 DEF UnlinkOld, Stage, Compile, Places, Fits, At
  <2>7. CASE Write(c, "header", "meta") \/ Write(c, "meta", "publish")
    BY <1>1, <2>7 DEF Write, Places, Fits, At
  <2>8. CASE Publish(c)
    BY <1>1, <2>8 DEF Publish, Apply, Return, Places, Fits, At
  <2>9. CASE \/ LoadSucceeds(c, "load", "cached")
             \/ LoadSucceeds(c, "load built", "miss-built-loaded")
             \/ BuildFails(c) \/ LoadBuiltFails(c) \/ Cleared(c)
    BY <2>9 DEF LoadSucceeds, BuildFails, LoadBuiltFails, Cleared, Apply, Return
  <2> QED
    BY <2>1, <2>2, <2>3, <2>4, <2>5, <2>6, <2>7, <2>8, <2>9 DEF Step
<1>3. pc = [pc EXCEPT ![c] = pc[c]] /\ pc[c] \in Places /\ "idle" \in Places
  BY DEF TypeOK, Places
<1> QED
  BY <1>1, <1>2, <1>3 DEF Goto

LEMMA StepKeepsKinds ==
    ASSUME TypeOK, KindAtPlace, NEW c \in Callers, Step(c)
    PROVE  KindAtPlace'
BY StepGoes DEF KindAtPlace, TypeOK

-----------------------------------------------------------------------------
(* What a step of c does to the record of its process.                     *)

\* A call without the session lock leaves the record alone and reports no
\* loaded library.
LEMMA OutsideSession ==
    ASSUME TypeOK, KindAtPlace, NEW c \in Callers, Step(c), ~InSession(c), ~Enter(c)
    PROVE  /\ UNCHANGED <<loaded, applied, cppdefs>>
           /\ session' \in {session, [p \in Procs |->
                                       IF session[p] = c THEN Free ELSE session[p]]}
           /\ \/ outcome' = outcome
              \/ outcome' = [outcome EXCEPT ![c] = "done"]
              \/ outcome' = [outcome EXCEPT ![c] = "raised"]
           /\ ~InSession(c)'
<1>1. kind[c] \in {"prebuild", "clear"} /\ pc[c] \notin {"idle", "enter"}
  BY DEF Step, InSession, KindAtPlace, Fits, TypeOK, Kinds, Enter, ProbeFinds,
     ProbeMisses, ProbeHits, LoadSucceeds, LoadFails, LockFile, Discard, Define,
     UnlinkOld, Stage, Compile, Write, Publish, BuildFails, LoadBuiltFails,
     Unlink, Cleared, At
<1>2. ~InSession(c)'
  BY <1>1, StepGoes DEF InSession
<1>3. pc[c] \notin {"enter", "load", "discard", "define", "load built"}
  BY <1>1 DEF KindAtPlace, Fits
<1>4. \/ ProbeFinds(c) \/ ProbeMisses(c) \/ ProbeHits(c) \/ LockFile(c)
      \/ UnlinkOld(c) \/ Stage(c) \/ Compile(c)
      \/ Write(c, "header", "meta") \/ Write(c, "meta", "publish")
      \/ Publish(c) \/ BuildFails(c)
      \/ \E n \in listed[c] : Unlink(c, n)
      \/ Cleared(c)
  BY <1>3 DEF Step, Enter, LoadSucceeds, LoadFails, Discard, Define,
     LoadBuiltFails, At
<1>5. CASE \/ ProbeFinds(c) \/ ProbeMisses(c) \/ LockFile(c) \/ UnlinkOld(c)
           \/ Stage(c) \/ Compile(c)
           \/ Write(c, "header", "meta") \/ Write(c, "meta", "publish")
           \/ \E n \in listed[c] : Unlink(c, n)
  BY <1>2, <1>5 DEF ProbeFinds, ProbeMisses, LockFile, UnlinkOld, Stage, Compile,
     Write, Unlink, process
<1>6. CASE ProbeHits(c) \/ Publish(c) \/ BuildFails(c) \/ Cleared(c)
  <2>1. kind[c] = "prebuild" \/ Cleared(c)
    BY <1>1, <1>6 DEF ProbeHits, Publish, BuildFails, At, KindAtPlace, Fits
  <2> QED
    BY <1>1, <1>2, <1>6, <2>1
    DEF ProbeHits, Publish, BuildFails, Cleared, Return
<1> QED
  BY <1>4, <1>5, <1>6

\* A call inside the session lock goes on with it, having given Cling the names
\* at most, or ends and releases it, having recorded its result unless it raised.
GoesOn(c) ==
    /\ UNCHANGED <<session, applied, outcome>>
    /\ InSession(c)'
    /\ loaded' = loaded \/ loaded' = loaded \ {ProcessOf[c]}
    /\ \/ cppdefs' = cppdefs /\ (DefinedUnrecorded(c) <=> DefinedUnrecorded(c)')
       \/ Cppdef(c) /\ ~DefinedUnrecorded(c) /\ DefinedUnrecorded(c)'

Raises(c) ==
    /\ Return(c, "raised")
    /\ ~DefinedUnrecorded(c)
    /\ UNCHANGED <<applied, cppdefs, loaded>>

RecordsResult(c) ==
    \E r \in Results :
        /\ Apply(c, r)
        /\ \/ r \in Loaded /\ Cppdef(c) /\ ~DefinedUnrecorded(c)
                /\ loaded' = loaded \cup {ProcessOf[c]}
           \/ r \notin Loaded /\ cppdefs' = cppdefs /\ DefinedUnrecorded(c)
                /\ loaded' = loaded

LEMMA InsideSession ==
    ASSUME TypeOK, KindAtPlace, NEW c \in Callers, Step(c), InSession(c)
    PROVE  GoesOn(c) \/ Raises(c) \/ RecordsResult(c)
<1>1. kind[c] \in {"plain", "compiled_only"} /\ pc[c] \in Places
  BY DEF InSession, TypeOK
<1>2. kind' = kind /\ \A q \in Places : Goto(c, q) => pc'[c] = q
  BY StepGoes DEF TypeOK, Goto
<1>3. CASE ProbeFinds(c)
  BY <1>1, <1>3 DEF ProbeFinds, GoesOn, InSession, DefinedUnrecorded, process
<1>4. CASE ProbeMisses(c) \/ ProbeHits(c)
  BY <1>1, <1>2, <1>4 DEF ProbeMisses, ProbeHits, GoesOn, InSession, At, Places,
     DefinedUnrecorded, Building, process
<1>5. CASE LoadFails(c) \/ LockFile(c) \/ UnlinkOld(c) \/ Stage(c) \/ Compile(c)
  BY <1>1, <1>2, <1>5 DEF LoadFails, LockFile, UnlinkOld, Stage, Compile, GoesOn,
     InSession, At, Places, DefinedUnrecorded, Building, process
<1>6. CASE Write(c, "header", "meta") \/ Write(c, "meta", "publish")
  BY <1>1, <1>2, <1>6 DEF Write, GoesOn, InSession, At, Places,
     DefinedUnrecorded, Building, process
<1>7. CASE Discard(c)
  BY <1>1, <1>2, <1>7 DEF Discard, GoesOn, Raises, InSession, At, Places,
     DefinedUnrecorded, Building, KindAtPlace, Fits
<1>8. CASE Define(c)
  BY <1>1, <1>2, <1>8 DEF Define, GoesOn, InSession, At, Places,
     DefinedUnrecorded, Building, KindAtPlace, Fits
<1>9. CASE Publish(c)
  BY <1>1, <1>2, <1>9 DEF Publish, GoesOn, RecordsResult, InSession, At, Places,
     DefinedUnrecorded, Building, Results, Loaded
<1>10. CASE BuildFails(c)
  BY <1>1, <1>2, <1>10 DEF BuildFails, Raises, RecordsResult, At, Building,
     DefinedUnrecorded, Results, Loaded
<1>11. ASSUME NEW place \in {"load", "load built"}, NEW r \in Loaded,
              LoadSucceeds(c, place, r)
       PROVE  RecordsResult(c)
  BY <1>1, <1>11 DEF LoadSucceeds, RecordsResult, At, Building,
     DefinedUnrecorded, Results, Loaded
<1>12. CASE LoadBuiltFails(c)
  BY <1>1, <1>12 DEF LoadBuiltFails, Raises, At, Building, DefinedUnrecorded
<1>13. ~Enter(c) /\ ~Cleared(c) /\ ~(\E n \in listed[c] : Unlink(c, n))
  BY <1>1 DEF Enter, Cleared, Unlink, At, InSession, KindAtPlace, Fits
<1>14. "cached" \in Loaded /\ "miss-built-loaded" \in Loaded
  BY DEF Loaded
<1> QED
  BY <1>3, <1>4, <1>5, <1>6, <1>7, <1>8, <1>9, <1>10, <1>11, <1>12, <1>13, <1>14
  DEF Step

LEMMA OthersStay ==
    ASSUME TypeOK, KindAtPlace, NEW c \in Callers, Step(c),
           NEW d \in Callers, d # c
    PROVE  /\ InSession(d)' <=> InSession(d)
           /\ DefinedUnrecorded(d)' <=> DefinedUnrecorded(d)
           /\ pc'[d] = pc[d] /\ kind'[d] = kind[d]
BY StepGoes DEF InSession, DefinedUnrecorded, TypeOK

SessionIInv == SessionLocked /\ RecordedOnce /\ ReportsAreLoaded

LEMMA EnterKeepsSession ==
    ASSUME TypeOK, KindAtPlace, SessionIInv, NEW c \in Callers, Enter(c)
    PROVE  SessionIInv'
<1> DEFINE p == ProcessOf[c]
<1>1. /\ Step(c) /\ p \in Procs /\ session[p] = Free
      /\ ~InSession(c) /\ ~DefinedUnrecorded(c)
      /\ UNCHANGED <<loaded, applied, cppdefs, kind>>
  BY CallerAssumption
  DEF Step, Enter, At, InSession, DefinedUnrecorded, Building
<1>2. /\ ~DefinedUnrecorded(c)'
      /\ \A d \in Callers : DefinedUnrecorded(d)' <=> DefinedUnrecorded(d)
  <2>1. pc'[c] \in {"idle", "probe"}
    BY DEF Enter, Return, Goto, TypeOK
  <2> QED
    BY <1>1, <2>1, OthersStay DEF DefinedUnrecorded, Building
<1>3. \A d \in Callers : InSession(d) => ProcessOf[d] # p
  BY <1>1, CallerAssumption DEF SessionIInv, SessionLocked
<1>4. \A d \in Callers : DefinedUnrecorded(d) => InSession(d)
  BY DEF DefinedUnrecorded, InSession, Building
<1>5. RecordedOnce'
  BY <1>1, <1>2 DEF SessionIInv, RecordedOnce
<1>6. CASE applied[p] # "none"
  <2>1. Return(c, applied[p]) /\ ~InSession(c)'
    BY <1>6 DEF Enter, Return, Goto, InSession, TypeOK
  <2>2. /\ outcome' = [outcome EXCEPT ![c] = applied[p]]
        /\ \A q \in Procs : session[q] # c => session'[q] = session[q]
    BY <2>1 DEF Return, TypeOK
  <2>3. ReportsAreLoaded'
    BY <1>1, <2>2 DEF SessionIInv, ReportsAreLoaded, TypeOK
  <2>4. SessionLocked'
    BY <1>1, <1>2, <2>1, <2>2, OthersStay, CallerAssumption
    DEF SessionIInv, SessionLocked
  <2> QED
    BY <1>5, <2>3, <2>4 DEF SessionIInv
<1>7. CASE applied[p] = "none"
  <2>1. session' = [session EXCEPT ![p] = c] /\ outcome' = outcome
    BY <1>7 DEF Enter
  <2>2. cppdefs[p] = 0
    BY <1>1, <1>3, <1>4, <1>7 DEF SessionIInv, RecordedOnce
  <2>3. ReportsAreLoaded'
    BY <1>1, <2>1 DEF SessionIInv, ReportsAreLoaded
  <2>4. SessionLocked'
    BY <1>1, <1>2, <1>3, <1>7, <2>1, <2>2, OthersStay, CallerAssumption
    DEF SessionIInv, SessionLocked, TypeOK
  <2> QED
    BY <1>5, <2>3, <2>4 DEF SessionIInv
<1> QED
  BY <1>6, <1>7

LEMMA OutsideKeepsSession ==
    ASSUME TypeOK, KindAtPlace, SessionIInv, NEW c \in Callers, Step(c),
           ~InSession(c), ~Enter(c)
    PROVE  SessionIInv'
<1>1. /\ UNCHANGED <<loaded, applied, cppdefs>>
      /\ \A q \in Procs : session[q] # c => session'[q] = session[q]
      /\ \A d \in Callers : outcome'[d] \in Loaded => outcome[d] \in Loaded
      /\ ~InSession(c)'
  BY OutsideSession DEF TypeOK, Loaded
<1>2. \A d \in Callers :
        /\ InSession(d)' => InSession(d) /\ d # c
        /\ DefinedUnrecorded(d) => InSession(d)
        /\ InSession(d) => (DefinedUnrecorded(d)' <=> DefinedUnrecorded(d))
  BY <1>1, OthersStay DEF DefinedUnrecorded, InSession, Building
<1>3. SessionLocked'
  BY <1>1, <1>2, CallerAssumption DEF SessionIInv, SessionLocked
<1>4. RecordedOnce'
  BY <1>1, <1>2 DEF SessionIInv, RecordedOnce
<1>5. ReportsAreLoaded'
  BY <1>1 DEF SessionIInv, ReportsAreLoaded
<1> QED
  BY <1>3, <1>4, <1>5 DEF SessionIInv

LEMMA InsideKeepsSession ==
    ASSUME TypeOK, KindAtPlace, SessionIInv, NEW c \in Callers, Step(c), InSession(c)
    PROVE  SessionIInv'
<1> DEFINE p == ProcessOf[c]
<1>1. /\ p \in Procs /\ session[p] = c /\ applied[p] = "none"
      /\ cppdefs[p] = IF DefinedUnrecorded(c) THEN 1 ELSE 0
  BY CallerAssumption DEF SessionIInv, SessionLocked
<1>2. \A d \in Callers : InSession(d) /\ d # c => ProcessOf[d] # p
  BY <1>1 DEF SessionIInv, SessionLocked
<1>3. \A d \in Callers \ {c} :
        /\ InSession(d)' <=> InSession(d)
        /\ DefinedUnrecorded(d)' <=> DefinedUnrecorded(d)
        /\ DefinedUnrecorded(d) => InSession(d)
  BY OthersStay DEF DefinedUnrecorded, InSession, Building
<1>4. \A d \in Callers : outcome[d] \in Loaded => ProcessOf[d] # p
  BY <1>1 DEF SessionIInv, ReportsAreLoaded, Loaded
<1>5. ~InSession(c)' => ~DefinedUnrecorded(c)'
  BY DEF InSession, DefinedUnrecorded, Building
<1>6. CASE GoesOn(c)
  <2>1. /\ cppdefs'[p] = IF DefinedUnrecorded(c)' THEN 1 ELSE 0
        /\ \A q \in Procs : q # p => cppdefs'[q] = cppdefs[q]
    BY <1>1, <1>6 DEF GoesOn, Cppdef, TypeOK
  <2>2. SessionLocked'
    BY <1>1, <1>2, <1>3, <1>6, <2>1, CallerAssumption
    DEF GoesOn, SessionIInv, SessionLocked
  <2>3. RecordedOnce'
    BY <1>1, <1>2, <1>3, <1>6, <2>1 DEF GoesOn, SessionIInv, RecordedOnce
  <2>4. ReportsAreLoaded'
    BY <1>1, <1>4, <1>6 DEF GoesOn, SessionIInv, ReportsAreLoaded, Loaded
  <2> QED
    BY <2>2, <2>3, <2>4 DEF SessionIInv
<1>7. CASE Raises(c)
  <2>1. /\ ~InSession(c)' /\ outcome' = [outcome EXCEPT ![c] = "raised"]
        /\ \A q \in Procs : session[q] # c => session'[q] = session[q]
    BY <1>7 DEF Raises, Return, Goto, InSession, TypeOK
  <2>2. SessionLocked'
    BY <1>1, <1>2, <1>3, <1>7, <2>1, CallerAssumption
    DEF Raises, SessionIInv, SessionLocked
  <2>3. RecordedOnce'
    BY <1>1, <1>2, <1>3, <1>5, <1>7, <2>1 DEF Raises, SessionIInv, RecordedOnce
  <2>4. ReportsAreLoaded'
    BY <1>7, <2>1 DEF Raises, SessionIInv, ReportsAreLoaded, Loaded, TypeOK
  <2> QED
    BY <2>2, <2>3, <2>4 DEF SessionIInv
<1>8. CASE RecordsResult(c)
  <2>1. PICK r \in Results :
        /\ Apply(c, r)
        /\ \/ r \in Loaded /\ Cppdef(c) /\ ~DefinedUnrecorded(c)
                /\ loaded' = loaded \cup {p}
           \/ r \notin Loaded /\ cppdefs' = cppdefs /\ DefinedUnrecorded(c)
                /\ loaded' = loaded
    BY <1>8 DEF RecordsResult
  <2>2. /\ ~InSession(c)' /\ outcome' = [outcome EXCEPT ![c] = r]
        /\ \A q \in Procs : session[q] # c => session'[q] = session[q]
        /\ applied' = [applied EXCEPT ![p] = r] /\ r # "none"
    BY <2>1 DEF Apply, Return, Goto, InSession, TypeOK, Results
  <2>3. /\ cppdefs'[p] = 1
        /\ \A q \in Procs : q # p => cppdefs'[q] = cppdefs[q]
    BY <1>1, <2>1 DEF Cppdef, TypeOK
  <2>4. SessionLocked'
    <3> SUFFICES ASSUME NEW d \in Callers, InSession(d)'
                 PROVE  /\ session'[ProcessOf[d]] = d
                        /\ applied'[ProcessOf[d]] = "none"
                        /\ cppdefs'[ProcessOf[d]] =
                             IF DefinedUnrecorded(d)' THEN 1 ELSE 0
      BY DEF SessionLocked
    <3>1. d # c /\ InSession(d) /\ ProcessOf[d] \in Procs \ {p}
      BY <1>2, <1>3, <2>2, CallerAssumption
    <3>2. applied'[ProcessOf[d]] = applied[ProcessOf[d]]
      BY <2>2, <3>1 DEF TypeOK
    <3> QED
      BY <1>3, <2>2, <2>3, <3>1, <3>2 DEF SessionIInv, SessionLocked
  <2>5. RecordedOnce'
    BY <1>1, <1>2, <1>3, <1>5, <2>2, <2>3 DEF SessionIInv, RecordedOnce, TypeOK
  <2>6. ReportsAreLoaded'
    <3>1. \A q \in Procs : q # p => applied'[q] = applied[q]
      BY <2>2 DEF TypeOK
    <3>2. applied'[p] = r /\ (r \in Loaded => p \in loaded')
      BY <1>1, <2>1, <2>2 DEF TypeOK
    <3>3. loaded \subseteq loaded'
      BY <2>1
    <3>4. outcome'[c] = r /\ \A d \in Callers \ {c} : outcome'[d] = outcome[d]
      BY <2>2 DEF TypeOK
    <3> QED
      BY <1>4, <3>1, <3>2, <3>3, <3>4, CallerAssumption
      DEF SessionIInv, ReportsAreLoaded
  <2> QED
    BY <2>4, <2>5, <2>6 DEF SessionIInv
<1> QED
  BY <1>6, <1>7, <1>8, InsideSession

LEMMA CrashKeepsSession ==
    ASSUME TypeOK, SessionIInv, NEW p \in Procs, Crash(p)
    PROVE  SessionIInv'
<1>1. \A q \in Procs :
        /\ session'[q] = IF q = p THEN Free ELSE session[q]
        /\ applied'[q] = IF q = p THEN "none" ELSE applied[q]
        /\ cppdefs'[q] = IF q = p THEN 0 ELSE cppdefs[q]
        /\ q \in loaded' <=> q # p /\ q \in loaded
  BY DEF Crash, TypeOK
<1>2. \A d \in Callers :
        /\ pc'[d] = IF ProcessOf[d] = p THEN "idle" ELSE pc[d]
        /\ outcome'[d] = IF ProcessOf[d] = p THEN "none" ELSE outcome[d]
        /\ kind'[d] = kind[d]
  BY DEF Crash, TypeOK
<1>3. \A d \in Callers :
        /\ InSession(d)' <=> ProcessOf[d] # p /\ InSession(d)
        /\ DefinedUnrecorded(d)' <=> ProcessOf[d] # p /\ DefinedUnrecorded(d)
  BY <1>2 DEF InSession, DefinedUnrecorded, Building
<1>4. SessionLocked'
  BY <1>1, <1>3, CallerAssumption DEF SessionIInv, SessionLocked
<1>5. RecordedOnce'
  BY <1>1, <1>3 DEF SessionIInv, RecordedOnce
<1>6. ReportsAreLoaded'
  BY <1>1, <1>2, CallerAssumption DEF SessionIInv, ReportsAreLoaded, Loaded
<1> QED
  BY <1>4, <1>5, <1>6 DEF SessionIInv

LEMMA CallKeepsSession ==
    ASSUME TypeOK, SessionIInv, NEW c \in Callers, NEW k \in Uses[c], Call(c, k)
    PROVE  SessionIInv'
<1>1. k \in Kinds /\ k # "none"
  BY CallerAssumption DEF Kinds
<1>2. pc'[c] \in {"clear", "probe", "enter"} /\ kind'[c] = k
      /\ (pc'[c] = "clear" => k = "clear") /\ (pc'[c] = "probe" => k = "prebuild")
  BY DEF Call, Goto, TypeOK
<1>3. /\ ~InSession(c) /\ ~DefinedUnrecorded(c)
      /\ ~InSession(c)' /\ ~DefinedUnrecorded(c)'
  BY <1>2 DEF Call, At, InSession, DefinedUnrecorded, Building
<1>4. \A d \in Callers \ {c} : pc'[d] = pc[d] /\ kind'[d] = kind[d]
  BY DEF Call, Goto, TypeOK
<1>5. \A d \in Callers :
        /\ InSession(d)' <=> InSession(d)
        /\ DefinedUnrecorded(d)' <=> DefinedUnrecorded(d)
  BY <1>3, <1>4 DEF InSession, DefinedUnrecorded
<1>6. /\ UNCHANGED <<session, applied, cppdefs, loaded>>
      /\ \A d \in Callers : outcome'[d] \in {"none", outcome[d]}
  BY DEF Call, process, TypeOK
<1> QED
  BY <1>5, <1>6 DEF SessionIInv, SessionLocked, RecordedOnce, ReportsAreLoaded, Loaded

-----------------------------------------------------------------------------
(* The file lock and the entry.                                            *)

\* What the holder of the file lock does to the entry.
LEMMA EntryStep ==
    ASSUME TypeOK, KindAtPlace, EntryLocked, NEW c \in Callers, Step(c)
    PROVE  /\ filelock # c /\ filelock' # filelock => filelock = Free /\ filelock' = c
           /\ pc'[c] \in UnderFileLock => filelock' = c
           /\ \A n \in Artifacts :
                file'[n] # "absent" => file'[n] = file[n] \/ filelock = c
           /\ pc'[c] = "discard" => file'["so"] # "good"
           /\ pc'[c] \in {"define", "unlink"} => ~Complete'
           /\ pc'[c] \in Building \ {"unlink"} => file'["so"] = "absent"
<1>1. \A q \in Places : Goto(c, q) => pc'[c] = q
  BY DEF TypeOK, Goto
<1>2. /\ pc[c] \in UnderFileLock => filelock = c
      /\ pc[c] = "discard" => file["so"] # "good"
      /\ pc[c] \in {"define", "unlink"} => ~Complete
      /\ pc[c] \in Building \ {"unlink"} => file["so"] = "absent"
      /\ c # Free
  BY CallerAssumption DEF EntryLocked
<1>3. ASSUME NEW r, Return(c, r)
      PROVE  /\ filelock' = IF filelock = c THEN Free ELSE filelock
             /\ pc'[c] = "idle"
  BY <1>1, <1>3 DEF Return, Places
<1> USE DEF UnderFileLock, Building
<1>4. CASE Enter(c)
  BY <1>1, <1>2, <1>3, <1>4 DEF Enter, At, Places, directory
<1>5. CASE ProbeFinds(c)
  BY <1>2, <1>5 DEF ProbeFinds, At, directory
<1>6. CASE ProbeMisses(c)
  <2>1. NextProbe(c) \in Artifacts
    BY <1>6, NextProbeIsArtifact DEF ProbeMisses, TypeOK
  <2> QED
    BY <1>1, <1>2, <1>6, <2>1 DEF ProbeMisses, At, Places, directory, Complete
<1>7. CASE ProbeHits(c)
  BY <1>1, <1>2, <1>3, <1>7 DEF ProbeHits, At, Places, directory
<1>8. CASE LoadFails(c)
  BY <1>1, <1>2, <1>8 DEF LoadFails, Loads, At, Places, directory, process
<1>9. CASE LockFile(c)
  BY <1>1, <1>2, <1>9 DEF LockFile, At, Places, directory
<1>10. CASE Discard(c)
  BY <1>1, <1>2, <1>3, <1>10 DEF Discard, At, Places, Artifacts, Complete, TypeOK
<1>11. CASE Define(c)
  BY <1>1, <1>2, <1>11 DEF Define, At, Places, directory, Complete
<1>12. CASE UnlinkOld(c) \/ Stage(c) \/ Compile(c)
  BY <1>1, <1>2, <1>12 DEF UnlinkOld, Stage, Compile, At, Places, Artifacts,
     directory, TypeOK
<1>13. CASE Write(c, "header", "meta") \/ Write(c, "meta", "publish")
  BY <1>1, <1>2, <1>13 DEF Write, At, Places, Artifacts, TypeOK
<1>14. CASE Publish(c)
  BY <1>1, <1>2, <1>3, <1>14 DEF Publish, Apply, At, Places, Artifacts, TypeOK
<1>15. CASE BuildFails(c) \/ LoadBuiltFails(c) \/ Cleared(c)
            \/ LoadSucceeds(c, "load", "cached")
            \/ LoadSucceeds(c, "load built", "miss-built-loaded")
  BY <1>2, <1>3, <1>15 DEF BuildFails, LoadBuiltFails, Cleared, LoadSucceeds,
     Apply, directory
<1>16. ASSUME NEW n \in listed[c], Unlink(c, n)
       PROVE  /\ pc' = pc /\ pc[c] = "clear" /\ filelock' = filelock
              /\ \A m \in Artifacts : file'[m] \in {file[m], "absent"}
  BY <1>16 DEF Unlink, At
<1> QED
  BY <1>2, <1>4, <1>5, <1>6, <1>7, <1>8, <1>10, <1>11, <1>12, <1>13, <1>14, <1>15,
     <1>16, <1>9 DEF Step

LEMMA StepKeepsEntry ==
    ASSUME TypeOK, KindAtPlace, EntryLocked, NEW c \in Callers, Step(c)
    PROVE  EntryLocked'
<1> SUFFICES ASSUME NEW d \in Callers
             PROVE  /\ pc'[d] \in UnderFileLock => filelock' = d
                    /\ pc'[d] = "discard" => file'["so"] # "good"
                    /\ pc'[d] \in {"define", "unlink"} => ~Complete'
                    /\ pc'[d] \in Building \ {"unlink"} => file'["so"] = "absent"
  BY DEF EntryLocked
<1>1. CASE d = c
  BY <1>1, EntryStep
<1>2. CASE d # c /\ pc[d] \in UnderFileLock
  <2>1. pc'[d] = pc[d] /\ filelock = d /\ d # Free
    BY <1>2, OthersStay, CallerAssumption DEF EntryLocked
  <2>2. /\ filelock' = d
        /\ \A n \in Artifacts : file'[n] # "absent" => file'[n] = file[n]
    BY <1>2, <2>1, EntryStep
  <2> QED
    BY <1>2, <2>1, <2>2 DEF EntryLocked, Complete, Artifacts
<1>3. CASE d # c /\ pc[d] \notin UnderFileLock
  BY <1>3, OthersStay DEF UnderFileLock, Building
<1> QED
  BY <1>1, <1>2, <1>3

LEMMA CallKeepsEntry ==
    ASSUME TypeOK, KindAtPlace, EntryLocked, NEW c \in Callers, NEW k \in Uses[c],
           Call(c, k)
    PROVE  KindAtPlace' /\ EntryLocked'
<1>1. k \in Kinds
  BY CallerAssumption DEF Kinds
<1>2. /\ pc'[c] = IF k = "clear" THEN "clear"
                  ELSE IF k = "prebuild" THEN "probe" ELSE "enter"
      /\ kind'[c] = k
      /\ UNCHANGED <<file, filelock>>
  BY DEF Call, Goto, TypeOK, directory
<1>3. \A d \in Callers \ {c} : pc'[d] = pc[d] /\ kind'[d] = kind[d]
  BY DEF Call, Goto, TypeOK
<1>4. KindAtPlace'
  BY <1>1, <1>2, <1>3 DEF KindAtPlace, Fits, Kinds
<1>5. EntryLocked'
  BY <1>2, <1>3 DEF EntryLocked, UnderFileLock, Building, Complete
<1> QED
  BY <1>4, <1>5

LEMMA CrashKeepsEntry ==
    ASSUME TypeOK, KindAtPlace, EntryLocked, NEW p \in Procs, Crash(p)
    PROVE  KindAtPlace' /\ EntryLocked'
<1>1. \A d \in Callers : pc'[d] = IF ProcessOf[d] = p THEN "idle" ELSE pc[d]
  BY DEF Crash
<1>2. /\ UNCHANGED <<file, kind>>
      /\ \A d \in Callers : filelock = d /\ ProcessOf[d] # p => filelock' = d
  BY DEF Crash
<1>3. KindAtPlace'
  BY <1>1, <1>2 DEF KindAtPlace, Fits
<1>4. EntryLocked'
  BY <1>1, <1>2 DEF EntryLocked, UnderFileLock, Building, Complete
<1> QED
  BY <1>3, <1>4

-----------------------------------------------------------------------------
(* The theorems.                                                           *)

LEMMA InitCacheIInv == Init => CacheIInv
<1> SUFFICES ASSUME Init PROVE CacheIInv
  OBVIOUS
<1>1. TypeOK
  BY CallerAssumption DEF Init, TypeOK, Places, Kinds
<1>2. KindAtPlace /\ SessionLocked /\ EntryLocked
  BY DEF Init, KindAtPlace, Fits, SessionLocked, InSession, EntryLocked,
     UnderFileLock, Building
<1>3. RecordedOnce /\ ReportsAreLoaded
  BY DEF Init, RecordedOnce, ReportsAreLoaded, Loaded
<1> QED
  BY <1>1, <1>2, <1>3 DEF CacheIInv

LEMMA CacheIInvStep == CacheIInv /\ [Next]_vars => CacheIInv'
<1> SUFFICES ASSUME CacheIInv, [Next]_vars PROVE CacheIInv'
  OBVIOUS
<1>1. /\ TypeOK /\ KindAtPlace /\ SessionIInv /\ EntryLocked
      /\ TypeOK'
  BY CacheTypeStep DEF CacheIInv, SessionIInv
<1>2. ASSUME NEW c \in Callers, NEW k \in Uses[c], Call(c, k)
      PROVE  KindAtPlace' /\ SessionIInv' /\ EntryLocked'
  BY <1>1, <1>2, CallKeepsSession, CallKeepsEntry
<1>3. ASSUME NEW c \in Callers, Step(c)
      PROVE  KindAtPlace' /\ SessionIInv' /\ EntryLocked'
  <2>1. SessionIInv'
    BY <1>1, <1>3, EnterKeepsSession, OutsideKeepsSession, InsideKeepsSession
  <2> QED
    BY <1>1, <1>3, <2>1, StepKeepsKinds, StepKeepsEntry
<1>4. ASSUME NEW p \in Procs, Crash(p)
      PROVE  KindAtPlace' /\ SessionIInv' /\ EntryLocked'
  BY <1>1, <1>4, CrashKeepsSession, CrashKeepsEntry
<1>5. ASSUME UNCHANGED vars
      PROVE  KindAtPlace' /\ SessionIInv' /\ EntryLocked'
  <2>1. UNCHANGED <<file, pc, kind, outcome, session, loaded, applied, cppdefs,
                    filelock>>
    BY <1>5 DEF vars, directory, process
  <2>2. KindAtPlace' /\ EntryLocked'
    BY <1>1, <2>1 DEF KindAtPlace, Fits, EntryLocked, Complete
  <2>3. SessionIInv'
    BY <1>1, <2>1 DEF SessionIInv, SessionLocked, InSession, DefinedUnrecorded,
       RecordedOnce, ReportsAreLoaded
  <2> QED
    BY <2>2, <2>3
<1>6. KindAtPlace' /\ SessionIInv' /\ EntryLocked'
  BY <1>2, <1>3, <1>4, <1>5 DEF Next
<1> QED
  BY <1>1, <1>6 DEF CacheIInv, SessionIInv

\* Every variable has its type, whatever the threads call and whoever crashes.
THEOREM CacheTypeCorrect == Spec => []TypeOK
<1>1. Init => CacheIInv
  BY InitCacheIInv
<1>2. CacheIInv /\ [Next]_vars => CacheIInv'
  BY CacheIInvStep
<1>3. CacheIInv => TypeOK
  BY DEF CacheIInv
<1> QED
  BY <1>1, <1>2, <1>3, PTL DEF Spec

\* The session lock and the record it guards give Cling an entry's names once
\* in a process, and a result that claims a loaded library is true.
THEOREM DefinedOnceHolds == Spec => []DefinedOnce
<1>1. Init => CacheIInv
  BY InitCacheIInv
<1>2. CacheIInv /\ [Next]_vars => CacheIInv'
  BY CacheIInvStep
<1>3. CacheIInv => DefinedOnce
  BY CallerAssumption
  DEF CacheIInv, RecordedOnce, ReportsAreLoaded, Loaded, DefinedOnce, Results
<1> QED
  BY <1>1, <1>2, <1>3, PTL DEF Spec

\* A step that is not clear_cache's changes the entry only under the file lock,
\* where the entry is known to be unusable.
LEMMA UsableEntryStep ==
    ASSUME CacheIInv, NEW c \in Callers, Step(c), file' # file
    PROVE  /\ ~Complete /\ Complete' => file'["so"] = "good"
           /\ Complete /\ file["so"] = "good"
                => At(c, "clear") /\ listed'[c] # listed[c]
<1>1. /\ pc[c] = "discard" => file["so"] # "good"
      /\ pc[c] = "unlink" => ~Complete
      /\ pc[c] \in {"header", "meta", "publish"} => file["so"] = "absent"
  BY DEF CacheIInv, EntryLocked, Building
<1>2. CASE Discard(c) \/ UnlinkOld(c)
  BY <1>1, <1>2 DEF Discard, UnlinkOld, At, CacheIInv, TypeOK, Complete, Artifacts
<1>3. CASE Write(c, "header", "meta") \/ Write(c, "meta", "publish")
  BY <1>1, <1>3 DEF Write, At, CacheIInv, TypeOK, Complete, Artifacts
<1>4. CASE Publish(c)
  BY <1>1, <1>4 DEF Publish, At, CacheIInv, TypeOK, Artifacts
<1>5. ASSUME NEW n \in listed[c], Unlink(c, n)
      PROVE  /\ ~Complete'  \/ Complete
             /\ At(c, "clear") /\ listed'[c] # listed[c]
  BY <1>5 DEF Unlink, CacheIInv, TypeOK, Complete
<1>6. \/ Discard(c) \/ UnlinkOld(c)
      \/ Write(c, "header", "meta") \/ Write(c, "meta", "publish")
      \/ Publish(c) \/ \E n \in listed[c] : Unlink(c, n)
  BY DEF Step, Enter, ProbeFinds, ProbeMisses, ProbeHits, LoadSucceeds, LoadFails,
     LockFile, Define, Stage, Compile, BuildFails, LoadBuiltFails, Cleared,
     directory
<1> QED
  BY <1>2, <1>3, <1>4, <1>5, <1>6

\* An entry becomes complete with the library of the build that completes it,
\* and only clear_cache takes a usable entry away.
THEOREM UsableEntryStaysHolds == Spec => UsableEntryStays
<1> DEFINE Kept == /\ ~Complete /\ Complete' => file'["so"] = "good"
                   /\ Complete /\ file["so"] = "good" /\ file' # file
                        => \E c \in Callers : At(c, "clear") /\ listed'[c] # listed[c]
<1>1. Init => CacheIInv
  BY InitCacheIInv
<1>2. CacheIInv /\ [Next]_vars => CacheIInv'
  BY CacheIInvStep
<1>3. CacheIInv /\ [Next]_vars => [Kept]_vars
  <2> SUFFICES ASSUME CacheIInv, Next PROVE Kept
    OBVIOUS
  <2>1. CASE file' = file
    BY <2>1 DEF Complete
  <2>2. CASE file' # file
    <3>1. PICK c \in Callers : Step(c)
      BY <2>2 DEF Next, Call, Crash, directory
    <3> QED
      BY <2>2, <3>1, UsableEntryStep
  <2> QED
    BY <2>1, <2>2
<1> QED
  BY <1>1, <1>2, <1>3, PTL DEF Spec, UsableEntryStays

-----------------------------------------------------------------------------
(* KernelOnce: the compile lock and _REGISTERED.                           *)

\* What a thread does between LocksCompile and the end of the section.
Compiling == {"looking", "defining", "recording", "building", "resolving"}

HoldsCompileLock ==
    \A t \in KernelThreads : ensuring[t] \in Compiling => compile_lock = t

\* Cling has the source exactly when _REGISTERED says so, except between the
\* definition and its record; nobody defines what is recorded.
DefinitionsRecorded ==
    /\ \A t \in KernelThreads :
        /\ ensuring[t] = "defining" => definitions = 0
        /\ ensuring[t] = "recording" => definitions = 1
    /\ definitions = 0 \/ definitions = 1
    /\ registered_kernel => definitions = 1
    /\ definitions = 1 /\ ~registered_kernel
         => \E t \in KernelThreads : ensuring[t] = "recording"

ArtifactSettled == \A w \in wants : artifact \/ w \in excused

KernelIInv ==
    /\ KernelTypeOK
    /\ HoldsCompileLock
    /\ DefinitionsRecorded
    /\ ArtifactSettled

LEMMA InitKernelIInv == KernelInit => KernelIInv
<1> SUFFICES ASSUME KernelInit PROVE KernelIInv
  OBVIOUS
<1>1. (CHOOSE w \in Wrappers : TRUE) \in Wrappers
  BY WrapperAssumption
<1>2. KernelTypeOK
  BY <1>1 DEF KernelInit, KernelTypeOK, Stages
<1>3. HoldsCompileLock /\ DefinitionsRecorded /\ ArtifactSettled
  BY DEF KernelInit, HoldsCompileLock, Compiling, DefinitionsRecorded,
         ArtifactSettled
<1> QED
  BY <1>2, <1>3 DEF KernelIInv

\* Steps outside the section of the compile lock.
LEMMA OutsideKeepsIInv ==
    ASSUME KernelIInv, NEW t \in KernelThreads,
           (\E w \in Wrappers : CallKernel(t, w)) \/ LocksWrapper(t) \/ LocksCompile(t)
    PROVE  KernelIInv'
<1>1. PICK at \in {"out", "locking", "compiling", "looking"} :
        /\ EnsureGoes(t, at)
        /\ at = "looking" => compile_lock = NoThreadYet /\ compile_lock' = t
        /\ at # "looking" => compile_lock' = compile_lock
  BY DEF CallKernel, LocksWrapper, LocksCompile
<1>2. /\ ensuring[t] \notin Compiling
      /\ UNCHANGED <<impls, registered_kernel, definitions, artifact, caching,
                     wants, excused>>
      /\ wrapper' \in [KernelThreads -> Wrappers]
      /\ wrapper_lock' \in [Wrappers -> KernelThreads \cup {NoThreadYet}]
  BY DEF CallKernel, LocksWrapper, LocksCompile, KernelIInv, KernelTypeOK,
         Compiling, EnsureGoes
<1>3. \A u \in KernelThreads : ensuring'[u] = IF u = t THEN at ELSE ensuring[u]
  BY <1>1 DEF EnsureGoes, KernelIInv, KernelTypeOK
<1>4. KernelTypeOK'
  BY <1>1, <1>2 DEF KernelIInv, KernelTypeOK, EnsureGoes, Stages
<1>5. HoldsCompileLock'
  BY <1>1, <1>2, <1>3, NobodyAssumption DEF KernelIInv, HoldsCompileLock, Compiling
<1>6. DefinitionsRecorded'
  BY <1>2, <1>3 DEF KernelIInv, DefinitionsRecorded, Compiling
<1>7. ArtifactSettled'
  BY <1>2 DEF KernelIInv, ArtifactSettled
<1> QED
  BY <1>4, <1>5, <1>6, <1>7 DEF KernelIInv

\* The others are outside while a thread is in the section.
LEMMA OnlyOneCompiles ==
    ASSUME KernelIInv, NEW t \in KernelThreads, ensuring[t] \in Compiling,
           NEW u \in KernelThreads, u # t
    PROVE  ensuring[u] \notin Compiling
BY DEF KernelIInv, HoldsCompileLock

\* What WantsArtifact leaves behind.
LEMMA ArtifactStaysSettled ==
    ASSUME KernelTypeOK, ArtifactSettled, NEW w \in Wrappers, WantsArtifact(w)
    PROVE  /\ ArtifactSettled'
           /\ artifact' \in BOOLEAN /\ wants' \subseteq Wrappers
           /\ excused' \subseteq Wrappers
BY DEF WantsArtifact, ArtifactSettled, KernelTypeOK

\* Steps with the compile lock.
LEMMA InsideKeepsIInv ==
    ASSUME KernelIInv, NEW t \in KernelThreads,
           \/ LooksUp(t) \/ Defines(t) \/ Records(t) \/ BuildsOnly(t)
           \/ EnsureRaises(t) \/ Resolves(t)
    PROVE  KernelIInv'
<1>1. ensuring[t] \in Compiling /\ wrapper[t] \in Wrappers
  BY DEF LooksUp, Defines, Records, BuildsOnly, EnsureRaises, Resolves,
         Compiling, KernelIInv, KernelTypeOK
<1>2. PICK at \in Stages :
        /\ EnsureGoes(t, at)
        /\ at \in Compiling => compile_lock' = compile_lock
        /\ compile_lock' \in {compile_lock, NoThreadYet}
  BY DEF LooksUp, Defines, Records, BuildsOnly, EnsureRaises, Resolves,
         Compiling, Stages
<1>3. \A u \in KernelThreads : ensuring'[u] = IF u = t THEN at ELSE ensuring[u]
  BY <1>2 DEF EnsureGoes, KernelIInv, KernelTypeOK
<1>4. \A u \in KernelThreads : u # t => ensuring[u] \notin Compiling
  BY <1>1, OnlyOneCompiles
<1>5. HoldsCompileLock'
  BY <1>1, <1>2, <1>3, <1>4 DEF KernelIInv, HoldsCompileLock
<1>6. ArtifactSettled' /\ artifact' \in BOOLEAN /\ wants' \subseteq Wrappers
        /\ excused' \subseteq Wrappers
  <2>1. CASE WantsArtifact(wrapper[t])
    BY <1>1, <2>1, ArtifactStaysSettled DEF KernelIInv
  <2>2. CASE UNCHANGED <<artifact, wants, excused>>
    BY <2>2 DEF KernelIInv, ArtifactSettled, KernelTypeOK
  <2> QED
    BY <2>1, <2>2 DEF LooksUp, Defines, Records, BuildsOnly, EnsureRaises, Resolves
<1>7. KernelTypeOK'
  <2>1. /\ ensuring' \in [KernelThreads -> Stages]
        /\ compile_lock' \in KernelThreads \cup {NoThreadYet}
    BY <1>2 DEF EnsureGoes, KernelIInv, KernelTypeOK
  <2>2. /\ wrapper' = wrapper /\ caching' = caching
        /\ impls' = impls \/ impls' = impls \cup {wrapper[t]}
        /\ definitions' = definitions \/ definitions' = definitions + 1
        /\ registered_kernel' = registered_kernel \/ registered_kernel' = TRUE
        /\ \/ wrapper_lock' = wrapper_lock
           \/ wrapper_lock' = [wrapper_lock EXCEPT ![wrapper[t]] = NoThreadYet]
    BY ZenonT(30) DEF LooksUp, Defines, Records, BuildsOnly, EnsureRaises, Resolves
  <2>3. registered_kernel' \in BOOLEAN /\ caching' \in BOOLEAN
    BY <2>2, Zenon DEF KernelIInv, KernelTypeOK
  <2>4. /\ wrapper_lock' \in [Wrappers -> KernelThreads \cup {NoThreadYet}]
        /\ impls' \subseteq Wrappers
    BY <1>1, <2>2 DEF KernelIInv, KernelTypeOK
  <2>5. wrapper' \in [KernelThreads -> Wrappers] /\ definitions' \in Nat
    BY <2>2 DEF KernelIInv, KernelTypeOK
  <2> QED
    BY <1>6, <2>1, <2>3, <2>4, <2>5 DEF KernelTypeOK
<1>8. DefinitionsRecorded'
  <2>1. CASE LooksUp(t)
    BY <1>3, <1>4, <2>1 DEF LooksUp, EnsureGoes, KernelIInv, KernelTypeOK,
       DefinitionsRecorded, Compiling
  <2>2. CASE Defines(t)
    BY <1>4, <2>2 DEF Defines, EnsureGoes, KernelIInv, KernelTypeOK,
       DefinitionsRecorded, Compiling
  <2>3. CASE Records(t)
    BY <1>4, <2>3 DEF Records, EnsureGoes, KernelIInv, KernelTypeOK,
       DefinitionsRecorded, Compiling
  <2>4. CASE BuildsOnly(t) \/ EnsureRaises(t) \/ Resolves(t)
    BY <1>4, <2>4 DEF BuildsOnly, EnsureRaises, Resolves, EnsureGoes, KernelIInv,
       KernelTypeOK, DefinitionsRecorded, Compiling
  <2> QED
    BY <2>1, <2>2, <2>3, <2>4
<1> QED
  BY <1>5, <1>6, <1>7, <1>8 DEF KernelIInv

LEMMA StepKernelIInv == KernelIInv /\ [KernelNext]_kernelVars => KernelIInv'
<1> SUFFICES ASSUME KernelIInv, [KernelNext]_kernelVars PROVE KernelIInv'
  OBVIOUS
<1>1. CASE ToggleCaching \/ UNCHANGED kernelVars
  <2>1. /\ UNCHANGED <<ensuring, wrapper, wrapper_lock, compile_lock, impls,
                       registered_kernel, definitions, artifact, wants, excused>>
        /\ caching' \in BOOLEAN
    BY <1>1, Zenon DEF ToggleCaching, kernelVars, KernelIInv, KernelTypeOK
  <2> QED
    BY <2>1 DEF KernelIInv, KernelTypeOK, HoldsCompileLock, DefinitionsRecorded,
       ArtifactSettled
<1>2. CASE \E t \in KernelThreads :
        \/ \E w \in Wrappers : CallKernel(t, w)
        \/ LocksWrapper(t) \/ LocksCompile(t)
  BY <1>2, OutsideKeepsIInv
<1>3. CASE \E t \in KernelThreads :
        \/ LooksUp(t) \/ Defines(t) \/ Records(t) \/ BuildsOnly(t)
        \/ EnsureRaises(t) \/ Resolves(t)
  BY <1>3, InsideKeepsIInv
<1> QED
  BY <1>1, <1>2, <1>3 DEF KernelNext

LEMMA InductiveKernelIInv == KernelSpec => []KernelIInv
BY InitKernelIInv, StepKernelIInv, PTL DEF KernelSpec

-----------------------------------------------------------------------------
\* The state of the model of _ensure stays well typed.
THEOREM KernelTypeCorrect == KernelSpec => []KernelTypeOK
BY InductiveKernelIInv, PTL DEF KernelIInv

\* Cling is given a source at most once, and no wrapper is left without the
\* library it asked for or a word about it, for any threads and wrappers.
THEOREM RegisteredOnce == KernelSpec => []KernelRegisteredOnce
<1>1. KernelIInv => KernelRegisteredOnce
  BY DEF KernelIInv, KernelTypeOK, DefinitionsRecorded, ArtifactSettled,
         KernelRegisteredOnce
<1> QED
  BY <1>1, InductiveKernelIInv, PTL

-----------------------------------------------------------------------------
(* HeaderFetch: a returned entry stays as it was verified.                 *)

FetchPlaces == {"no", "locking", "fetching", "replacing"}

FetchTypeOK ==
    /\ root \subseteq Whole \cup {"wrong header", "stray file"}
    /\ stage \in [Fetchers -> {{}, Whole}]
    /\ fetch_lock \in Fetchers \cup {NoFetcher}
    /\ fetching \in [Fetchers -> FetchPlaces]
    /\ relying \subseteq Fetchers

\* Who is past the verification under the lock still has the lock; the entry it
\* found invalid stays so until it has a stage to put in its place, and nobody
\* relies on what it removes.
ReplacesAlone ==
    \A p \in Fetchers :
        /\ fetching[p] \in {"fetching", "replacing"} => fetch_lock = p
        /\ fetching[p] = "fetching" => ~Valid(root)
        /\ fetching[p] = "replacing" => relying = {} /\ stage[p] = Whole

FetchIInv == FetchTypeOK /\ ReplacesAlone /\ ReturnedEntryStays

LEMMA InitFetchIInv == FetchInit => FetchIInv
BY DEF FetchInit, FetchIInv, FetchTypeOK, FetchPlaces, ReplacesAlone,
   ReturnedEntryStays

\* A file that is wrong or too many makes an entry invalid.
LEMMA TamperedIsInvalid ==
    ASSUME NEW pieces
    PROVE  /\ ~Valid((pieces \ {"header"}) \cup {"wrong header"})
           /\ ~Valid(pieces \cup {"stray file"})
<1>1. "stray file" \notin Whole /\ "wrong header" \notin Whole
  BY DEF Whole
<1> QED
  BY <1>1 DEF Valid

LEMMA FetchTypeStep ==
    ASSUME FetchTypeOK, FetchNext
    PROVE  FetchTypeOK'
<1>1. ASSUME NEW p \in Fetchers, RequireLooks(p) \/ FetchLocks(p)
      PROVE  FetchTypeOK'
  BY <1>1 DEF RequireLooks, FetchLocks, FetchGoes, FetchTypeOK, FetchPlaces
<1>2. ASSUME NEW p \in Fetchers, Fetched(p) \/ FetchFails(p)
      PROVE  FetchTypeOK'
  BY <1>2 DEF Fetched, FetchFails, FetchGoes, FetchTypeOK, FetchPlaces
<1>3. ASSUME NEW p \in Fetchers, PutsInPlace(p)
      PROVE  FetchTypeOK'
  <2>1. root' \in {{}, Whole}
    BY <1>3 DEF PutsInPlace, FetchTypeOK
  <2> QED
    BY <1>3, <2>1 DEF PutsInPlace, FetchGoes, FetchTypeOK, FetchPlaces
<1>4. ASSUME NEW p \in Fetchers, FetcherDies(p)
      PROVE  FetchTypeOK'
  BY <1>4 DEF FetcherDies, FetchGoes, FetchTypeOK, FetchPlaces
<1>5. ASSUME NEW p \in Fetchers, NEW piece \in root, RemovesPiece(p, piece)
      PROVE  FetchTypeOK'
  BY <1>5 DEF RemovesPiece, FetchTypeOK
<1>6. ASSUME \/ Tamper((root \ {"header"}) \cup {"wrong header"})
             \/ Tamper(root \cup {"stray file"})
      PROVE  FetchTypeOK'
  BY <1>6 DEF Tamper, FetchTypeOK
<1> QED
  BY <1>1, <1>2, <1>3, <1>4, <1>5, <1>6 DEF FetchNext

LEMMA FetchIInvStep == FetchIInv /\ [FetchNext]_fetchVars => FetchIInv'
<1> SUFFICES ASSUME FetchIInv, FetchNext \/ UNCHANGED fetchVars PROVE FetchIInv'
  OBVIOUS
<1> USE DEF ReplacesAlone, ReturnedEntryStays
<1>1. /\ FetchTypeOK /\ ReplacesAlone /\ ReturnedEntryStays
      /\ \A p \in Fetchers : p # NoFetcher
  BY NobodyFetches DEF FetchIInv
<1>2. ASSUME NEW p \in Fetchers, NEW at, FetchGoes(p, at)
      PROVE  \A q \in Fetchers : fetching'[q] = IF q = p THEN at ELSE fetching[q]
  BY <1>1, <1>2 DEF FetchGoes, FetchTypeOK
<1>3. ASSUME NEW p \in Fetchers, RequireLooks(p)
      PROVE  ReplacesAlone' /\ ReturnedEntryStays'
  BY <1>1, <1>2, <1>3 DEF RequireLooks, Removing, Valid
<1>4. ASSUME NEW p \in Fetchers, FetchLocks(p)
      PROVE  ReplacesAlone' /\ ReturnedEntryStays'
  BY <1>1, <1>2, <1>4 DEF FetchLocks, Valid
<1>5. ASSUME NEW p \in Fetchers, Fetched(p)
      PROVE  ReplacesAlone' /\ ReturnedEntryStays'
  BY <1>1, <1>2, <1>5 DEF Fetched, FetchTypeOK, Valid
<1>6. ASSUME NEW p \in Fetchers, PutsInPlace(p)
      PROVE  ReplacesAlone' /\ ReturnedEntryStays'
  BY <1>1, <1>2, <1>6 DEF PutsInPlace, Valid
<1>7. ASSUME NEW p \in Fetchers, FetchFails(p)
      PROVE  ReplacesAlone' /\ ReturnedEntryStays'
  BY <1>1, <1>2, <1>7 DEF FetchFails, Valid
<1>8. ASSUME NEW p \in Fetchers, FetcherDies(p)
      PROVE  ReplacesAlone' /\ ReturnedEntryStays'
  BY <1>1, <1>2, <1>8 DEF FetcherDies, Valid
<1>9. ASSUME NEW p \in Fetchers, NEW piece \in root, RemovesPiece(p, piece)
      PROVE  ReplacesAlone' /\ ReturnedEntryStays'
  BY <1>1, <1>9 DEF RemovesPiece, Valid
<1>10. ASSUME \/ Tamper((root \ {"header"}) \cup {"wrong header"})
              \/ Tamper(root \cup {"stray file"})
       PROVE  ReplacesAlone' /\ ReturnedEntryStays'
  <2>1. ~Valid(root)' /\ relying' = {} /\ UNCHANGED <<stage, fetch_lock, fetching>>
    BY <1>10, TamperedIsInvalid DEF Tamper, Valid
  <2> QED
    BY <1>1, <2>1
<1>11. CASE UNCHANGED fetchVars
  BY <1>1, <1>11 DEF fetchVars, FetchIInv, FetchTypeOK, Valid
<1>12. CASE FetchNext
  BY <1>1, <1>3, <1>4, <1>5, <1>6, <1>7, <1>8, <1>9, <1>10, <1>12, FetchTypeStep
  DEF FetchNext, FetchIInv
<1> QED
  BY <1>11, <1>12

\* The lock, and a stage per process, keep a returned entry as it was verified.
THEOREM ReturnedEntryStaysHolds == FetchSpec => []ReturnedEntryStays
<1>1. FetchInit => FetchIInv
  BY InitFetchIInv
<1>2. FetchIInv /\ [FetchNext]_fetchVars => FetchIInv'
  BY FetchIInvStep
<1>3. FetchIInv => ReturnedEntryStays
  BY DEF FetchIInv
<1> QED
  BY <1>1, <1>2, <1>3, PTL DEF FetchSpec

-----------------------------------------------------------------------------
(* Teardown: cleanups run before Cling goes.                               *)

Hooks == {"cling", "shutdown"}

TeardownTypeOK ==
    /\ cling \in {"none", "up", "down"}
    /\ exit_hooks \in Seq(Hooks)
    /\ lifetime \in {"running", "hooks", "ended"}
    /\ runtime_ready \in BOOLEAN /\ shutdown_registered \in BOOLEAN
    /\ shutdown_done \in BOOLEAN /\ shutting_down \in BOOLEAN
    /\ teardown \in Seq(Cleanups)
    /\ owed \subseteq Cleanups /\ late \subseteq Cleanups
    /\ registrations \in Nat

\* What is owed waits in the registry, so a shutdown that is over owes only
\* what came late.
OwedWaits ==
    /\ \A c \in owed : \E i \in 1 .. Len(teardown) : teardown[i] = c
    /\ shutting_down => shutdown_done
    /\ shutdown_done /\ ~shutting_down => owed \subseteq late

\* With the runtime up, the hook of shutdown is above the one of Cling until
\* it has run.
ShutdownAbove ==
    runtime_ready /\ ~shutdown_done =>
        \E i \in 1 .. Len(exit_hooks) :
            /\ exit_hooks[i] = "shutdown"
            /\ \A j \in 1 .. Len(exit_hooks) : exit_hooks[j] = "cling" => j < i

ClingFallsLast ==
    /\ runtime_ready => shutdown_registered /\ cling # "none"
    /\ cling = "down" => lifetime # "running"
    /\ runtime_ready /\ cling = "down" => shutdown_done /\ ~shutting_down

TeardownIInv == TeardownTypeOK /\ OwedWaits /\ ShutdownAbove /\ ClingFallsLast

-----------------------------------------------------------------------------
LEMMA InitTeardownIInv == TeardownInit => TeardownIInv
<1> SUFFICES ASSUME TeardownInit PROVE TeardownIInv
  OBVIOUS
<1>1. /\ runtime_ready \in BOOLEAN /\ shutdown_registered \in BOOLEAN
      /\ shutdown_done \in BOOLEAN /\ shutting_down \in BOOLEAN
  BY Zenon DEF TeardownInit
<1>2. <<>> \in Seq(Hooks) /\ <<>> \in Seq(Cleanups)
  OBVIOUS
<1> QED
  BY <1>1, <1>2 DEF TeardownInit, TeardownIInv, TeardownTypeOK, OwedWaits,
     ShutdownAbove, ClingFallsLast

LEMMA BeforeProperties ==
    ASSUME NEW S, NEW s \in Seq(S), NEW i \in 1 .. Len(s)
    PROVE  /\ SubSeq(s, 1, i - 1) \in Seq(S) /\ Len(SubSeq(s, 1, i - 1)) = i - 1
           /\ \A j \in 1 .. i - 1 : SubSeq(s, 1, i - 1)[j] = s[j]
<1>1. Len(s) \in Nat /\ i \in Nat /\ 1 <= i /\ i <= Len(s)
  OBVIOUS
<1>2. 1 \in 1 .. Len(s) + 1 /\ i - 1 \in 1 - 1 .. Len(s)
  BY <1>1
<1> QED
  BY <1>1, <1>2, SubSeqProperties

LEMMA FrontType ==
    ASSUME NEW S, NEW s \in Seq(S), s # <<>>
    PROVE  /\ Front(s) \in Seq(S) /\ Len(Front(s)) = Len(s) - 1
           /\ Len(s) \in Nat /\ Len(s) >= 1
           /\ \A i \in 1 .. Len(s) - 1 : Front(s)[i] = s[i]
           /\ Last(s) = s[Len(s)] /\ Last(s) \in S
<1>1. Len(s) \in Nat /\ Len(s) >= 1
  BY EmptySeq
<1>2. Len(s) \in 1 .. Len(s) /\ s[Len(s)] \in S
  BY <1>1, ElementOfSeq
<1> QED
  BY <1>1, <1>2, BeforeProperties DEF Front, Last

LEMMA RemoveAtProperties ==
    ASSUME NEW S, NEW s \in Seq(S), NEW i \in 1 .. Len(s)
    PROVE  /\ RemoveAt(s, i) \in Seq(S)
           /\ Len(RemoveAt(s, i)) = Len(s) - 1
           /\ \A j \in 1 .. Len(s) - 1 :
                RemoveAt(s, i)[j] = IF j < i THEN s[j] ELSE s[j + 1]
<1> DEFINE a == SubSeq(s, 1, i - 1)
           b == SubSeq(s, i + 1, Len(s))
<1>1. Len(s) \in Nat /\ i \in Nat /\ 1 <= i /\ i <= Len(s)
  OBVIOUS
<1>2. /\ a \in Seq(S) /\ Len(a) = i - 1
      /\ \A j \in 1 .. i - 1 : a[j] = s[j]
  <2>1. 1 \in 1 .. Len(s) + 1 /\ i - 1 \in 1 - 1 .. Len(s)
    BY <1>1
  <2> QED
    BY <1>1, <2>1, SubSeqProperties
<1>3. /\ b \in Seq(S) /\ Len(b) = Len(s) - i
      /\ \A j \in 1 .. Len(s) - i : b[j] = s[i + j]
  <2>1. i + 1 \in 1 .. Len(s) + 1 /\ Len(s) \in (i + 1) - 1 .. Len(s)
    BY <1>1
  <2> QED
    BY <1>1, <2>1, SubSeqProperties
<1> HIDE DEF a, b
<1>4. /\ a \o b \in Seq(S) /\ Len(a \o b) = Len(s) - 1
      /\ \A j \in 1 .. Len(s) - 1 :
           (a \o b)[j] = IF j <= i - 1 THEN a[j] ELSE b[j - (i - 1)]
  <2>1. Len(a) + Len(b) = Len(s) - 1
    BY <1>1, <1>2, <1>3
  <2>2. /\ a \o b \in Seq(S) /\ Len(a \o b) = Len(a) + Len(b)
        /\ \A j \in 1 .. Len(a) + Len(b) :
             (a \o b)[j] = IF j <= Len(a) THEN a[j] ELSE b[j - Len(a)]
    BY <1>2, <1>3, ConcatProperties
  <2> QED
    BY <1>2, <2>1, <2>2
<1>5. \A j \in 1 .. Len(s) - 1 : (a \o b)[j] = IF j < i THEN s[j] ELSE s[j + 1]
  <2> SUFFICES ASSUME NEW j \in 1 .. Len(s) - 1
               PROVE  (a \o b)[j] = IF j < i THEN s[j] ELSE s[j + 1]
    OBVIOUS
  <2>1. CASE j < i
    BY <1>1, <1>2, <1>4, <2>1
  <2>2. CASE ~(j < i)
    <3>1. j - (i - 1) \in 1 .. Len(s) - i /\ i + (j - (i - 1)) = j + 1
      BY <1>1, <2>2
    <3> QED
      BY <1>1, <1>3, <1>4, <2>2, <3>1
  <2> QED
    BY <2>1, <2>2
<1> QED
  BY <1>4, <1>5 DEF RemoveAt, a, b

\* forget() takes the token out of the queue and keeps the others in order.

LEMMA UnregisteredType ==
    ASSUME NEW s \in Seq(Hooks), NEW h PROVE Unregistered(s, h) \in Seq(Hooks)
<1>1. CASE h \in ToSet(s)
  <2>1. \E i \in DOMAIN s : s[i] = h
    BY <1>1 DEF ToSet
  <2> DEFINE i == CHOOSE i \in DOMAIN s : s[i] = h
  <2>2. i \in 1 .. Len(s)
    BY <2>1
  <2> QED
    BY <1>1, <2>2, RemoveAtProperties DEF Unregistered
<1>2. CASE h \notin ToSet(s)
  BY <1>2 DEF Unregistered
<1> QED
  BY <1>1, <1>2

\* The hooks while the program runs.
LEMMA RunningStep ==
    ASSUME TeardownIInv, ImportCppyy \/ EnsureRuntime PROVE TeardownIInv'
<1> USE DEF TeardownIInv
<1>1. /\ UNCHANGED <<lifetime, shutdown_done, shutting_down, teardown, owed, late,
                     registrations>>
      /\ lifetime = "running"
      /\ cling' = "up"
  BY DEF ImportCppyy, EnsureRuntime
<1>2. ClingStarted \in Seq(Hooks)
  BY AppendProperties DEF ClingStarted, TeardownTypeOK, Hooks
<1>3. runtime_ready' \in BOOLEAN /\ shutdown_registered' \in BOOLEAN
  <2>1. TeardownTypeOK
    OBVIOUS
  <2> QED
    BY <2>1, Zenon DEF ImportCppyy, EnsureRuntime, TeardownTypeOK
<1>4. CASE ImportCppyy
  <2>1. exit_hooks' \in Seq(Hooks) /\ ~runtime_ready'
    BY <1>2, <1>4 DEF ImportCppyy, ClingFallsLast
  <2>2. TeardownTypeOK'
    BY <1>1, <1>3, <2>1 DEF TeardownTypeOK
  <2> QED
    BY <1>1, <2>1, <2>2, <1>4 DEF OwedWaits, ShutdownAbove, ClingFallsLast, ImportCppyy
<1>5. CASE EnsureRuntime
  <2> DEFINE rest == Unregistered(ClingStarted, "shutdown")
  <2>1. rest \in Seq(Hooks)
    BY <1>2, UnregisteredType
  <2>2. exit_hooks' = Append(rest, "shutdown")
    BY <1>5 DEF EnsureRuntime
  <2>3. /\ exit_hooks' \in Seq(Hooks) /\ Len(exit_hooks') = Len(rest) + 1
        /\ exit_hooks'[Len(rest) + 1] = "shutdown" /\ Len(rest) \in Nat
    BY <2>1, <2>2, AppendProperties DEF Hooks
  <2>4. ShutdownAbove'
    BY <2>3 DEF ShutdownAbove
  <2>5. TeardownTypeOK'
    BY <1>1, <1>3, <2>3 DEF TeardownTypeOK
  <2> QED
    BY <1>1, <1>5, <2>4, <2>5 DEF OwedWaits, ClingFallsLast, EnsureRuntime
<1> QED
  BY <1>4, <1>5

LEMMA RegisterTeardownStep ==
    ASSUME TeardownIInv, NEW c \in Cleanups, RegisterTeardown(c) PROVE TeardownIInv'
<1> USE DEF TeardownIInv
<1>1. /\ UNCHANGED <<cling, lifetime, runtime_ready, shutdown_done, shutting_down>>
      /\ exit_hooks' = IF shutdown_registered THEN exit_hooks
                       ELSE Append(exit_hooks, "shutdown")
      /\ shutdown_registered' = TRUE /\ registrations' = registrations + 1
      /\ teardown' = IF c \in ToSet(teardown) THEN teardown ELSE Append(teardown, c)
      /\ owed' = owed \cup {c}
      /\ late' = IF shutdown_done /\ ~shutting_down THEN late \cup {c} ELSE late
  BY Zenon DEF RegisterTeardown
<1>2. shutdown_registered' \in BOOLEAN
  BY Zenon, <1>1
<1>3. exit_hooks' \in Seq(Hooks)
  BY <1>1, AppendProperties DEF TeardownTypeOK, Hooks
<1>4. /\ teardown' \in Seq(Cleanups)
      /\ \A d \in owed' : \E i \in 1 .. Len(teardown') : teardown'[i] = d
  <2>1. teardown \in Seq(Cleanups) /\ Len(teardown) \in Nat
    BY DEF TeardownTypeOK
  <2>2. CASE c \in ToSet(teardown)
    <3>1. \E i \in 1 .. Len(teardown) : teardown[i] = c
      BY <2>1, <2>2 DEF ToSet
    <3> QED
      BY <1>1, <2>1, <2>2, <3>1 DEF OwedWaits
  <2>3. CASE c \notin ToSet(teardown)
    <3>1. /\ teardown' \in Seq(Cleanups) /\ Len(teardown') = Len(teardown) + 1
          /\ teardown'[Len(teardown) + 1] = c
          /\ \A i \in 1 .. Len(teardown) : teardown'[i] = teardown[i]
      BY <1>1, <2>1, <2>3, AppendProperties
    <3> QED
      BY <1>1, <2>1, <3>1 DEF OwedWaits
  <2> QED
    BY <2>2, <2>3
<1>5. TeardownTypeOK'
  BY <1>1, <1>2, <1>3, <1>4 DEF TeardownTypeOK
<1>6. OwedWaits'
  BY <1>1, <1>4 DEF OwedWaits
<1>7. ShutdownAbove' /\ ClingFallsLast'
  BY <1>1 DEF ShutdownAbove, ClingFallsLast
<1> QED
  BY <1>5, <1>6, <1>7

LEMMA ShutdownStep ==
    ASSUME TeardownIInv, ExplicitShutdown \/ RunCleanup \/ ShutdownReturns
    PROVE  TeardownIInv'
<1> USE DEF TeardownIInv
<1>1. /\ UNCHANGED <<cling, exit_hooks, lifetime, runtime_ready, shutdown_registered,
                     late, registrations>>
      /\ shutdown_done' \in BOOLEAN /\ shutting_down' \in BOOLEAN
  <2>1. shutdown_done \in BOOLEAN /\ shutting_down \in BOOLEAN
    BY DEF TeardownTypeOK
  <2> QED
    BY <2>1, Zenon DEF ExplicitShutdown, RunCleanup, ShutdownReturns, Shutdown
<1>2. CASE ExplicitShutdown
  BY <1>1, <1>2 DEF ExplicitShutdown, Shutdown, TeardownTypeOK, OwedWaits, ShutdownAbove,
     ClingFallsLast
<1>3. CASE RunCleanup
  <2>1. /\ teardown \in Seq(Cleanups) /\ teardown # <<>> /\ teardown' = Front(teardown)
        /\ owed' = owed \ {Last(teardown)}
        /\ shutting_down /\ UNCHANGED <<shutdown_done, shutting_down>>
    BY <1>3 DEF RunCleanup, TeardownTypeOK
  <2>2. /\ Front(teardown) \in Seq(Cleanups) /\ Len(Front(teardown)) = Len(teardown) - 1
        /\ Len(teardown) \in Nat /\ Len(teardown) >= 1
        /\ \A i \in 1 .. Len(teardown) - 1 : Front(teardown)[i] = teardown[i]
        /\ Last(teardown) = teardown[Len(teardown)]
    BY <2>1, FrontType
  <2>3. \A c \in owed' : \E i \in 1 .. Len(teardown') : teardown'[i] = c
    <3> SUFFICES ASSUME NEW c \in owed' PROVE \E i \in 1 .. Len(teardown') : teardown'[i] = c
      OBVIOUS
    <3>1. PICK i \in 1 .. Len(teardown) : teardown[i] = c
      BY <2>1 DEF OwedWaits
    <3>2. i # Len(teardown)
      BY <2>1, <2>2, <3>1
    <3>3. i \in 1 .. Len(teardown) - 1
      BY <2>2, <3>1, <3>2
    <3> QED
      BY <2>1, <2>2, <3>1, <3>3
  <2>4. TeardownTypeOK'
    BY <1>1, <2>1, <2>2 DEF TeardownTypeOK
  <2> QED
    BY <1>1, <2>1, <2>3, <2>4 DEF OwedWaits, ShutdownAbove, ClingFallsLast
<1>4. CASE ShutdownReturns
  <2>1. owed = {}
    BY <1>4 DEF ShutdownReturns, OwedWaits
  <2> QED
    BY <1>1, <1>4, <2>1 DEF ShutdownReturns, TeardownTypeOK, OwedWaits, ShutdownAbove,
       ClingFallsLast
<1> QED
  BY <1>2, <1>3, <1>4

LEMMA ExitStep ==
    ASSUME TeardownIInv, Exit \/ RunExitHook \/ ExitEnds PROVE TeardownIInv'
<1> USE DEF TeardownIInv
<1>1. CASE Exit \/ ExitEnds
  BY <1>1 DEF Exit, ExitEnds, TeardownTypeOK, OwedWaits, ShutdownAbove, ClingFallsLast
<1>2. CASE RunExitHook
  <2>1. /\ exit_hooks \in Seq(Hooks) /\ exit_hooks # <<>>
        /\ lifetime = "hooks" /\ ~shutting_down /\ exit_hooks' = Front(exit_hooks)
        /\ UNCHANGED <<lifetime, runtime_ready, shutdown_registered, teardown, owed,
                       late, registrations>>
    BY <1>2 DEF RunExitHook, TeardownTypeOK
  <2>2. /\ Front(exit_hooks) \in Seq(Hooks) /\ Len(Front(exit_hooks)) = Len(exit_hooks) - 1
        /\ Len(exit_hooks) \in Nat /\ Len(exit_hooks) >= 1
        /\ \A i \in 1 .. Len(exit_hooks) - 1 : Front(exit_hooks)[i] = exit_hooks[i]
        /\ Last(exit_hooks) = exit_hooks[Len(exit_hooks)]
    BY <2>1, FrontType
  <2>3. shutdown_done' \in BOOLEAN /\ shutting_down' \in BOOLEAN
    <3>1. shutdown_done \in BOOLEAN /\ shutting_down \in BOOLEAN
      BY DEF TeardownTypeOK
    <3> QED
      BY <1>2, <3>1, Zenon DEF RunExitHook, Shutdown
  <2>4. CASE Last(exit_hooks) = "shutdown"
    <3>1. /\ UNCHANGED cling /\ shutdown_done'
          /\ shutdown_done => ~shutting_down'
          /\ ~shutdown_done => shutting_down'
      <4>1. UNCHANGED cling
        BY <1>2, <2>4 DEF RunExitHook
      <4>2. Shutdown \/ (shutdown_done /\ UNCHANGED <<shutdown_done, shutting_down>>)
        BY <1>2, <2>4 DEF RunExitHook
      <4> QED
        BY <2>1, <4>1, <4>2 DEF Shutdown
    <3>2. TeardownTypeOK'
      BY <2>1, <2>2, <2>3, <3>1 DEF TeardownTypeOK
    <3> QED
      BY <2>1, <3>1, <3>2 DEF OwedWaits, ShutdownAbove, ClingFallsLast
  <2>5. CASE Last(exit_hooks) = "cling"
    <3>1. cling' = "down" /\ UNCHANGED <<shutdown_done, shutting_down>>
      BY <1>2, <2>5 DEF RunExitHook
    <3>2. runtime_ready => shutdown_done
      <4> SUFFICES ASSUME runtime_ready, ~shutdown_done PROVE FALSE
        OBVIOUS
      <4>1. PICK i \in 1 .. Len(exit_hooks) :
               /\ exit_hooks[i] = "shutdown"
               /\ \A j \in 1 .. Len(exit_hooks) : exit_hooks[j] = "cling" => j < i
        BY Zenon DEF ShutdownAbove
      <4>2. Len(exit_hooks) \in 1 .. Len(exit_hooks)
        BY <2>2
      <4>3. Len(exit_hooks) < i
        BY <2>2, <2>5, <4>1, <4>2
      <4> QED
        BY <2>2, <4>1, <4>3
    <3>3. TeardownTypeOK'
      BY <2>1, <2>2, <3>1 DEF TeardownTypeOK
    <3> QED
      BY <2>1, <3>1, <3>2, <3>3 DEF OwedWaits, ShutdownAbove, ClingFallsLast
  <2> QED
    BY <1>2, <2>4, <2>5 DEF RunExitHook
<1> QED
  BY <1>1, <1>2

LEMMA StepTeardownIInv == TeardownIInv /\ [TeardownNext]_teardownVars => TeardownIInv'
<1> SUFFICES ASSUME TeardownIInv, [TeardownNext]_teardownVars PROVE TeardownIInv'
  OBVIOUS
<1>1. CASE UNCHANGED teardownVars
  BY <1>1 DEF teardownVars, TeardownIInv, TeardownTypeOK, OwedWaits, ShutdownAbove,
     ClingFallsLast
<1> QED
  BY <1>1, RunningStep, RegisterTeardownStep, ShutdownStep, ExitStep DEF TeardownNext

LEMMA InductiveTeardownIInv == TeardownSpec => []TeardownIInv
BY InitTeardownIInv, StepTeardownIInv, PTL DEF TeardownSpec

\* The interpreter, its hooks and the registry stay well typed, for any
\* callbacks and any number of registrations.
THEOREM TeardownTypeCorrect == TeardownSpec => []TeardownTypeOK
<1>1. TeardownIInv => TeardownTypeOK
  BY DEF TeardownIInv
<1> QED
  BY <1>1, InductiveTeardownIInv, PTL

\* Once the runtime was started, Cling goes down after every callback that was
\* registered before shutdown() was over.
THEOREM CleanupsPrecedeClingHolds == TeardownSpec => []CleanupsPrecedeCling
<1>1. TeardownIInv => CleanupsPrecedeCling
  BY DEF TeardownIInv, OwedWaits, ClingFallsLast, CleanupsPrecedeCling
<1> QED
  BY <1>1, InductiveTeardownIInv, PTL

-----------------------------------------------------------------------------
(* AutoPch: a PCH under its lock is being built.                           *)

\* What an invariant needs of the state of processes and builders; the order
\* of the files by age is not among it.
PchStates ==
    /\ manifest \in SUBSET Headers
    /\ run \in [Processes -> {"none", "started", "bound", "overridden", "ready",
                              "merging", "scheduled", "locking", "spawning"}]
    /\ merged \in [Processes -> SUBSET Headers]
    /\ exit_key \in [Processes -> SUBSET Headers]
    /\ lock \in [Keys -> {"absent", "young", "old"}]
    /\ stranded \subseteq Keys
    /\ builder = [p \in Processes |-> builder[p]]
    /\ \A p \in Processes :
        builder[p] = [at |-> builder[p].at, key |-> builder[p].key,
                      keys |-> builder[p].keys, doomed |-> builder[p].doomed]

\* A key that is locked or built is never the empty one: something was
\* registered before.
KeysNamed ==
    /\ \A p \in Processes :
        /\ run[p] = "merging" => merged[p] # {}
        /\ run[p] = "scheduled" => manifest # {}
        /\ run[p] \in {"locking", "spawning"} => exit_key[p] \in Keys
        /\ builder[p] = NoBuilder \/ builder[p].key \in Keys

AtWork(k) == Owners(k) \cup Builders(k)

\* The lock file of a key stands for the one process or builder at work under
\* it, or for one that was killed; only a lock of the latter kind ages.
LockHasOneOwner ==
    \A k \in Keys :
        /\ Owners(k) \cap Builders(k) = {}
        /\ \A p, q \in AtWork(k) : p = q
        /\ lock[k] # "absent" <=> AtWork(k) # {} \/ k \in stranded
        /\ k \in stranded \/ lock[k] = "old" => AtWork(k) = {}

PchIInv == PchStates /\ KeysNamed /\ LockHasOneOwner

LEMMA InitPchIInv == AutoPchInit => PchIInv
<1> SUFFICES ASSUME AutoPchInit PROVE PchIInv
  OBVIOUS
<1>1. \A p \in Processes : builder[p] = NoBuilder /\ run[p] = "none"
  BY DEF AutoPchInit
<1>2. \A k \in Keys : AtWork(k) = {} /\ Owners(k) = {}
  BY <1>1 DEF AtWork, Owners, Builders, NoBuilder, Keys, NoKey
<1>3. LockHasOneOwner /\ KeysNamed
  BY <1>1, <1>2 DEF LockHasOneOwner, KeysNamed, AutoPchInit
<1>4. builder = [p \in Processes |-> builder[p]]
  BY DEF AutoPchInit
<1>5. /\ run \in [Processes -> {"none"}] /\ lock \in [Keys -> {"absent"}]
      /\ merged \in [Processes -> SUBSET Headers]
      /\ exit_key \in [Processes -> SUBSET Headers]
  BY DEF AutoPchInit, NoKey
<1> QED
  BY <1>1, <1>3, <1>4, <1>5 DEF AutoPchInit, PchIInv, PchStates, NoBuilder

\* A step that takes no lock, gives none up and ends no build.
LEMMA LocksStay ==
    ASSUME PchIInv, UNCHANGED <<lock, stranded>>,
           \A p \in Processes :
               /\ run[p] = "spawning" <=> run'[p] = "spawning"
               /\ run[p] = "spawning" => exit_key'[p] = exit_key[p]
               /\ builder'[p].key = builder[p].key
    PROVE  LockHasOneOwner'
<1>1. \A k : Owners(k)' = Owners(k) /\ Builders(k)' = Builders(k)
  BY DEF Owners, Builders
<1> QED
  BY <1>1 DEF PchIInv, LockHasOneOwner, AtWork

LEMMA RunStep ==
    ASSUME PchIInv, NEW p \in Processes,
           \/ StartProcess(p) \/ Setup(p) \/ SetupActivates(p) \/ WriteManifest(p)
           \/ \E h \in Headers : RegisterHeader(p, h)
           \/ ExitQuietly(p) \/ ExitMisses(p)
    PROVE  PchIInv'
<1> USE DEF PchIInv
<1>1. UNCHANGED <<lock, stranded, builder>>
  BY DEF StartProcess, Setup, SetupActivates, WriteManifest, RegisterHeader, ExitQuietly,
         ExitMisses, files, memory
<1>2. PICK place \in {"none", "started", "bound", "overridden", "ready", "merging",
                      "scheduled", "locking"} :
        run[p] # "spawning" /\ run' = [run EXCEPT ![p] = place]
  BY DEF StartProcess, Setup, SetupActivates, WriteManifest, RegisterHeader, ExitQuietly,
         ExitMisses, Goes
<1>3. /\ manifest' \in SUBSET Headers /\ merged' \in [Processes -> SUBSET Headers]
      /\ exit_key' \in [Processes -> SUBSET Headers]
  BY DEF StartProcess, Setup, SetupActivates, WriteManifest, RegisterHeader, ExitQuietly,
         ExitMisses, files, memory, PchStates, NoKey
<1>4. PchStates'
  BY <1>1, <1>2, <1>3 DEF PchStates
<1>5. KeysNamed'
  <2>1. CASE StartProcess(p) \/ Setup(p) \/ SetupActivates(p) \/ ExitQuietly(p)
    BY <2>1 DEF StartProcess, Setup, SetupActivates, ExitQuietly, Goes, files, memory,
         PchStates, KeysNamed
  <2>2. CASE WriteManifest(p)
    BY <2>2 DEF WriteManifest, Goes, files, memory, PchStates, KeysNamed
  <2>3. ASSUME NEW h \in Headers, RegisterHeader(p, h) PROVE KeysNamed'
    BY <2>3 DEF RegisterHeader, Goes, files, memory, PchStates, KeysNamed
  <2>4. CASE ExitMisses(p)
    <3>1. /\ run' = [run EXCEPT ![p] = "locking"] /\ run[p] = "scheduled"
          /\ exit_key' = [exit_key EXCEPT ![p] = manifest]
          /\ UNCHANGED <<manifest, merged, builder>>
      BY <2>4 DEF ExitMisses, Goes, files
    <3>2. manifest \in Keys
      BY <3>1 DEF KeysNamed, PchStates, Keys
    <3> QED
      BY <3>1, <3>2 DEF PchStates, KeysNamed
  <2> QED
    BY <2>1, <2>2, <2>3, <2>4
<1>6. \A q \in Processes :
        /\ run[q] = "spawning" <=> run'[q] = "spawning"
        /\ run[q] = "spawning" => exit_key'[q] = exit_key[q]
  <2>1. \A q \in Processes : q # p => exit_key'[q] = exit_key[q]
    BY DEF StartProcess, Setup, SetupActivates, WriteManifest, RegisterHeader, ExitQuietly,
           ExitMisses, files, memory, PchStates
  <2> QED
    BY <1>2, <2>1 DEF PchStates
<1> QED
  BY <1>1, <1>4, <1>5, <1>6, LocksStay

\* The lock is taken, handed on to the builder, or released again.
LEMMA LockStep ==
    ASSUME PchIInv, NEW p \in Processes, TakeLock(p) \/ Spawn(p) PROVE PchIInv'
<1> USE DEF PchIInv
<1> DEFINE k == exit_key[p]
<1>1. /\ k \in Keys /\ UNCHANGED <<manifest, merged, exit_key, stranded>>
      /\ run[p] \in {"locking", "spawning"}
  BY DEF TakeLock, Spawn, KeysNamed, memory
<1>2. CASE TakeLock(p) /\ lock[k] = "absent"
  <2>1. /\ lock' = [lock EXCEPT ![k] = "young"] /\ run' = [run EXCEPT ![p] = "spawning"]
        /\ run[p] = "locking" /\ builder' = builder
    BY <1>2 DEF TakeLock, Goes
  <2>2. PchStates' /\ KeysNamed'
    BY <1>1, <2>1 DEF PchStates, KeysNamed
  <2>3. \A j : Builders(j)' = Builders(j)
    BY <2>1 DEF Builders
  <2>4. \A j : Owners(j)' = IF j = k THEN Owners(j) \cup {p} ELSE Owners(j)
    BY <1>1, <2>1 DEF Owners, PchStates
  <2>5. AtWork(k) = {} /\ k \notin stranded
    BY <1>1, <1>2 DEF LockHasOneOwner
  <2>6. /\ Owners(k)' \cap Builders(k)' = {} /\ AtWork(k)' = {p}
        /\ lock'[k] = "young"
    BY <1>1, <2>1, <2>3, <2>4, <2>5 DEF AtWork, PchStates
  <2>7. \A j \in Keys \ {k} : /\ AtWork(j)' = AtWork(j) /\ lock'[j] = lock[j]
                              /\ Owners(j)' = Owners(j)
    BY <2>1, <2>3, <2>4 DEF AtWork, PchStates
  <2> QED
    BY <1>1, <2>2, <2>3, <2>5, <2>6, <2>7 DEF LockHasOneOwner
<1>3. CASE TakeLock(p) /\ lock[k] # "absent"
  <2>1. /\ lock' = lock /\ run' = [run EXCEPT ![p] = "none"]
        /\ run[p] = "locking" /\ builder' = builder
    BY <1>3 DEF TakeLock, Goes
  <2>2. PchStates' /\ KeysNamed'
    BY <1>1, <2>1 DEF PchStates, KeysNamed
  <2> QED
    BY <1>1, <2>1, <2>2, LocksStay DEF PchStates
<1>4. ASSUME Spawn(p), builder' = [builder EXCEPT ![p] =
                [NoBuilder EXCEPT !.at = "spawned", !.key = k]], lock' = lock
      PROVE  PchIInv'
  <2>1. /\ run' = [run EXCEPT ![p] = "none"] /\ run[p] = "spawning"
        /\ builder[p] = NoBuilder
    BY <1>4 DEF Spawn, Goes
  <2>2. /\ builder' = [builder EXCEPT ![p] = builder'[p]]
        /\ builder'[p] = [at |-> "spawned", key |-> k, keys |-> {}, doomed |-> {}]
    BY <1>4 DEF NoBuilder, PchStates
  <2>3. builder' = [q \in Processes |-> builder'[q]]
    BY <1>4 DEF PchStates
  <2>4. PchStates'
    BY <1>1, <1>4, <2>1, <2>2, <2>3 DEF PchStates
  <2>5. KeysNamed'
    BY <1>1, <1>4, <2>1, <2>2 DEF PchStates, KeysNamed
  <2>6. \A j : Owners(j)' = IF j = k THEN Owners(j) \ {p} ELSE Owners(j)
    BY <1>1, <2>1 DEF Owners, PchStates
  <2>7. \A j \in Keys : Builders(j)' = IF j = k THEN Builders(j) \cup {p} ELSE Builders(j)
    <3>1. builder[p].key \notin Keys
      BY <2>1 DEF NoBuilder, Keys, NoKey
    <3>2. builder'[p].key = k
      BY <2>2
    <3>3. \A q \in Processes \ {p} : builder'[q] = builder[q]
      BY <1>4 DEF PchStates
    <3> QED
      BY <3>1, <3>2, <3>3 DEF Builders
  <2>8. p \in Owners(k) /\ AtWork(k) = {p} /\ k \notin stranded
    BY <1>1, <2>1 DEF LockHasOneOwner, AtWork, Owners
  <2>9. /\ \A j \in Keys : AtWork(j)' = AtWork(j)
        /\ Owners(k)' = {} /\ Builders(k)' = {p}
    BY <1>1, <2>6, <2>7, <2>8 DEF AtWork
  <2> QED
    BY <1>1, <1>4, <2>4, <2>5, <2>6, <2>7, <2>9 DEF LockHasOneOwner
<1>5. ASSUME Spawn(p), builder' = builder, lock' = [lock EXCEPT ![k] = "absent"]
      PROVE  PchIInv'
  <2>1. run' = [run EXCEPT ![p] = "none"] /\ run[p] = "spawning"
    BY <1>5 DEF Spawn, Goes
  <2>2. PchStates' /\ KeysNamed'
    BY <1>1, <1>5, <2>1 DEF PchStates, KeysNamed
  <2>3. \A j : Owners(j)' = IF j = k THEN Owners(j) \ {p} ELSE Owners(j)
    BY <1>1, <2>1 DEF Owners, PchStates
  <2>4. \A j : Builders(j)' = Builders(j)
    BY <1>5 DEF Builders
  <2>5. AtWork(k) = {p} /\ Builders(k) = {} /\ k \notin stranded
    BY <1>1, <2>1 DEF LockHasOneOwner, AtWork, Owners
  <2>6. AtWork(k)' = {} /\ lock'[k] = "absent"
    BY <1>1, <1>5, <2>3, <2>4, <2>5 DEF AtWork, PchStates
  <2>7. \A j \in Keys \ {k} : AtWork(j)' = AtWork(j) /\ lock'[j] = lock[j]
    BY <1>5, <2>3, <2>4 DEF AtWork, PchStates
  <2> QED
    BY <1>1, <2>2, <2>3, <2>4, <2>5, <2>6, <2>7 DEF LockHasOneOwner
<1> QED
  BY <1>2, <1>3, <1>4, <1>5 DEF TakeLock, Spawn

\* A builder goes on with its key, until it unlocks it.
LEMMA BuilderKeepsKey ==
    ASSUME PchIInv, NEW p \in Processes,
           \/ ReadManifest(p) \/ GeneratePch(p) \/ WriteSidecar(p)
           \/ PruneDecides(p) \/ PruneDeletes(p) \/ PruneSweeps(p)
    PROVE  /\ builder[p].key \in Keys
           /\ PchStates' /\ KeysNamed'
           /\ \A q \in Processes : builder'[q].key = builder[q].key
<1> USE DEF PchIInv
<1>1. UNCHANGED <<manifest, run, merged, exit_key>>
  BY DEF ReadManifest, GeneratePch, WriteSidecar, PruneDecides, PruneDeletes, PruneSweeps,
         files, memory
<1>2. lock' \in [Keys -> {"absent", "young", "old"}] /\ stranded' \subseteq Keys
  <2>1. CASE PruneSweeps(p)
    BY <2>1 DEF PruneSweeps, PchStates
  <2> QED
    BY <2>1 DEF ReadManifest, GeneratePch, WriteSidecar, PruneDecides, PruneDeletes,
         files, PchStates
<1>3. builder[p] # NoBuilder /\ builder[p].key \in Keys
  <2>1. builder[p].at # "none"
    BY DEF ReadManifest, GeneratePch, WriteSidecar, PruneDecides, PruneDeletes, PruneSweeps
  <2> QED
    BY <2>1 DEF NoBuilder, KeysNamed
<1>4. PICK at, keys, doomed :
        builder' = [builder EXCEPT ![p] = [at |-> at, key |-> builder[p].key,
                                           keys |-> keys, doomed |-> doomed]]
  <2>0. builder = [q \in Processes |-> builder[q]]
    BY DEF PchStates
  <2>1. PICK a, k, ks, d : builder[p] = [at |-> a, key |-> k, keys |-> ks, doomed |-> d]
    BY DEF PchStates
  <2> DEFINE Now(at, keys, doomed) ==
                builder' = [builder EXCEPT ![p] = [at |-> at, key |-> k,
                                                   keys |-> keys, doomed |-> doomed]]
  <2>2. ASSUME NEW place, Builds(p, place) PROVE Now(place, ks, d)
    <3>1. [builder[p] EXCEPT !.at = place]
            = [at |-> place, key |-> k, keys |-> ks, doomed |-> d]
      BY <2>1
    <3>2. builder' = [builder EXCEPT ![p] = [builder[p] EXCEPT !.at = place]]
      BY <2>0, <2>2 DEF Builds
    <3> QED
      BY <3>1, <3>2
  <2>3. ASSUME NEW place,
               builder' = [builder EXCEPT ![p].at = place, ![p].keys = manifest]
        PROVE  Now(place, manifest, d)
    <3>1. PICK b : b = [builder[p] EXCEPT !.at = place]
      OBVIOUS
    <3>2. b = [at |-> place, key |-> k, keys |-> ks, doomed |-> d]
      BY <2>1, <3>1
    <3>3. [b EXCEPT !.keys = manifest]
            = [at |-> place, key |-> k, keys |-> manifest, doomed |-> d]
      BY <3>2
    <3>4. builder' = [builder EXCEPT ![p] = [b EXCEPT !.keys = manifest]]
      BY <2>0, <2>3, <3>1
    <3> QED
      BY <3>3, <3>4
  <2>4. ASSUME NEW survives, NEW goes,
               builder' = [builder EXCEPT ![p].at = "delete", ![p].keys = survives,
                                          ![p].doomed = goes]
        PROVE  Now("delete", survives, goes)
    <3>1. PICK b : b = [builder[p] EXCEPT !.at = "delete"]
      OBVIOUS
    <3>2. b = [at |-> "delete", key |-> k, keys |-> ks, doomed |-> d]
      BY <2>1, <3>1
    <3>3. PICK c : c = [b EXCEPT !.keys = survives]
      OBVIOUS
    <3>4. c = [at |-> "delete", key |-> k, keys |-> survives, doomed |-> d]
      BY <3>2, <3>3
    <3>5. [c EXCEPT !.doomed = goes]
            = [at |-> "delete", key |-> k, keys |-> survives, doomed |-> goes]
      BY <3>4
    <3>6. builder' = [builder EXCEPT ![p] = [c EXCEPT !.doomed = goes]]
      BY <2>0, <2>4, <3>1, <3>3
    <3> QED
      BY <3>5, <3>6
  <2>5. ASSUME ReadManifest(p) \/ PruneDecides(p)
        PROVE  \E at, keys, doomed : Now(at, keys, doomed)
    <3> HIDE DEF Now
    <3> QED
      BY <2>3, <2>4, <2>5 DEF ReadManifest, PruneDecides
  <2>6. ASSUME ~ReadManifest(p) /\ ~PruneDecides(p)
        PROVE  \E at, keys, doomed : Now(at, keys, doomed)
    <3> HIDE DEF Now
    <3> QED
      BY <2>2, <2>6 DEF GeneratePch, WriteSidecar, PruneDeletes, PruneSweeps
  <2>7. PICK at, keys, doomed : Now(at, keys, doomed)
    BY <2>5, <2>6
  <2>8. builder[p].key = k
    BY <2>1
  <2> QED
    BY <2>7, <2>8
<1>5. /\ builder' = [q \in Processes |-> builder'[q]]
      /\ \A q \in Processes \ {p} : builder'[q] = builder[q]
      /\ builder'[p] = [at |-> at, key |-> builder[p].key, keys |-> keys,
                        doomed |-> doomed]
  BY <1>4 DEF PchStates
<1>6. PchStates'
  BY <1>1, <1>2, <1>5 DEF PchStates
<1>7. KeysNamed'
  BY <1>1, <1>3, <1>5 DEF KeysNamed
<1> QED
  BY <1>3, <1>5, <1>6, <1>7

LEMMA BuilderStepKeeps ==
    ASSUME PchIInv, NEW p \in Processes,
           \/ ReadManifest(p) \/ GeneratePch(p) \/ WriteSidecar(p)
           \/ PruneDecides(p) \/ PruneDeletes(p) \/ PruneSweeps(p)
    PROVE  PchIInv'
<1>1. /\ PchStates' /\ KeysNamed' /\ UNCHANGED <<run, exit_key>>
      /\ \A q \in Processes : builder'[q].key = builder[q].key
  BY BuilderKeepsKey DEF ReadManifest, GeneratePch, WriteSidecar, PruneDecides,
     PruneDeletes, PruneSweeps, memory
<1>2. CASE PruneSweeps(p)
  <2>1. /\ lock' = [k \in Keys |-> IF k \notin builder[p].keys /\ lock[k] = "old"
                                   THEN "absent" ELSE lock[k]]
        /\ stranded' = {k \in stranded : lock'[k] # "absent"}
    BY <1>2 DEF PruneSweeps
  <2>2. \A k : Owners(k)' = Owners(k) /\ AtWork(k)' = AtWork(k) /\ Builders(k)' = Builders(k)
    BY <1>1 DEF Owners, Builders, AtWork
  <2>3. LockHasOneOwner'
    BY <2>1, <2>2 DEF PchIInv, LockHasOneOwner
  <2> QED
    BY <1>1, <2>3 DEF PchIInv
<1>3. CASE ~PruneSweeps(p)
  <2>1. UNCHANGED <<lock, stranded>>
    BY <1>3 DEF ReadManifest, GeneratePch, WriteSidecar, PruneDecides, PruneDeletes, files
  <2> QED
    BY <1>1, <2>1, LocksStay DEF PchIInv
<1> QED
  BY <1>2, <1>3

\* A builder that ends or is killed: nobody is at work under its key any more.
LEMMA BuilderGoes ==
    ASSUME PchIInv, NEW p \in Processes, NEW b \in Keys, builder[p].key = b,
           builder' = [builder EXCEPT ![p] = NoBuilder], UNCHANGED <<run, exit_key>>
    PROVE  /\ AtWork(b) = {p} /\ AtWork(b)' = {}
           /\ \A k \in Keys \ {b} :
                AtWork(k)' = AtWork(k) /\ Owners(k)' = Owners(k)
                    /\ Builders(k)' = Builders(k)
<1> USE DEF PchIInv
<1>1. p \in Builders(b) /\ AtWork(b) = {p} /\ Owners(b) = {}
  BY DEF LockHasOneOwner, AtWork, Builders
<1>2. \A k : Owners(k)' = Owners(k)
  BY DEF Owners
<1>3. builder'[p].key \notin Keys /\ \A q \in Processes \ {p} : builder'[q] = builder[q]
  BY DEF PchStates, NoBuilder, Keys, NoKey
<1>4. \A k \in Keys : Builders(k)' = Builders(k) \ {p}
  BY <1>3 DEF Builders
<1>5. \A k \in Keys \ {b} : p \notin Builders(k)
  BY DEF Builders
<1>6. \A k \in Keys \ {b} : Builders(k)' = Builders(k)
  BY <1>4, <1>5
<1>7. Builders(b)' = {} /\ Owners(b)' = {}
  BY <1>1, <1>2, <1>4 DEF AtWork
<1> QED
  BY <1>1, <1>2, <1>6, <1>7 DEF AtWork

LEMMA NoBuilderFits ==
    ASSUME PchIInv, NEW p \in Processes, builder' = [builder EXCEPT ![p] = NoBuilder]
    PROVE  /\ builder' = [q \in Processes |-> builder'[q]]
           /\ builder'[p] = NoBuilder
           /\ \A q \in Processes : builder'[q] =
                [at |-> builder'[q].at, key |-> builder'[q].key,
                 keys |-> builder'[q].keys, doomed |-> builder'[q].doomed]
<1>1. /\ builder' = [q \in Processes |-> builder'[q]]
      /\ \A q \in Processes \ {p} : builder'[q] = builder[q]
      /\ builder'[p] = NoBuilder
  BY DEF PchIInv, PchStates
<1> QED
  BY <1>1 DEF PchIInv, PchStates, NoBuilder

LEMMA EndStep ==
    ASSUME PchIInv, NEW p \in Processes, Unlock(p) \/ KillBuilder(p) PROVE PchIInv'
<1> USE DEF PchIInv
<1>0. PICK b : b = builder[p].key
  OBVIOUS
<1>1. /\ builder' = [builder EXCEPT ![p] = NoBuilder] /\ builder[p] # NoBuilder
      /\ UNCHANGED <<manifest, run, merged, exit_key>>
  BY DEF Unlock, KillBuilder, files, memory, NoBuilder
<1>2. b \in Keys
  BY <1>0, <1>1 DEF KeysNamed
<1>3. /\ AtWork(b) = {p} /\ AtWork(b)' = {}
      /\ \A k \in Keys \ {b} : AtWork(k)' = AtWork(k) /\ Owners(k)' = Owners(k)
                                /\ Builders(k)' = Builders(k)
  BY <1>0, <1>1, <1>2, BuilderGoes
<1>4. b \notin stranded /\ lock[b] # "absent"
  BY <1>2, <1>3 DEF LockHasOneOwner
<1>5. /\ lock' \in [Keys -> {"absent", "young", "old"}] /\ stranded' \subseteq Keys
      /\ lock'[b] # "absent" <=> b \in stranded'
      /\ \A k \in Keys \ {b} :
            lock'[k] = lock[k] /\ (k \in stranded' <=> k \in stranded)
  <2>1. CASE Unlock(p)
    BY <2>1, <1>0, <1>2, <1>4 DEF Unlock, PchStates
  <2>2. CASE KillBuilder(p)
    BY <2>2, <1>0, <1>2, <1>4 DEF KillBuilder, files, PchStates
  <2> QED
    BY <2>1, <2>2
<1>6. PchStates' /\ KeysNamed'
  <2>1. KeysNamed'
    BY <1>1, NoBuilderFits DEF KeysNamed, PchStates
  <2> QED
    BY <1>1, <1>5, <2>1, NoBuilderFits DEF PchStates
<1>7. Owners(b)' \cap Builders(b)' = {}
  BY <1>3 DEF AtWork
<1>8. /\ lock'[b] # "absent" <=> AtWork(b)' # {} \/ b \in stranded'
      /\ AtWork(b)' = {}
  BY <1>3, <1>5
<1>9. \A k \in Keys \ {b} :
        /\ Owners(k)' \cap Builders(k)' = {}
        /\ \A q, r \in AtWork(k)' : q = r
        /\ lock'[k] # "absent" <=> AtWork(k)' # {} \/ k \in stranded'
        /\ k \in stranded' \/ lock'[k] = "old" => AtWork(k)' = {}
  BY <1>3, <1>5 DEF LockHasOneOwner
<1>10. LockHasOneOwner'
  BY <1>7, <1>8, <1>9 DEF LockHasOneOwner
<1> QED
  BY <1>6, <1>10

LEMMA KillProcessKeeps ==
    ASSUME PchIInv, NEW p \in Processes, KillProcess(p) PROVE PchIInv'
<1> USE DEF PchIInv
<1>0. PICK k : k = exit_key[p]
  OBVIOUS
<1>1. /\ run' = [run EXCEPT ![p] = "none"]
      /\ UNCHANGED <<manifest, lock, merged, exit_key, builder>>
      /\ stranded' = stranded \cup (IF run[p] = "spawning" THEN {k} ELSE {})
  BY <1>0 DEF KillProcess, Goes, files, memory
<1>2. run[p] = "spawning" => k \in Keys
  BY <1>0 DEF KeysNamed
<1>3. PchStates' /\ KeysNamed'
  BY <1>1, <1>2 DEF PchStates, KeysNamed
<1>4. CASE run[p] # "spawning"
  <2>1. stranded' = stranded
    BY <1>1, <1>4
  <2> QED
    BY <1>1, <1>3, <1>4, <2>1, LocksStay DEF PchStates
<1>5. CASE run[p] = "spawning"
  <2>1. \A j : Builders(j)' = Builders(j)
    BY <1>1 DEF Builders
  <2>2. \A j : Owners(j)' = IF j = k THEN Owners(j) \ {p} ELSE Owners(j)
    BY <1>0, <1>1, <1>5 DEF Owners, PchStates
  <2>3. AtWork(k) = {p} /\ Builders(k) = {} /\ lock[k] # "absent"
    BY <1>0, <1>2, <1>5 DEF LockHasOneOwner, AtWork, Owners
  <2>4. AtWork(k)' = {}
    BY <2>1, <2>2, <2>3 DEF AtWork
  <2>5. \A j \in Keys \ {k} : AtWork(j)' = AtWork(j)
    BY <2>1, <2>2 DEF AtWork
  <2> QED
    BY <1>1, <1>2, <1>3, <1>5, <2>1, <2>2, <2>3, <2>4, <2>5 DEF LockHasOneOwner
<1> QED
  BY <1>4, <1>5

LEMMA LockAgesKeeps ==
    ASSUME PchIInv, NEW k \in Keys, LockAges(k) PROVE PchIInv'
<1> USE DEF PchIInv
<1>1. /\ UNCHANGED <<manifest, run, merged, exit_key, builder, stranded>>
      /\ lock' = [lock EXCEPT ![k] = "old"] /\ lock[k] = "young" /\ AtWork(k) = {}
  BY DEF LockAges, memory, AtWork
<1>2. \A j : Owners(j)' = Owners(j) /\ Builders(j)' = Builders(j) /\ AtWork(j)' = AtWork(j)
  BY <1>1 DEF Owners, Builders, AtWork
<1>3. PchStates' /\ KeysNamed'
  BY <1>1 DEF PchStates, KeysNamed
<1>4. LockHasOneOwner'
  BY <1>1, <1>2 DEF LockHasOneOwner, PchStates
<1> QED
  BY <1>3, <1>4

LEMMA StepPchIInv == PchIInv /\ [AutoPchNext]_pchVars => PchIInv'
<1> SUFFICES ASSUME PchIInv, [AutoPchNext]_pchVars PROVE PchIInv'
  OBVIOUS
<1>1. ASSUME NEW p \in Processes, ProcessStep(p) PROVE PchIInv'
  BY <1>1, RunStep, LockStep DEF ProcessStep
<1>2. ASSUME NEW p \in Processes, BuilderStep(p) PROVE PchIInv'
  BY <1>2, BuilderStepKeeps, EndStep DEF BuilderStep
<1>3. CASE UNCHANGED pchVars
  <2>1. UNCHANGED <<manifest, run, merged, exit_key, builder, stranded, lock>>
    BY <1>3 DEF pchVars, files, memory
  <2>2. PchStates' /\ KeysNamed'
    BY <2>1 DEF PchIInv, PchStates, KeysNamed
  <2> QED
    BY <2>1, <2>2, LocksStay DEF PchIInv
<1> QED
  BY <1>1, <1>2, <1>3, EndStep, KillProcessKeeps, LockAgesKeeps DEF AutoPchNext

LEMMA InductivePchIInv == AutoPchSpec => []PchIInv
BY InitPchIInv, StepPchIInv, PTL DEF AutoPchSpec

\* A lock file that is there is somebody's: a process about to spawn a
\* builder, the builder, or one that was killed; and two never build one PCH.
THEOREM LockedIsBuildingHolds == AutoPchSpec => []LockedIsBuilding
<1>1. PchIInv => LockedIsBuilding
  <2> SUFFICES ASSUME PchIInv, NEW k \in Keys
               PROVE  /\ Cardinality(Owners(k)) + Cardinality(Builders(k)) <= 1
                      /\ lock[k] # "absent" <=>
                            Owners(k) \cup Builders(k) # {} \/ k \in stranded
    BY DEF LockedIsBuilding
  <2>1. /\ Owners(k) \cap Builders(k) = {}
        /\ \A p, q \in Owners(k) \cup Builders(k) : p = q
    BY DEF PchIInv, LockHasOneOwner, AtWork
  <2>2. \/ Owners(k) = {} /\ Builders(k) = {}
        \/ Owners(k) = {} /\ \E p : Builders(k) = {p}
        \/ Builders(k) = {} /\ \E p : Owners(k) = {p}
    BY <2>1
  <2>3. Cardinality({}) = 0 /\ \A p : Cardinality({p}) = 1
    BY FS_EmptySet, FS_Singleton, Zenon
  <2>4. \/ Cardinality(Owners(k)) = 0 /\ Cardinality(Builders(k)) = 0
        \/ Cardinality(Owners(k)) = 0 /\ Cardinality(Builders(k)) = 1
        \/ Cardinality(Owners(k)) = 1 /\ Cardinality(Builders(k)) = 0
    BY <2>2, <2>3, Zenon
  <2>5. Cardinality(Owners(k)) + Cardinality(Builders(k)) <= 1
    BY <2>4
  <2> QED
    BY <2>5 DEF PchIInv, LockHasOneOwner, AtWork
<1> QED
  BY <1>1, InductivePchIInv, PTL
=============================================================================
