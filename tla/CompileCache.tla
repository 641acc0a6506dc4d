---------------------------- MODULE CompileCache ----------------------------
(***************************************************************************)
(* One entry of the compile cache (cppyy_kit.cache): the library, header   *)
(* and metadata of one key, shared by processes that run cppdef_cached,    *)
(* prebuild and clear_cache at the same time and may crash between any two *)
(* steps.                                                                  *)
(*                                                                         *)
(* cppdef_cached holds the process's _SESSION_LOCK; whoever builds holds   *)
(* the entry's file lock; a warm read and clear_cache take no file lock.   *)
(* The definitions and declarations are valid C++: only the compiler, the  *)
(* loader and the file system fail.                                        *)
(***************************************************************************)
EXTENDS Naturals, FiniteSets

CONSTANTS
    Procs,       \* processes sharing the cache directory
    Callers,     \* their threads
    ProcessOf,   \* ProcessOf[c]: the process of thread c
    Uses,        \* Uses[c]: the operations thread c calls
    Free,        \* a lock nobody holds
    MaxCalls,    \* bound: calls of one thread
    MaxCrashes   \* bound: crashes of processes

ASSUME CallerAssumption ==
    /\ ProcessOf \in [Callers -> Procs]
    /\ Uses \in [Callers -> SUBSET {"plain", "compiled_only", "prebuild", "clear"}]
    /\ Free \notin Callers
    /\ MaxCalls \in Nat /\ MaxCrashes \in Nat

VARIABLES
    file,      \* file[n]: the artifact n in the cache directory
    staged,    \* threads whose staged library is in the directory
    pc,        \* pc[c]: where the call of c stands
    kind,      \* kind[c]: the operation c runs, or ran last
    probed,    \* probed[c]: artifacts _complete has found so far
    listed,    \* listed[c]: directory entries clear_cache has yet to unlink
    outcome,   \* outcome[c]: how the last call of c ended
    session,   \* session[p]: who holds _SESSION_LOCK
    filelock,  \* who holds the entry's file lock
    loaded,    \* processes with the library in _LOADED
    applied,   \* applied[p]: the entry's result in _APPLIED
    cppdefs,   \* cppdefs[p]: times Cling was given the entry's names
    calls,     \* calls[c]: calls c may still make
    crashes    \* crashes still to come

directory == <<file, staged>>
process == <<session, loaded, applied, cppdefs>>
bounds == <<calls, crashes>>
vars == <<directory, pc, kind, probed, listed, outcome, process, filelock, bounds>>

Artifacts == {"so", "header", "meta"}
Kinds == {"plain", "compiled_only", "prebuild", "clear"}
Results == {"cached", "miss-built", "miss-built-loaded", "build-failed"}
Places == {"idle", "enter", "probe", "load", "wait", "discard", "define",
           "unlink", "stage", "compile", "header", "meta", "publish",
           "load built", "clear"}

TypeOK ==
    /\ file \in [Artifacts -> {"absent", "good", "bad"}]
    /\ file["header"] # "bad" /\ file["meta"] # "bad"
    /\ staged \subseteq Callers
    /\ pc \in [Callers -> Places]
    /\ kind \in [Callers -> Kinds]
    /\ probed \in [Callers -> SUBSET Artifacts]
    /\ listed \in [Callers -> SUBSET (Artifacts \union Callers)]
    /\ outcome \in [Callers -> Results \union {"none", "raised", "done"}]
    /\ session \in [Procs -> Callers \union {Free}]
    /\ filelock \in Callers \union {Free}
    /\ loaded \subseteq Procs
    /\ applied \in [Procs -> Results \union {"none"}]
    /\ cppdefs \in [Procs -> Nat]
    /\ calls \in [Callers -> 0 .. MaxCalls]
    /\ crashes \in 0 .. MaxCrashes

\* Any entry an earlier version, package or crash left: a truncated or stale
\* library, or a header and metadata without one.
Init ==
    /\ file \in [Artifacts -> {"absent", "good", "bad"}]
    /\ file["header"] # "bad" /\ file["meta"] # "bad"
    /\ staged = {}
    /\ pc = [c \in Callers |-> "idle"]
    /\ kind = [c \in Callers |-> "plain"]
    /\ probed = [c \in Callers |-> {}]
    /\ listed = [c \in Callers |-> {}]
    /\ outcome = [c \in Callers |-> "none"]
    /\ session = [p \in Procs |-> Free]
    /\ filelock = Free
    /\ loaded = {}
    /\ applied = [p \in Procs |-> "none"]
    /\ cppdefs = [p \in Procs |-> 0]
    /\ calls = [c \in Callers |-> MaxCalls]
    /\ crashes = MaxCrashes

-----------------------------------------------------------------------------
At(c, place) == pc[c] = place
Goto(c, place) == pc' = [pc EXCEPT ![c] = place]
Complete == \A n \in Artifacts : file[n] # "absent"

\* Faulty variant: an exception leaves the file lock locked.
ReturnLocked(c, result) ==
    /\ Goto(c, "idle")
    /\ outcome' = [outcome EXCEPT ![c] = result]
    /\ filelock' = IF filelock = c /\ result # "raised" THEN Free ELSE filelock
    /\ session' = [p \in Procs |-> IF session[p] = c THEN Free ELSE session[p]]

\* The call ends: the with blocks release what it holds.
Return(c, result) ==
    /\ Goto(c, "idle")
    /\ outcome' = [outcome EXCEPT ![c] = result]
    /\ filelock' = IF filelock = c THEN Free ELSE filelock
    /\ session' = [p \in Procs |-> IF session[p] = c THEN Free ELSE session[p]]

\* _apply_loaded and the miss path record the result for the process.
Apply(c, result) ==
    /\ applied' = [applied EXCEPT ![ProcessOf[c]] = result]
    /\ Return(c, result)

\* Cling is given the definitions, or the declarations.
Cppdef(c) == cppdefs' = [cppdefs EXCEPT ![ProcessOf[c]] = @ + 1]

-----------------------------------------------------------------------------
(* Entering and leaving.                                                   *)

Call(c, k) ==
    /\ At(c, "idle") /\ calls[c] > 0
    /\ calls' = [calls EXCEPT ![c] = @ - 1]
    /\ kind' = [kind EXCEPT ![c] = k]
    /\ outcome' = [outcome EXCEPT ![c] = "none"]
    /\ IF k = "clear"
         THEN /\ Goto(c, "clear")
              /\ listed' = [listed EXCEPT
                   ![c] = {n \in Artifacts : file[n] # "absent"} \union staged]
         ELSE /\ Goto(c, IF k = "prebuild" THEN "probe" ELSE "enter")
              /\ UNCHANGED listed
    /\ UNCHANGED <<directory, probed, process, filelock, crashes>>

\* with _SESSION_LOCK: the first call's result serves every later one.
Enter(c) ==
    /\ At(c, "enter")
    /\ session[ProcessOf[c]] = Free
    /\ IF applied[ProcessOf[c]] # "none"
         THEN Return(c, applied[ProcessOf[c]])
         ELSE /\ session' = [session EXCEPT ![ProcessOf[c]] = c]
              /\ Goto(c, "probe")
              /\ UNCHANGED <<outcome, filelock>>
    /\ UNCHANGED <<directory, kind, probed, listed, loaded, applied, cppdefs, bounds>>

\* _complete looks for the library, the header and the metadata in turn.
NextProbe(c) ==
    CHOOSE n \in Artifacts : /\ n \notin probed[c]
                             /\ n = "meta" => "header" \in probed[c]
                             /\ n = "header" => "so" \in probed[c]

ProbeFinds(c) ==
    /\ At(c, "probe") /\ probed[c] # Artifacts
    /\ file[NextProbe(c)] # "absent"
    /\ probed' = [probed EXCEPT ![c] = @ \union {NextProbe(c)}]
    /\ UNCHANGED <<directory, pc, kind, listed, outcome, process, filelock, bounds>>

ProbeMisses(c) ==
    /\ At(c, "probe") /\ probed[c] # Artifacts
    /\ file[NextProbe(c)] = "absent"
    /\ probed' = [probed EXCEPT ![c] = {}]
    /\ Goto(c, IF filelock # c THEN "wait"
               ELSE IF kind[c] = "plain" THEN "define" ELSE "unlink")
    /\ UNCHANGED <<directory, kind, listed, outcome, process, filelock, bounds>>

ProbeHits(c) ==
    /\ At(c, "probe") /\ probed[c] = Artifacts
    /\ probed' = [probed EXCEPT ![c] = {}]
    /\ IF kind[c] = "prebuild"
         THEN Return(c, "done")
         ELSE Goto(c, "load") /\ UNCHANGED <<outcome, session, filelock>>
    /\ UNCHANGED <<directory, kind, listed, loaded, applied, cppdefs, bounds>>

-----------------------------------------------------------------------------
(* Loading, and the file lock.                                             *)

\* _load: what is already loaded stays loaded.
Loads(c) == ProcessOf[c] \in loaded \/ file["so"] = "good"

LoadSucceeds(c, place, result) ==
    /\ At(c, place)
    /\ Loads(c)
    /\ loaded' = loaded \union {ProcessOf[c]}
    /\ Cppdef(c)
    /\ Apply(c, result)
    /\ UNCHANGED <<directory, kind, probed, listed, bounds>>

\* The lock-free attempt is recovered under the lock; under the lock the
\* entry is discarded.
LoadFails(c) ==
    /\ At(c, "load")
    /\ ~Loads(c)
    /\ Goto(c, IF filelock = c THEN "discard" ELSE "wait")
    /\ UNCHANGED <<directory, kind, probed, listed, outcome, process, filelock, bounds>>

\* Faulty variant: the entry is not looked at again under the lock.
LockFileTrusting(c) ==
    /\ At(c, "wait")
    /\ filelock = Free
    /\ filelock' = c
    /\ Goto(c, IF kind[c] = "plain" THEN "define" ELSE "unlink")
    /\ UNCHANGED <<directory, kind, probed, listed, outcome, process, bounds>>

LockFile(c) ==
    /\ At(c, "wait")
    /\ filelock = Free
    /\ filelock' = c
    /\ Goto(c, "probe")
    /\ UNCHANGED <<directory, kind, probed, listed, outcome, process, bounds>>

\* os.unlink(so_path) raises if clear_cache was here first.
Discard(c) ==
    /\ At(c, "discard")
    /\ IF file["so"] = "absent"
         THEN Return(c, "raised") /\ UNCHANGED <<file, loaded>>
         ELSE /\ file' = [file EXCEPT !["so"] = "absent"]
              /\ loaded' = loaded \ {ProcessOf[c]}
              /\ Goto(c, IF kind[c] = "plain" THEN "define" ELSE "unlink")
              /\ UNCHANGED <<outcome, session, filelock>>
    /\ UNCHANGED <<staged, kind, probed, listed, applied, cppdefs, bounds>>

\* The miss path defines the code in Cling before it builds.
Define(c) ==
    /\ At(c, "define")
    /\ Cppdef(c)
    /\ Goto(c, "unlink")
    /\ UNCHANGED <<directory, kind, probed, listed, outcome, session, loaded,
                   applied, filelock, bounds>>

-----------------------------------------------------------------------------
(* _build, under the file lock.                                            *)

UnlinkOld(c) ==
    /\ At(c, "unlink")
    /\ file' = [file EXCEPT !["so"] = "absent"]
    /\ Goto(c, "stage")
    /\ UNCHANGED <<staged, kind, probed, listed, outcome, process, filelock, bounds>>

\* mkstemp: a new name, which no listing of clear_cache contains.
Stage(c) ==
    /\ At(c, "stage")
    /\ staged' = staged \union {c}
    /\ listed' = [d \in Callers |-> listed[d] \ {c}]
    /\ Goto(c, "compile")
    /\ UNCHANGED <<file, kind, probed, outcome, process, filelock, bounds>>

Compile(c) ==
    /\ At(c, "compile")
    /\ Goto(c, "header")
    /\ UNCHANGED <<directory, kind, probed, listed, outcome, process, filelock, bounds>>

Write(c, n, next) ==
    /\ At(c, n)
    /\ file' = [file EXCEPT ![n] = "good"]
    /\ Goto(c, next)
    /\ UNCHANGED <<staged, kind, probed, listed, outcome, process, filelock, bounds>>

\* os.replace: the staged library appears under its name.
Publish(c) ==
    /\ At(c, "publish") /\ c \in staged
    /\ file' = [file EXCEPT !["so"] = "good"]
    /\ staged' = staged \ {c}
    /\ CASE kind[c] = "plain" -> Apply(c, "miss-built")
         [] kind[c] = "prebuild" -> Return(c, "done") /\ UNCHANGED applied
         [] OTHER -> /\ Goto(c, "load built")
                     /\ UNCHANGED <<outcome, session, filelock, applied>>
    /\ UNCHANGED <<kind, probed, listed, loaded, cppdefs, bounds>>

\* Some clear_cache may have taken a temporary file of this build away.
Clearing == \E d \in Callers : At(d, "clear")

\* Faulty variant: a failed build is not recorded in _APPLIED.
BuildFailsUnrecorded(c) ==
    /\ \/ At(c, "compile")
       \/ pc[c] \in {"header", "meta"} /\ Clearing
       \/ At(c, "publish") /\ c \notin staged
    /\ staged' = staged \ {c}
    /\ Return(c, IF kind[c] = "plain" THEN "build-failed" ELSE "raised")
    /\ UNCHANGED <<file, kind, probed, listed, loaded, applied, cppdefs, bounds>>

\* The compiler fails, or a file of the build has been cleared: only the
\* plain call falls back to what Cling already has.
BuildFails(c) ==
    /\ \/ At(c, "compile")
       \/ pc[c] \in {"header", "meta"} /\ Clearing
       \/ At(c, "publish") /\ c \notin staged
    /\ staged' = staged \ {c}
    /\ IF kind[c] = "plain"
         THEN Apply(c, "build-failed")
         ELSE Return(c, "raised") /\ UNCHANGED applied
    /\ UNCHANGED <<file, kind, probed, listed, loaded, cppdefs, bounds>>

\* compiled_only loads what it built, unless it has been cleared already.
LoadBuiltFails(c) ==
    /\ At(c, "load built")
    /\ ~Loads(c)
    /\ Return(c, "raised")
    /\ UNCHANGED <<directory, kind, probed, listed, loaded, applied, cppdefs, bounds>>

-----------------------------------------------------------------------------
(* clear_cache, and crashes.                                               *)

Unlink(c, n) ==
    /\ At(c, "clear") /\ n \in listed[c]
    /\ listed' = [listed EXCEPT ![c] = @ \ {n}]
    /\ file' = [m \in Artifacts |-> IF m = n THEN "absent" ELSE file[m]]
    /\ staged' = staged \ {n}
    /\ UNCHANGED <<pc, kind, probed, outcome, process, filelock, bounds>>

Cleared(c) ==
    /\ At(c, "clear") /\ listed[c] = {}
    /\ Return(c, "done")
    /\ UNCHANGED <<directory, kind, probed, listed, loaded, applied, cppdefs, bounds>>

\* The kernel releases the locks of a process that dies; a new one starts.  A
\* staged library it leaves behind is never read again.
Crash(p) ==
    /\ crashes > 0
    /\ LET dead == {c \in Callers : ProcessOf[c] = p}
       IN  /\ \E c \in dead : ~At(c, "idle")
           /\ pc' = [c \in Callers |-> IF c \in dead THEN "idle" ELSE pc[c]]
           /\ outcome' = [c \in Callers |-> IF c \in dead THEN "none" ELSE outcome[c]]
           /\ probed' = [c \in Callers |-> IF c \in dead THEN {} ELSE probed[c]]
           /\ listed' = [c \in Callers |-> (IF c \in dead THEN {} ELSE listed[c]) \ dead]
           /\ staged' = staged \ dead
           /\ filelock' = IF filelock \in dead THEN Free ELSE filelock
    /\ session' = [session EXCEPT ![p] = Free]
    /\ loaded' = loaded \ {p}
    /\ applied' = [applied EXCEPT ![p] = "none"]
    /\ cppdefs' = [cppdefs EXCEPT ![p] = 0]
    /\ crashes' = crashes - 1
    /\ UNCHANGED <<file, kind, calls>>

-----------------------------------------------------------------------------
Step(c) ==
    \/ Enter(c)
    \/ ProbeFinds(c) \/ ProbeMisses(c) \/ ProbeHits(c)
    \/ LoadSucceeds(c, "load", "cached") \/ LoadFails(c)
    \/ LockFile(c) \/ Discard(c) \/ Define(c)
    \/ UnlinkOld(c) \/ Stage(c) \/ Compile(c)
    \/ Write(c, "header", "meta") \/ Write(c, "meta", "publish")
    \/ Publish(c) \/ BuildFails(c)
    \/ LoadSucceeds(c, "load built", "miss-built-loaded") \/ LoadBuiltFails(c)
    \/ \E n \in listed[c] : Unlink(c, n)
    \/ Cleared(c)

Next ==
    \/ \E c \in Callers : (\E k \in Uses[c] : Call(c, k)) \/ Step(c)
    \/ \E p \in Procs : Crash(p)

Spec == Init /\ [][Next]_vars

\* A call that can go on does, and a contended lock is granted in the end.
FairSpec ==
    /\ Spec
    /\ \A c \in Callers :
         /\ WF_vars(Step(c))
         /\ SF_vars(Enter(c))
         /\ SF_vars(LockFile(c))

-----------------------------------------------------------------------------
(* Properties.                                                             *)

\* A process gives Cling the entry's names once, whichever threads ask and
\* however the first attempt ended (a second time is a redefinition error),
\* and a call that reports a cached library runs in a process that has loaded
\* it and has given Cling the declarations.
DefinedOnce ==
    /\ \A p \in Procs : cppdefs[p] <= 1
    /\ \A c \in Callers :
        outcome[c] \in {"cached", "miss-built-loaded"}
          => ProcessOf[c] \in loaded /\ cppdefs[ProcessOf[c]] = 1

\* An entry becomes complete with the library of the build that completes it:
\* a library an interrupted build or an old version left never becomes a hit
\* because a later build renews the header and the metadata beside it.  And
\* only clear_cache takes a usable entry away: a process that found it missing
\* or failed to load it looks again before it rebuilds, so two processes that
\* miss together do not build twice, nor pull a library from under a reader.
UsableEntryStays ==
    [][/\ ~Complete /\ Complete' => file'["so"] = "good"
       /\ Complete /\ file["so"] = "good" /\ file' # file
         => \E c \in Callers : At(c, "clear") /\ listed'[c] # listed[c]]_vars

\* Every call returns: no path, failing or not, keeps a lock that others need,
\* and the session lock is always taken before the file lock.
EveryCallReturns == \A c \in Callers : ~At(c, "idle") ~> At(c, "idle")

\* What the docstring of cppdef_cached says of compiled_only: the library is built and loaded even on the
\* first call, and build errors are raised instead of falling back to Cling.
CompiledOnlyLoads ==
    \A c \in Callers :
        kind[c] = "compiled_only" /\ At(c, "idle") /\ outcome[c] # "none"
          => outcome[c] = "raised" \/ ProcessOf[c] \in loaded
=============================================================================
