----------------------------- MODULE KernelOnce -----------------------------
(***************************************************************************)
(* cppyy_kit.cpp: the first calls of functions decorated with @cpp whose   *)
(* source is the same.  _ensure() holds the wrapper's lock and then the    *)
(* process's compile lock, and remembers in _REGISTERED what Cling has.    *)
(***************************************************************************)
EXTENDS Naturals

CONSTANTS
    KernelThreads,    \* threads of the process
    Wrappers,         \* _CppFunc objects with this source and these options
    UncachedWrappers, \* those decorated with cached=False
    NoThreadYet       \* nobody has the lock

ASSUME WrapperAssumption == Wrappers # {} /\ UncachedWrappers \subseteq Wrappers
ASSUME NobodyAssumption == NoThreadYet \notin KernelThreads

VARIABLES
    ensuring,       \* ensuring[t]: where thread t stands in _ensure
    wrapper,        \* wrapper[t]: the wrapper it called
    wrapper_lock,   \* wrapper_lock[w]: holder of w's _lock
    compile_lock,   \* holder of _COMPILE_LOCK
    impls,          \* wrappers whose _impls has the kernel
    registered_kernel,   \* the kernel is in _REGISTERED
    definitions,    \* times Cling was given the kernel
    artifact,       \* the library was built on disk
    caching,        \* enable_caching / disable_caching
    wants, excused  \* history: cached wrappers that registered with the cache
                    \* on, and those told that the build failed

kernelVars == <<ensuring, wrapper, wrapper_lock, compile_lock, impls,
                registered_kernel, definitions, artifact, caching, wants, excused>>

KernelInit ==
    /\ ensuring = [t \in KernelThreads |-> "out"]
    /\ wrapper = [t \in KernelThreads |-> CHOOSE w \in Wrappers : TRUE]
    /\ wrapper_lock = [w \in Wrappers |-> NoThreadYet]
    /\ compile_lock = NoThreadYet
    /\ impls = {} /\ registered_kernel = FALSE
    /\ definitions = 0
    /\ artifact \in BOOLEAN
    /\ caching = TRUE
    /\ wants = {} /\ excused = {}

Stages == {"out", "locking", "compiling", "looking", "defining", "recording",
           "building", "resolving"}

KernelTypeOK ==
    /\ ensuring \in [KernelThreads -> Stages]
    /\ wrapper \in [KernelThreads -> Wrappers]
    /\ wrapper_lock \in [Wrappers -> KernelThreads \cup {NoThreadYet}]
    /\ compile_lock \in KernelThreads \cup {NoThreadYet}
    /\ impls \subseteq Wrappers
    /\ definitions \in Nat
    /\ registered_kernel \in BOOLEAN /\ artifact \in BOOLEAN /\ caching \in BOOLEAN
    /\ wants \subseteq Wrappers /\ excused \subseteq Wrappers

EnsureGoes(t, at) == ensuring' = [ensuring EXCEPT ![t] = at]

\* A call whose kernel is resolved does not take a lock.
CallKernel(t, w) ==
    /\ ensuring[t] = "out" /\ w \notin impls
    /\ wrapper' = [wrapper EXCEPT ![t] = w]
    /\ EnsureGoes(t, "locking")
    /\ UNCHANGED <<wrapper_lock, compile_lock, impls, registered_kernel,
                   definitions, artifact, caching, wants, excused>>

\* Resolved while this thread waited, or still to be compiled.
LocksWrapper(t) ==
    /\ ensuring[t] = "locking"
    /\ wrapper_lock[wrapper[t]] = NoThreadYet
    /\ IF wrapper[t] \in impls
       THEN EnsureGoes(t, "out") /\ UNCHANGED wrapper_lock
       ELSE /\ EnsureGoes(t, "compiling")
            /\ wrapper_lock' = [wrapper_lock EXCEPT ![wrapper[t]] = t]
    /\ UNCHANGED <<wrapper, compile_lock, impls, registered_kernel, definitions,
                   artifact, caching, wants, excused>>

\* Faulty variant: only the wrapper's own lock is taken.
LocksWrapperOnly(t) ==
    /\ ensuring[t] = "compiling"
    /\ EnsureGoes(t, "looking")
    /\ UNCHANGED <<wrapper, wrapper_lock, compile_lock, impls, registered_kernel,
                   definitions, artifact, caching, wants, excused>>

LocksCompile(t) ==
    /\ ensuring[t] = "compiling" /\ compile_lock = NoThreadYet
    /\ compile_lock' = t
    /\ EnsureGoes(t, "looking")
    /\ UNCHANGED <<wrapper, wrapper_lock, impls, registered_kernel, definitions,
                   artifact, caching, wants, excused>>

\* _REGISTERED.get
LooksUp(t) ==
    /\ ensuring[t] = "looking"
    /\ EnsureGoes(t, IF registered_kernel THEN "building" ELSE "defining")
    /\ UNCHANGED <<wrapper, wrapper_lock, compile_lock, impls, registered_kernel,
                   definitions, artifact, caching, wants, excused>>

UsesCache(w) == w \notin UncachedWrappers /\ caching

\* The library is there, or is built, or a compile error is said and forgotten.
WantsArtifact(w) ==
    IF UsesCache(w)
    THEN /\ wants' = wants \cup {w}
         /\ \/ artifact' = TRUE /\ UNCHANGED excused
            \/ ~artifact /\ excused' = excused \cup {w} /\ UNCHANGED artifact
    ELSE UNCHANGED <<artifact, wants, excused>>

\* cppdef_cached: Cling has the source or its declarations.
Defines(t) ==
    /\ ensuring[t] = "defining"
    /\ definitions' = definitions + 1
    /\ WantsArtifact(wrapper[t])
    /\ EnsureGoes(t, "recording")
    /\ UNCHANGED <<wrapper, wrapper_lock, compile_lock, impls, registered_kernel,
                   caching>>

Records(t) ==
    /\ ensuring[t] = "recording"
    /\ registered_kernel' = TRUE
    /\ EnsureGoes(t, "resolving")
    /\ UNCHANGED <<wrapper, wrapper_lock, compile_lock, impls, definitions,
                   artifact, caching, wants, excused>>

\* Registered, perhaps by a wrapper that had the cache off: only the library
\* is still to be built.
BuildsOnly(t) ==
    /\ ensuring[t] = "building"
    /\ WantsArtifact(wrapper[t])
    /\ EnsureGoes(t, "resolving")
    /\ UNCHANGED <<wrapper, wrapper_lock, compile_lock, impls, registered_kernel,
                   definitions, caching>>

\* The source is refused, or prebuild meets a file system error: _ensure
\* raises, both locks are released.
EnsureRaises(t) ==
    /\ \/ ensuring[t] = "defining"
       \/ ensuring[t] = "building" /\ UsesCache(wrapper[t]) /\ ~artifact
    /\ compile_lock' = NoThreadYet
    /\ wrapper_lock' = [wrapper_lock EXCEPT ![wrapper[t]] = NoThreadYet]
    /\ EnsureGoes(t, "out")
    /\ UNCHANGED <<wrapper, impls, registered_kernel, definitions, artifact,
                   caching, wants, excused>>

Resolves(t) ==
    /\ ensuring[t] = "resolving"
    /\ impls' = impls \cup {wrapper[t]}
    /\ compile_lock' = NoThreadYet
    /\ wrapper_lock' = [wrapper_lock EXCEPT ![wrapper[t]] = NoThreadYet]
    /\ EnsureGoes(t, "out")
    /\ UNCHANGED <<wrapper, registered_kernel, definitions, artifact, caching,
                   wants, excused>>

ToggleCaching ==
    /\ caching' = ~caching
    /\ UNCHANGED <<ensuring, wrapper, wrapper_lock, compile_lock, impls,
                   registered_kernel, definitions, artifact, wants, excused>>

KernelNext ==
    \/ \E t \in KernelThreads :
        \/ \E w \in Wrappers : CallKernel(t, w)
        \/ LocksWrapper(t) \/ LocksCompile(t) \/ LooksUp(t) \/ Defines(t)
        \/ Records(t) \/ BuildsOnly(t) \/ EnsureRaises(t) \/ Resolves(t)
    \/ ToggleCaching

KernelSpec == KernelInit /\ [][KernelNext]_kernelVars

-----------------------------------------------------------------------------
\* However first calls of equal kernels overlap, Cling is given the source
\* once, and a wrapper that asked for the cache has the library on disk, or
\* was told it could not be built, even when one that did not ask for it was
\* first: "Build the disk artifact without re-registering its definition."
KernelRegisteredOnce ==
    /\ definitions <= 1
    /\ \A w \in impls \cap wants : artifact \/ w \in excused
=============================================================================
