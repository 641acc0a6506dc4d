------------------------------ MODULE AutoPch ------------------------------
(***************************************************************************)
(* cppyy_kit.autopch, its startup hook _autopch_boot and its detached      *)
(* builder autopch_build: the precompiled header (PCH) of an environment,  *)
(* the manifest of the headers its kits asked for, and the processes that  *)
(* share both on disk.                                                     *)
(*                                                                         *)
(* A PCH is named by its key, the digest of a set of headers: the set      *)
(* itself stands for it.  A process activates a PCH, sets up, registers    *)
(* headers and at exit may spawn a builder; builders and processes run at  *)
(* the same time and only files connect them.  There is one environment;   *)
(* include paths, force symbols and the opt-outs are left out.             *)
(***************************************************************************)
EXTENDS Naturals, Sequences, FiniteSets, SequencesExt

CONSTANTS
    Headers,       \* header names kits register
    Processes,     \* slots for a process and for the builder it spawned
    Keep,          \* prune's keep
    MaxRuns,       \* bound: processes started
    MaxPchFaults   \* bound: builders that fail, and kills

ASSUME PchAssumption ==
    Keep \in Nat \ {0} /\ MaxRuns \in Nat /\ MaxPchFaults \in Nat

Keys == (SUBSET Headers) \ {{}}
NoKey == {}
Absent == {}

VARIABLES
    manifest,       \* the manifest's headers
    pch,            \* pch[k]: the headers baked into <k>.pch, or Absent
    sidecar,        \* keys with a <k>.pch.json
    newest,         \* the keys with a PCH, the newest file first
    lock,           \* lock[k]: <k>.pch.lock is "absent", "young" or "old"
    run,            \* where a process is
    active_path,    \* the key of the PCH a process bound, or NoKey
    active_headers, \* _active_headers
    merged,         \* the manifest register_pch_headers is about to write
    exit_key,       \* the key _build_at_exit looked at, scheduled if not NoKey
    builder,        \* the builder spawned by a slot's process: its key, the
                    \* headers it bakes, then what its prune decided on
    stranded,       \* history: keys whose lock lost its owner to a kill
    pch_bounds      \* runs and faults so far

files == <<manifest, pch, sidecar, newest, lock>>
memory == <<active_path, active_headers, merged, exit_key>>
pchVars == <<files, run, memory, builder, stranded, pch_bounds>>

NoBuilder == [at |-> "none", key |-> NoKey, keys |-> {}, doomed |-> {}]

\* A new environment, or one that earlier runs left with a PCH and the
\* manifest it was baked from.
AutoPchInit ==
    /\ manifest \in SUBSET Headers
    /\ pch = [k \in Keys |-> IF k = manifest THEN k ELSE Absent]
    /\ sidecar = {manifest} \ {NoKey}
    /\ newest = IF manifest = NoKey THEN <<>> ELSE <<manifest>>
    /\ lock = [k \in Keys |-> "absent"]
    /\ run = [p \in Processes |-> "none"]
    /\ active_path = [p \in Processes |-> NoKey]
    /\ active_headers = [p \in Processes |-> {}]
    /\ merged = [p \in Processes |-> {}]
    /\ exit_key = [p \in Processes |-> NoKey]
    /\ builder = [p \in Processes |-> NoBuilder]
    /\ stranded = {}
    /\ pch_bounds = [runs |-> 0, faults |-> 0]

Goes(p, place) == run' = [run EXCEPT ![p] = place]
Builds(p, place) == builder' = [builder EXCEPT ![p].at = place]
Fault == /\ pch_bounds.faults < MaxPchFaults
         /\ pch_bounds' = [pch_bounds EXCEPT !.faults = @ + 1]

-----------------------------------------------------------------------------
(* A process.                                                              *)

\* activate(): the PCH that the manifest's headers name, if it is there.
Activated == IF manifest \in Keys /\ pch[manifest] # Absent THEN manifest ELSE NoKey

StartProcess(p) ==
    /\ run[p] = "none" /\ pch_bounds.runs < MaxRuns
    /\ pch_bounds' = [pch_bounds EXCEPT !.runs = @ + 1]
    /\ active_path' = [active_path EXCEPT ![p] = Activated]
    /\ active_headers' = [active_headers EXCEPT ![p] = {}]
    /\ exit_key' = [exit_key EXCEPT ![p] = NoKey]
    /\ Goes(p, "started")
    /\ UNCHANGED <<files, merged, builder, stranded>>

\* setup(): the manifest is read again for _active_headers.  A PCH that went
\* away since looks like a value the user set, and the module stays out.
Setup(p) ==
    /\ run[p] \in {"started", "bound"}
    /\ \/ /\ active_path[p] # NoKey
          /\ run[p] = "bound" \/ pch[active_path[p]] # Absent
          /\ active_headers' = [active_headers EXCEPT ![p] = manifest]
          /\ Goes(p, "ready")
       \/ /\ run[p] = "started"
          /\ active_path[p] # NoKey /\ pch[active_path[p]] = Absent
          /\ Goes(p, "overridden")
          /\ UNCHANGED active_headers
       \/ /\ active_path[p] = NoKey
          /\ Goes(p, "ready")
          /\ UNCHANGED active_headers
    /\ UNCHANGED <<files, active_path, merged, exit_key, builder, stranded,
                   pch_bounds>>

\* setup() without the hook, or before the first PCH: activate now; this PCH
\* is not looked at again.
SetupActivates(p) ==
    /\ run[p] = "started" /\ active_path[p] = NoKey /\ Activated # NoKey
    /\ active_path' = [active_path EXCEPT ![p] = Activated]
    /\ Goes(p, "bound")
    /\ UNCHANGED <<files, active_headers, merged, exit_key, builder, stranded,
                   pch_bounds>>

\* register_pch_headers: headers the active PCH lacks are merged into the
\* manifest this process has read; a build is scheduled anyway ...
RegisterHeader(p, h) ==
    /\ run[p] \in {"ready", "scheduled"} /\ h \notin active_headers[p]
    /\ \/ /\ h \in manifest
          /\ Goes(p, "scheduled")
          /\ UNCHANGED merged
       \/ /\ h \notin manifest
          /\ merged' = [merged EXCEPT ![p] = manifest \cup {h}]
          /\ Goes(p, "merging")
    /\ UNCHANGED <<files, active_path, active_headers, exit_key,
                   builder, stranded, pch_bounds>>

\* ... and a manifest that grew is written back.
WriteManifest(p) ==
    /\ run[p] = "merging"
    /\ manifest' = merged[p]
    /\ Goes(p, "scheduled")
    /\ UNCHANGED <<pch, sidecar, newest, lock, memory, builder, stranded,
                   pch_bounds>>

\* Exit without a scheduled build, or with one whose PCH is there already.
ExitQuietly(p) ==
    /\ \/ run[p] \in {"ready", "overridden"}
       \/ run[p] = "scheduled" /\ pch[manifest] # Absent
    /\ Goes(p, "none")
    /\ UNCHANGED <<files, memory, builder, stranded, pch_bounds>>

\* _build_at_exit looks at the manifest and at the PCH it names ...
ExitMisses(p) ==
    /\ run[p] = "scheduled" /\ pch[manifest] = Absent
    /\ exit_key' = [exit_key EXCEPT ![p] = manifest]
    /\ Goes(p, "locking")
    /\ UNCHANGED <<files, active_path, active_headers, merged,
                   builder, stranded, pch_bounds>>

\* ... creates the lock file, or gives up if there is one ...
TakeLock(p) ==
    /\ run[p] = "locking"
    /\ \/ /\ lock[exit_key[p]] = "absent"
          /\ lock' = [lock EXCEPT ![exit_key[p]] = "young"]
          /\ Goes(p, "spawning")
       \/ /\ lock[exit_key[p]] # "absent"
          /\ Goes(p, "none")
          /\ UNCHANGED lock
    /\ UNCHANGED <<manifest, pch, sidecar, newest, memory, builder, stranded,
                   pch_bounds>>

\* Faulty variant: the lock stays when the builder cannot be spawned.
SpawnKeepsLock(p) ==
    /\ run[p] = "spawning" /\ builder[p] = NoBuilder
    /\ \/ /\ builder' = [builder EXCEPT ![p] =
                [NoBuilder EXCEPT !.at = "spawned", !.key = exit_key[p]]]
          /\ UNCHANGED pch_bounds
       \/ Fault /\ UNCHANGED builder
    /\ Goes(p, "none")
    /\ UNCHANGED <<files, memory, stranded>>

\* ... and spawns the builder, or releases the lock when it cannot.
Spawn(p) ==
    /\ run[p] = "spawning" /\ builder[p] = NoBuilder
    /\ \/ /\ builder' = [builder EXCEPT ![p] =
                [NoBuilder EXCEPT !.at = "spawned", !.key = exit_key[p]]]
          /\ UNCHANGED <<lock, pch_bounds>>
       \/ /\ Fault
          /\ lock' = [lock EXCEPT ![exit_key[p]] = "absent"]
          /\ UNCHANGED builder
    /\ Goes(p, "none")
    /\ UNCHANGED <<manifest, pch, sidecar, newest, memory, stranded>>

-----------------------------------------------------------------------------
(* A builder.                                                              *)

\* main() reads the manifest for the headers to bake; the key it was given
\* may stand for others.  A PCH that is there ends it.
ReadManifest(p) ==
    /\ builder[p].at = "spawned"
    /\ builder' = [builder EXCEPT
         ![p].at = IF pch[builder[p].key] = Absent THEN "building" ELSE "unlock",
         ![p].keys = manifest]
    /\ UNCHANGED <<files, run, memory, stranded, pch_bounds>>

\* generate_pch publishes the whole file at once, or nothing.
GeneratePch(p) ==
    LET k == builder[p].key
    IN  /\ builder[p].at = "building"
        /\ \/ /\ pch' = [pch EXCEPT ![k] = builder[p].keys]
              /\ newest' = <<k>> \o SelectSeq(newest, LAMBDA j : j # k)
              /\ Builds(p, "describe")
              /\ UNCHANGED pch_bounds
           \/ /\ Fault
              /\ Builds(p, "unlock")
              /\ UNCHANGED <<pch, newest>>
        /\ UNCHANGED <<manifest, sidecar, lock, run, memory, stranded>>

\* The metadata sidecar follows the PCH.
WriteSidecar(p) ==
    /\ builder[p].at = "describe"
    /\ sidecar' = sidecar \cup {builder[p].key}
    /\ Builds(p, "prune")
    /\ UNCHANGED <<manifest, pch, newest, lock, run, memory, stranded,
                   pch_bounds>>

\* prune() decides on one listing: the newest of each group (with metadata
\* and without) survive, and the one the manifest names.
Surviving ==
    LET ofGroup(g) == SelectSeq(newest, LAMBDA k : (k \in sidecar) = g)
        firsts(s) == {s[i] : i \in DOMAIN s \cap 1 .. Keep}
    IN  firsts(ofGroup(TRUE)) \cup firsts(ofGroup(FALSE))
          \cup (ToSet(newest) \cap {manifest})

PruneDecides(p) ==
    /\ builder[p].at = "prune"
    /\ builder' = [builder EXCEPT ![p].at = "delete", ![p].keys = Surviving,
                                  ![p].doomed = ToSet(newest) \ Surviving]
    /\ UNCHANGED <<files, run, memory, stranded, pch_bounds>>

\* The doomed go with their sidecars.
PruneDeletes(p) ==
    LET doomed == builder[p].doomed
    IN  /\ builder[p].at = "delete"
        /\ pch' = [k \in Keys |-> IF k \in doomed THEN Absent ELSE pch[k]]
        /\ newest' = SelectSeq(newest, LAMBDA k : k \notin doomed)
        /\ sidecar' = sidecar \ doomed
        /\ Builds(p, "sweep")
        /\ UNCHANGED <<manifest, lock, run, memory, stranded, pch_bounds>>

\* The sweep lists again: what does not belong to a survivor of the first
\* listing goes, but a lock younger than the grace period may be a build's.
PruneSweeps(p) ==
    /\ builder[p].at = "sweep"
    /\ sidecar' = sidecar \cap builder[p].keys
    /\ lock' = [k \in Keys |-> IF k \notin builder[p].keys /\ lock[k] = "old"
                               THEN "absent" ELSE lock[k]]
    /\ stranded' = {k \in stranded : lock'[k] # "absent"}
    /\ Builds(p, "unlock")
    /\ UNCHANGED <<manifest, pch, newest, run, memory, pch_bounds>>

\* The lock goes last, on every path.
Unlock(p) ==
    /\ builder[p].at = "unlock"
    /\ lock' = [lock EXCEPT ![builder[p].key] = "absent"]
    /\ builder' = [builder EXCEPT ![p] = NoBuilder]
    /\ UNCHANGED <<manifest, pch, sidecar, newest, run, memory, stranded,
                   pch_bounds>>

-----------------------------------------------------------------------------
\* Who is at work under the lock of a key.
Owners(k) == {p \in Processes : run[p] = "spawning" /\ exit_key[p] = k}
Builders(k) == {p \in Processes : builder[p].key = k}

\* A kill or a power cut; the files stay.
KillProcess(p) ==
    /\ run[p] # "none" /\ Fault
    /\ Goes(p, "none")
    /\ stranded' = stranded \cup
         (IF run[p] = "spawning" THEN {exit_key[p]} ELSE {})
    /\ UNCHANGED <<files, memory, builder>>

KillBuilder(p) ==
    /\ builder[p] # NoBuilder /\ Fault
    /\ builder' = [builder EXCEPT ![p] = NoBuilder]
    /\ stranded' = stranded \cup {builder[p].key}
    /\ UNCHANGED <<files, run, memory>>

\* No build takes as long as the grace period.
LockAges(k) ==
    /\ lock[k] = "young" /\ Owners(k) = {} /\ Builders(k) = {}
    /\ lock' = [lock EXCEPT ![k] = "old"]
    /\ UNCHANGED <<manifest, pch, sidecar, newest, run, memory, builder,
                   stranded, pch_bounds>>

BuilderStep(p) ==
    \/ ReadManifest(p) \/ GeneratePch(p) \/ WriteSidecar(p)
    \/ PruneDecides(p) \/ PruneDeletes(p) \/ PruneSweeps(p) \/ Unlock(p)

ProcessStep(p) ==
    \/ StartProcess(p) \/ Setup(p) \/ SetupActivates(p)
    \/ \E h \in Headers : RegisterHeader(p, h)
    \/ WriteManifest(p) \/ ExitQuietly(p) \/ ExitMisses(p) \/ TakeLock(p) \/ Spawn(p)

AutoPchNext ==
    \/ \E p \in Processes :
        ProcessStep(p) \/ BuilderStep(p) \/ KillProcess(p) \/ KillBuilder(p)
    \/ \E k \in Keys : LockAges(k)

AutoPchSpec == AutoPchInit /\ [][AutoPchNext]_pchVars

-----------------------------------------------------------------------------
\* A lock file has one owner, unless a kill left it behind, and a key has one
\* builder: neither a builder that fails, nor one that finds its PCH made,
\* nor a sweep leaves a lock that keeps later runs from building.
LockedIsBuilding ==
    \A k \in Keys :
        /\ Cardinality(Owners(k)) + Cardinality(Builders(k)) <= 1
        /\ lock[k] # "absent" <=> Owners(k) \cup Builders(k) # {} \/ k \in stranded
=============================================================================
