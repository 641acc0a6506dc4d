---------------------------- MODULE HeaderFetch ----------------------------
(***************************************************************************)
(* cppyy_kit.require: the cache entry of one request for a header-only     *)
(* library, shared by processes.  A complete entry is verified without a   *)
(* lock; a missing or invalid one is fetched into a stage of its own under *)
(* the library's file lock and renamed into place.                         *)
(*                                                                         *)
(* The entry is the set of its pieces: the completion file, the header,    *)
(* and, where somebody interfered, a wrong header or a file that does not  *)
(* belong there.  A verification is one step.                              *)
(***************************************************************************)
EXTENDS Naturals

CONSTANTS
    Fetchers,      \* processes
    NoFetcher,     \* the lock is free
    MaxTampers,    \* bound: interferences with the entry
    MaxDeaths      \* bound: processes that die in require()

ASSUME NobodyFetches == NoFetcher \notin Fetchers
ASSUME FetchBoundAssumption == MaxTampers \in Nat /\ MaxDeaths \in Nat

VARIABLES
    root,        \* pieces of the entry, {} when there is none
    stage,       \* stage[p]: pieces of the stage of process p
    fetch_lock,  \* the holder of .fetch.lock
    fetching,    \* fetching[p]: where require() stands in process p
    relying,     \* history: processes that returned the entry, and nobody
                 \* interfered with it since
    fetch_bounds \* tampers and deaths so far

fetchVars == <<root, stage, fetch_lock, fetching, relying, fetch_bounds>>

Whole == {"completion", "header"}
Valid(pieces) == pieces = Whole  \* the recorded hashes are the files'

FetchInit ==
    /\ root = {}
    /\ stage = [p \in Fetchers |-> {}]
    /\ fetch_lock = NoFetcher
    /\ fetching = [p \in Fetchers |-> "no"]
    /\ relying = {}
    /\ fetch_bounds = [tampers |-> 0, deaths |-> 0]

FetchGoes(p, at) == fetching' = [fetching EXCEPT ![p] = at]

\* Somebody is in the middle of removing an invalid entry.
Removing == \E p \in Fetchers : fetching[p] = "replacing"

-----------------------------------------------------------------------------
\* The first verification, without the lock.  An entry that is being removed
\* because a file too many made it invalid is valid without that file: who
\* finds it so returns a directory that is about to go.
RequireLooks(p) ==
    /\ fetching[p] = "no"
    /\ IF Valid(root)
       THEN /\ relying' = IF Removing THEN relying ELSE relying \cup {p}
            /\ UNCHANGED fetching
       ELSE FetchGoes(p, "locking") /\ UNCHANGED relying
    /\ UNCHANGED <<root, stage, fetch_lock, fetch_bounds>>

\* Faulty variant: the entry is not verified again under the lock.
FetchLocksTrusting(p) ==
    /\ fetching[p] = "locking" /\ fetch_lock = NoFetcher
    /\ fetch_lock' = p /\ FetchGoes(p, "fetching")
    /\ UNCHANGED <<root, stage, relying, fetch_bounds>>

FetchLocks(p) ==
    /\ fetching[p] = "locking" /\ fetch_lock = NoFetcher
    /\ IF Valid(root)
       THEN /\ relying' = relying \cup {p} /\ FetchGoes(p, "no")
            /\ UNCHANGED fetch_lock
       ELSE /\ fetch_lock' = p /\ FetchGoes(p, "fetching")
            /\ UNCHANGED relying
    /\ UNCHANGED <<root, stage, fetch_bounds>>

\* Downloaded, found to have the checksum and the header, and recorded.
Fetched(p) ==
    /\ fetching[p] = "fetching"
    /\ stage' = [stage EXCEPT ![p] = Whole]
    /\ FetchGoes(p, "replacing")
    /\ UNCHANGED <<root, fetch_lock, relying, fetch_bounds>>

\* rmtree takes the old entry away piece by piece.
RemovesPiece(p, piece) ==
    /\ fetching[p] = "replacing" /\ piece \in root
    /\ root' = root \ {piece}
    /\ UNCHANGED <<stage, fetch_lock, fetching, relying, fetch_bounds>>

PutsInPlace(p) ==
    /\ fetching[p] = "replacing" /\ root = {}
    /\ root' = stage[p]
    /\ stage' = [stage EXCEPT ![p] = {}]
    /\ fetch_lock' = NoFetcher /\ FetchGoes(p, "no")
    /\ relying' = relying \cup {p}
    /\ UNCHANGED fetch_bounds

\* The download, the checksum, the archive or the file system fails: the
\* stage goes, and require() raises.
FetchFails(p) ==
    /\ fetching[p] \in {"fetching", "replacing"}
    /\ stage' = [stage EXCEPT ![p] = {}]
    /\ fetch_lock' = NoFetcher /\ FetchGoes(p, "no")
    /\ UNCHANGED <<root, relying, fetch_bounds>>

-----------------------------------------------------------------------------
\* A process dies; the kernel releases its lock, the stage stays.
FetcherDies(p) ==
    /\ fetching[p] # "no" \/ p \in relying
    /\ fetch_bounds.deaths < MaxDeaths
    /\ fetch_lock' = IF fetch_lock = p THEN NoFetcher ELSE fetch_lock
    /\ FetchGoes(p, "no")
    /\ relying' = relying \ {p}
    /\ fetch_bounds' = [fetch_bounds EXCEPT !.deaths = @ + 1]
    /\ UNCHANGED <<root, stage>>

\* Somebody changes the header, or adds a file, in the cache.
Tamper(pieces) ==
    /\ root # {} /\ root' = pieces /\ pieces # root
    /\ relying' = {}
    /\ fetch_bounds.tampers < MaxTampers
    /\ fetch_bounds' = [fetch_bounds EXCEPT !.tampers = @ + 1]
    /\ UNCHANGED <<stage, fetch_lock, fetching>>

FetchNext ==
    \/ \E p \in Fetchers :
        \/ RequireLooks(p) \/ FetchLocks(p) \/ Fetched(p) \/ PutsInPlace(p)
        \/ FetchFails(p) \/ FetcherDies(p)
        \/ \E piece \in root : RemovesPiece(p, piece)
    \/ Tamper((root \ {"header"}) \cup {"wrong header"})
    \/ Tamper(root \cup {"stray file"})

FetchSpec == FetchInit /\ [][FetchNext]_fetchVars

-----------------------------------------------------------------------------
\* The directory require() returned stays complete and verified until
\* somebody interferes with it, although other processes, started before or
\* after, fetch, replace, fail and die meanwhile: "Complete request
\* directories are immutable."
ReturnedEntryStays == relying # {} => Valid(root)
=============================================================================
