----------------------------- MODULE ModuleTracker -----------------------------
(***************************************************************************)
(* module_tracker and the handlers of collector_app that use it.  The      *)
(* profiled program loads and unloads modules at any moment; the tracker   *)
(* compares snapshots, one per request_update, and reports the difference  *)
(* to the frontend.  Metadata and patches are asked for by persistent id,  *)
(* at any later moment, for modules that may be gone by then.  Patching    *)
(* adds the patches and composes both.                                     *)
(***************************************************************************)
EXTENDS Naturals, FiniteSets

CONSTANTS Modules,    \* module files
          Bases,      \* addresses a module may be mapped at
          None,       \* no address, no mapping
          MaxLoads    \* bound: loads by the program

ASSUME LoadsAssumption == MaxLoads \in Nat
ASSUME ModulesAssumption == IsFiniteSet(Modules)
ASSUME NoneAssumption == None \notin Bases \cup [instance : Nat, base : Bases]

VARIABLES
    base,           \* the process: per module, where it is mapped, or None
    app,            \* the process: per module, whether the program holds it
    loads,          \* loads so far
    persistent,     \* _files_registry: per module, its persistent id, or 0
    mapping,        \* module_info::mapping: per module, [instance, base] or None
    instances,      \* _next_instance_id
    pinned,         \* per module, whether a lock_mapping is kept with its patches
    loaded,         \* history: [module, instance, base] reported as loaded
    unloaded,       \* history: instances reported as unloaded
    crashed         \* an empty mapping was dereferenced

processVars == <<base, app, loads>>
reportVars == <<loaded, unloaded>>
trackerVars == <<processVars, persistent, mapping, instances, pinned, reportVars, crashed>>

TrackerInit ==
    /\ base = [m \in Modules |-> None]
    /\ app = [m \in Modules |-> FALSE]
    /\ loads = 0
    /\ persistent = [m \in Modules |-> 0]
    /\ mapping = [m \in Modules |-> None]
    /\ instances = 0
    /\ pinned = [m \in Modules |-> FALSE]
    /\ loaded = {}
    /\ unloaded = {}
    /\ crashed = FALSE

-----------------------------------------------------------------------------
(* External: the loader of the system, which counts references.            *)

\* A module that is not mapped is mapped at some free address.
MapAt(m, b) ==
    IF base[m] # None
      THEN b = base[m]
      ELSE \A n \in Modules : base[n] # b

Load(m) ==
    /\ ~crashed
    /\ ~app[m]
    /\ loads < MaxLoads
    /\ \E b \in Bases : MapAt(m, b) /\ base' = [base EXCEPT ![m] = b]
    /\ app' = [app EXCEPT ![m] = TRUE]
    /\ loads' = loads + 1
    /\ UNCHANGED <<persistent, mapping, instances, pinned, reportVars, crashed>>

\* A module goes when neither the program nor a lock holds it.
Unload(m) ==
    /\ ~crashed
    /\ app[m]
    /\ app' = [app EXCEPT ![m] = FALSE]
    /\ base' = [base EXCEPT ![m] = IF pinned[m] THEN @ ELSE None]
    /\ UNCHANGED <<loads, persistent, mapping, instances, pinned, reportVars, crashed>>

-----------------------------------------------------------------------------
(* module_tracker.                                                         *)

Snapshot == {m \in Modules : base[m] # None}

\* The modules of the snapshot that have no mapping yet.
New == {m \in Snapshot : mapping[m] = None}

\* The mapped modules that are missing from the snapshot.
Gone == {m \in Modules : mapping[m] # None /\ m \notin Snapshot}

\* The modules of S are numbered from `from' on, in the order of enumeration.
Numbering(S, from) ==
    CHOOSE f \in [S -> from..(from + Cardinality(S) - 1)] :
        \A x, y \in S : x # y => f[x] # f[y]

\* Mutant: the mapping of a module that is gone is kept.
MutantMappingsAfter(new) ==
    [m \in Modules |-> IF m \in New THEN [instance |-> new[m], base |-> base[m]] ELSE mapping[m]]

\* The mappings after a comparison with the snapshot.
MappingsAfter(new) ==
    [m \in Modules |->
        IF m \in New THEN [instance |-> new[m], base |-> base[m]]
        ELSE IF m \in Gone THEN None
        ELSE mapping[m]]

Registered == {m \in Modules : persistent[m] # 0}

\* get_changes, called by the handler of request_update, which sends both
\* lists to the frontend.
GetChanges ==
    LET unseen == Snapshot \ Registered
        new    == Numbering(New, instances)
        ids    == Numbering(unseen, Cardinality(Registered) + 1)
    IN  /\ ~crashed
        /\ persistent' = [m \in Modules |-> IF m \in unseen THEN ids[m] ELSE persistent[m]]
        /\ mapping' = MappingsAfter(new)
        /\ instances' = instances + Cardinality(New)
        /\ loaded' = loaded \cup {[module |-> m, instance |-> new[m], base |-> base[m]] : m \in New}
        /\ unloaded' = unloaded \cup {mapping[m].instance : m \in Gone}
        /\ UNCHANGED <<processVars, pinned, crashed>>

\* lock_mapping: the mapping is copied, whether there is one or not, and the
\* module is loaded, which maps it again if it is gone.  Only modules that
\* were reported have an id that the frontend can ask for.
LockMapping(m) ==
    /\ ~crashed
    /\ \E r \in loaded : r.module = m
    /\ crashed' = (mapping[m] = None)

\* The handler of request_module_metadata locks the module while it reads
\* its image.
RequestMetadata(m) ==
    /\ LockMapping(m)
    /\ UNCHANGED <<processVars, persistent, mapping, instances, pinned, reportVars>>

\* The profiled process is no more.
Crashed == crashed /\ UNCHANGED trackerVars

-----------------------------------------------------------------------------
(* Properties.                                                             *)

\* Somebody who adds up the reports has exactly the tracker's mappings: each
\* instance is reported loaded once, and unloaded once when it goes.
ReportsAddUp ==
    {r \in loaded : r.instance \notin unloaded} =
        {[module |-> m, instance |-> mapping[m].instance, base |-> mapping[m].base] :
            m \in {n \in Modules : mapping[n] # None}}

\* A module whose patches hold a lock is never reported as unloaded.
PatchedStaysLoaded == \A m \in Modules : pinned[m] => base[m] # None /\ mapping[m] # None

\* Image info is accessible even after the module is unloaded: asking for the
\* metadata or the patching of a module that was reported, also of one that
\* was unloaded since, does not make the collector crash.
SafeAfterUnload == ~crashed
================================================================================
