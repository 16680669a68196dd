----------------------------- MODULE PatchingProofs -----------------------------
(***************************************************************************)
(* Proofs about module_tracker and the patches it holds modules for, for   *)
(* any finite sets of modules and functions, any addresses and any number  *)
(* of loads, requests and frontends: the reports to the frontend add up to *)
(* the tracker's mappings, a module is locked exactly while a function of  *)
(* it is patched, and the marks of the frontend are true.                  *)
(***************************************************************************)
EXTENDS Patching, TLAPS, FiniteSetTheorems, SequenceTheorems

Kinds == {"apply", "revert"}

-----------------------------------------------------------------------------
(* The reports of the tracker.                                             *)

Mapping == [instance : Nat, base : Bases]
Report == [module : Modules, instance : Nat, base : Bases]

TrackerTypeOK ==
    /\ base \in [Modules -> Bases \cup {None}]
    /\ mapping \in [Modules -> Mapping \cup {None}]
    /\ instances \in Nat
    /\ loaded \in SUBSET Report
    /\ unloaded \in SUBSET Nat

\* Instance ids are handed out once: all that were are below the next one, and
\* no two modules share one.
IdsFresh ==
    /\ \A r \in loaded : r.instance < instances
    /\ \A i \in unloaded : i < instances
    /\ \A m \in Modules : mapping[m] # None => mapping[m].instance < instances
    /\ \A m, n \in Modules : mapping[m] # None /\ mapping[n] # None /\ m # n
                                => mapping[m].instance # mapping[n].instance

TrackerInv == TrackerTypeOK /\ IdsFresh /\ ReportsAddUp

\* The enumeration of a finite set numbers its elements apart.
LEMMA NumberingProperties ==
    ASSUME NEW S, IsFiniteSet(S), NEW from \in Nat
    PROVE  /\ Cardinality(S) \in Nat
           /\ Numbering(S, from) \in [S -> from..(from + Cardinality(S) - 1)]
           /\ \A x, y \in S : x # y => Numbering(S, from)[x] # Numbering(S, from)[y]
  <1> DEFINE n == Cardinality(S)
  <1>1. n \in Nat /\ ExistsBijection(1..n, S)
    BY FS_CardinalityType
  <1>2. PICK b \in Bijection(1..n, S) : TRUE
    BY <1>1 DEF ExistsBijection
  <1>3. /\ b \in [1..n -> S]
        /\ \A x \in S : \E i \in 1..n : b[i] = x
    BY <1>2 DEF Bijection, Injection, Surjection
  <1> DEFINE pos(x) == CHOOSE i \in 1..n : b[i] = x
             g == [x \in S |-> from + pos(x) - 1]
  <1>4. \A x \in S : pos(x) \in 1..n /\ b[pos(x)] = x
    BY <1>3
  <1> HIDE DEF pos, n
  <1>5. g \in [S -> from..(from + n - 1)]
    BY <1>1, <1>4
  <1>6. \A x, y \in S : x # y => g[x] # g[y]
    BY <1>4, <1>1
  <1> HIDE DEF g
  <1>7. \E f \in [S -> from..(from + n - 1)] : \A x, y \in S : x # y => f[x] # f[y]
    BY <1>5, <1>6
  <1> QED BY <1>1, <1>7 DEF Numbering, n

LEMMA GetChangesReports ==
    ASSUME TrackerInv, GetChanges
    PROVE  TrackerInv'
  <1> DEFINE new == Numbering(New, instances)
  <1>1. /\ Cardinality(New) \in Nat
        /\ new \in [New -> instances..(instances + Cardinality(New) - 1)]
        /\ \A x, y \in New : x # y => new[x] # new[y]
    <2>1. IsFiniteSet(New)
      BY ModulesAssumption, FS_Subset DEF New, Snapshot
    <2> QED BY <2>1, NumberingProperties DEF TrackerInv, TrackerTypeOK
  <1>2. /\ mapping' = MappingsAfter(new)
        /\ instances' = instances + Cardinality(New)
        /\ loaded' = loaded \cup {[module |-> m, instance |-> new[m], base |-> base[m]] : m \in New}
        /\ unloaded' = unloaded \cup {mapping[m].instance : m \in Gone}
        /\ base' = base
    BY DEF GetChanges, processVars
  <1> HIDE DEF new
  <1>3. \A m \in New : m \in Modules /\ base[m] \in Bases /\ mapping[m] = None
                       /\ new[m] \in Nat /\ new[m] >= instances /\ new[m] < instances'
    BY <1>1, <1>2 DEF New, Snapshot, TrackerInv, TrackerTypeOK
  <1>4. \A m \in Gone : m \in Modules /\ mapping[m] \in Mapping /\ mapping[m] # None
    BY DEF Gone, TrackerInv, TrackerTypeOK
  <1>5. /\ \A m \in New : mapping'[m] = [instance |-> new[m], base |-> base[m]]
        /\ \A m \in Gone : mapping'[m] = None
        /\ \A m \in Modules : m \notin New /\ m \notin Gone => mapping'[m] = mapping[m]
        /\ mapping' \in [Modules -> Mapping \cup {None}]
    <2>1. New \cap Gone = {}
      BY DEF New, Gone
    <2>2. \A m \in New : [instance |-> new[m], base |-> base[m]] \in Mapping
      BY <1>3 DEF Mapping
    <2> QED BY <1>2, <1>3, <1>4, <2>1, <2>2 DEF MappingsAfter, TrackerInv, TrackerTypeOK
  <1>6. \A m \in New : mapping'[m] # None /\ mapping'[m].instance = new[m] /\ mapping'[m].base = base[m]
    <2>1. None \notin Mapping
      BY NoneAssumption DEF Mapping
    <2> SUFFICES ASSUME NEW m \in New
                 PROVE  mapping'[m] # None /\ mapping'[m].instance = new[m] /\ mapping'[m].base = base[m]
      OBVIOUS
    <2>2. mapping'[m] = [instance |-> new[m], base |-> base[m]]
      BY <1>5
    <2>3. [instance |-> new[m], base |-> base[m]] \in Mapping
      BY <1>3 DEF Mapping
    <2>4. mapping'[m] # None
      BY <2>1, <2>2, <2>3
    <2> QED BY <2>2, <2>4
  <1>7. TrackerTypeOK'
    <2>1. loaded' \in SUBSET Report
      BY <1>2, <1>3 DEF Report, TrackerInv, TrackerTypeOK
    <2>2. unloaded' \in SUBSET Nat
      BY <1>2, <1>4 DEF Mapping, TrackerInv, TrackerTypeOK
    <2> QED BY <1>1, <1>2, <1>5, <2>1, <2>2 DEF TrackerInv, TrackerTypeOK
  <1>8. \A m \in Modules : mapping'[m] # None => m \in New \/ (m \notin New /\ m \notin Gone /\ mapping'[m] = mapping[m])
    BY <1>5
  <1>9. instances \in Nat /\ instances' \in Nat /\ instances <= instances'
    BY <1>1, <1>2 DEF TrackerInv, TrackerTypeOK
  <1>10. IdsFresh'
    <2>1. \A r \in loaded' : r.instance < instances'
      <3>1. \A r \in loaded : r.instance \in Nat /\ r.instance < instances
        BY DEF TrackerInv, TrackerTypeOK, IdsFresh, Report
      <3> QED BY <1>2, <1>3, <1>9, <3>1
    <2>2. \A i \in unloaded' : i < instances'
      BY <1>2, <1>4, <1>9 DEF TrackerInv, TrackerTypeOK, IdsFresh, Mapping
    <2>3. \A m \in Modules : mapping[m] # None => mapping[m].instance \in Nat /\ mapping[m].instance < instances
      BY DEF TrackerInv, TrackerTypeOK, IdsFresh, Mapping
    <2>4. \A m \in Modules : mapping'[m] # None => mapping'[m].instance < instances'
      BY <1>3, <1>6, <1>8, <1>9, <2>3
    <2>5. \A m, n \in Modules : mapping'[m] # None /\ mapping'[n] # None /\ m # n
                                => mapping'[m].instance # mapping'[n].instance
      <3> SUFFICES ASSUME NEW m \in Modules, NEW n \in Modules, mapping'[m] # None, mapping'[n] # None, m # n
                   PROVE  mapping'[m].instance # mapping'[n].instance
        OBVIOUS
      <3>1. CASE m \in New /\ n \in New
        BY <3>1, <1>1, <1>6
      <3>2. CASE m \in New /\ n \notin New
        <4>1. mapping'[n] = mapping[n] /\ mapping[n].instance \in Nat /\ mapping[n].instance < instances
          BY <3>2, <1>8, <2>3
        <4> QED BY <3>2, <4>1, <1>3, <1>6, <1>9
      <3>3. CASE m \notin New /\ n \in New
        <4>1. mapping'[m] = mapping[m] /\ mapping[m].instance \in Nat /\ mapping[m].instance < instances
          BY <3>3, <1>8, <2>3
        <4> QED BY <3>3, <4>1, <1>3, <1>6, <1>9
      <3>4. CASE m \notin New /\ n \notin New
        BY <3>4, <1>8 DEF TrackerInv, IdsFresh
      <3> QED BY <3>1, <3>2, <3>3, <3>4
    <2> QED BY <2>1, <2>2, <2>4, <2>5 DEF IdsFresh
  <1>11. ReportsAddUp'
    <2> DEFINE entry(m) == [module |-> m, instance |-> mapping[m].instance, base |-> mapping[m].base]
               entryAfter(m) == [module |-> m, instance |-> mapping'[m].instance, base |-> mapping'[m].base]
    <2>0. \A r : r \in loaded /\ r.instance \notin unloaded <=> \E m \in Modules : mapping[m] # None /\ r = entry(m)
      BY DEF TrackerInv, ReportsAddUp
    <2>a. \A m \in Modules : mapping[m] # None => mapping[m].instance \in Nat /\ mapping[m].instance < instances
      BY DEF TrackerInv, TrackerTypeOK, IdsFresh, Mapping
    <2>b. \A i \in unloaded : i \in Nat /\ i < instances
      BY DEF TrackerInv, TrackerTypeOK, IdsFresh
    <2>1. ASSUME NEW m \in Modules, mapping'[m] # None
          PROVE  entryAfter(m) \in loaded' /\ mapping'[m].instance \notin unloaded'
      <3>1. CASE m \in New
        <4>1. entryAfter(m) = [module |-> m, instance |-> new[m], base |-> base[m]]
          BY <3>1, <1>6
        <4>2. new[m] \notin unloaded'
          BY <3>1, <1>2, <1>3, <1>4, <1>9, <2>a, <2>b
        <4> QED BY <3>1, <4>1, <4>2, <1>2, <1>6
      <3>2. CASE m \notin New
        <4>1. m \notin Gone /\ mapping'[m] = mapping[m] /\ mapping[m] # None
          BY <3>2, <1>8, <2>1
        <4>2. entryAfter(m) = entry(m)
          BY <4>1
        <4>3. entry(m) \in loaded /\ entry(m).instance \notin unloaded
          BY <4>1, <2>0
        <4>4. \A n \in Gone : mapping[n].instance # mapping[m].instance
          BY <4>1, <1>4 DEF TrackerInv, IdsFresh
        <4> QED BY <4>1, <4>2, <4>3, <4>4, <1>2
      <3> QED BY <3>1, <3>2
    <2>2. ASSUME NEW r \in loaded', r.instance \notin unloaded'
          PROVE  \E m \in Modules : mapping'[m] # None /\ r = entryAfter(m)
      <3>1. CASE r \in loaded
        <4>1. PICK m \in Modules : mapping[m] # None /\ r = entry(m)
          BY <3>1, <2>0, <2>2, <1>2
        <4>2. m \notin Gone
          BY <4>1, <2>2, <1>2
        <4>3. m \notin New
          BY <4>1 DEF New
        <4> QED BY <4>1, <4>2, <4>3, <1>5
      <3>2. CASE r \notin loaded
        <4>1. PICK m \in New : r = [module |-> m, instance |-> new[m], base |-> base[m]]
          BY <3>2, <1>2
        <4> QED BY <4>1, <1>3, <1>6
      <3> QED BY <3>1, <3>2
    <2>3. \A m \in Modules : entryAfter(m).instance = mapping'[m].instance
      OBVIOUS
    <2> QED BY <2>1, <2>2, <2>3 DEF ReportsAddUp
  <1> QED BY <1>7, <1>10, <1>11 DEF TrackerInv

\* Whatever moves a module, the rest of the tracker's state stays.
LEMMA BaseMoves ==
    ASSUME TrackerInv, base' \in [Modules -> Bases \cup {None}], UNCHANGED <<mapping, instances, loaded, unloaded>>
    PROVE  TrackerInv'
  BY DEF TrackerInv, TrackerTypeOK, IdsFresh, ReportsAddUp

LEMMA TrackerStep == TrackerInv /\ [Next]_vars => TrackerInv'
  <1> SUFFICES ASSUME TrackerInv, [Next]_vars PROVE TrackerInv'
    OBVIOUS
  <1> USE DEF trackerVars, processVars, reportVars
  <1>0. base \in [Modules -> Bases \cup {None}]
    BY DEF TrackerInv, TrackerTypeOK
  <1>1. ASSUME NEW m \in Modules, Load(m) PROVE TrackerInv'
    BY <1>0, <1>1, BaseMoves DEF Load
  <1>2. ASSUME NEW m \in Modules, Unload(m) PROVE TrackerInv'
    BY <1>0, <1>2, BaseMoves DEF Unload
  <1>3. ASSUME NEW m \in Modules, RequestMetadata(m) PROVE TrackerInv'
    BY <1>0, <1>3, BaseMoves DEF RequestMetadata
  <1>4. CASE GetChanges
    BY <1>4, GetChangesReports
  <1>5. CASE Crashed
    BY <1>0, <1>5, BaseMoves DEF Crashed
  <1>6. ASSUME NEW m \in Modules, NEW selected \in SUBSET Functions, NEW kind \in Kinds, Ask(kind, m, selected)
        PROVE TrackerInv'
    BY <1>0, <1>6, BaseMoves DEF Ask
  <1>7. CASE OnAnswer \/ Reconnect
    BY <1>0, <1>7, BaseMoves DEF OnAnswer, Reconnect
  <1>8. CASE ApplyPatches
    <2>1. base' \in [Modules -> Bases \cup {None}]
      BY <1>0, <1>8 DEF ApplyPatches
    <2> QED BY <1>8, <2>1, BaseMoves DEF ApplyPatches
  <1>9. CASE RevertPatches
    BY <1>0, <1>9, BaseMoves DEF RevertPatches
  <1>10. CASE UNCHANGED vars
    BY <1>0, <1>10, BaseMoves DEF vars
  <1> QED BY <1>1, <1>2, <1>3, <1>4, <1>5, <1>6, <1>7, <1>8, <1>9, <1>10 DEF Next, Kinds

LEMMA TrackerStart == Init => TrackerInv
  BY DEF Init, TrackerInit, TrackerInv, TrackerTypeOK, IdsFresh, ReportsAddUp

\* The reports of loaded and unloaded modules add up to the tracker's mappings,
\* whatever the program loads and unloads between two requests of an update.
THEOREM ReportsTrue == Spec => []ReportsAddUp
  <1>1. TrackerInv => ReportsAddUp
    BY DEF TrackerInv
  <1> QED BY <1>1, TrackerStart, TrackerStep, PTL DEF Spec

-----------------------------------------------------------------------------
(* The lock of a patched module.                                           *)

Request == [kind : Kinds, module : Modules, targets : SUBSET Functions]
Outcomes == UNION {[T -> {"ok", "error", "unchanged"}] : T \in SUBSET Functions}
Answer == [kind : Kinds, module : Modules, results : Outcomes]

PatchTypeOK ==
    /\ app \in [Modules -> BOOLEAN]
    /\ pinned \in [Modules -> BOOLEAN]
    /\ patch \in [Modules -> [Functions -> [at : Bases \cup {None}, active : BOOLEAN]]]
    /\ applied \in [Modules -> Nat]
    /\ requests \in Seq(Request)
    /\ answers \in Seq(Answer)

Active(m) == {f \in Functions : patch[m][f].active}

\* patches_applied counts the active patches of a module, the lock is there as
\* long as it counts any, and an active patch has a place.
PatchesCounted == \A m \in Modules :
    /\ applied[m] = Cardinality(Active(m))
    /\ pinned[m] <=> applied[m] > 0
    /\ \A f \in Functions : patch[m][f].active => patch[m][f].at # None

LockInv == TrackerInv /\ PatchTypeOK /\ PatchesCounted /\ PatchedStaysLoaded

Patch == [at : Bases \cup {None}, active : BOOLEAN]

\* What apply and revert make of a module's patches.
LEMMA ActivatedFacts ==
    ASSUME PatchTypeOK, PatchesCounted, NEW m \in Modules, NEW targets \in SUBSET Functions, NEW addr \in Bases
    PROVE  /\ Activated(m, targets, addr) \in [Functions -> Patch]
           /\ \A f \in Functions : LET p == Activated(m, targets, addr)[f] IN
                 /\ f \notin targets => p = patch[m][f]
                 /\ f \in targets => p.active <=> p.at # None
                 /\ f \in targets => p.at = IF patch[m][f].at # None THEN patch[m][f].at
                                            ELSE IF f \in Unpatchable THEN None ELSE addr
                 /\ p.active => p.at # None
                 /\ patch[m][f].active => p.active
  <1>1. \A f \in Functions : patch[m][f] \in Patch
    BY DEF PatchTypeOK, Patch
  <1>2. \A p \in Patch : Activate(p) \in Patch /\ Activate(p).at = p.at /\ (Activate(p).active <=> p.at # None)
    BY DEF Activate, Patch
  <1>3. \A f \in Functions : Make(f, addr) \in Patch /\ Make(f, addr).at = IF f \in Unpatchable THEN None ELSE addr
    BY DEF Make, Patch
  <1>4. \A f \in Functions : LET p == Activated(m, targets, addr)[f] IN
            /\ f \notin targets => p = patch[m][f]
            /\ f \in targets /\ patch[m][f].at = None => p = Activate(Make(f, addr))
            /\ f \in targets /\ patch[m][f].at # None => p = Activate(patch[m][f])
    BY DEF Activated
  <1>5. \A f \in Functions : patch[m][f].active => patch[m][f].at # None
    BY DEF PatchesCounted
  <1>6. Activated(m, targets, addr) \in [Functions -> Patch]
    BY <1>1, <1>2, <1>3 DEF Activated
  <1> QED
    <2> SUFFICES ASSUME NEW f \in Functions
                 PROVE LET p == Activated(m, targets, addr)[f] IN
                 /\ f \notin targets => p = patch[m][f]
                 /\ f \in targets => p.active <=> p.at # None
                 /\ f \in targets => p.at = IF patch[m][f].at # None THEN patch[m][f].at
                                            ELSE IF f \in Unpatchable THEN None ELSE addr
                 /\ p.active => p.at # None
                 /\ patch[m][f].active => p.active
      BY <1>6
    <2>1. CASE f \notin targets
      BY <2>1, <1>4, <1>5
    <2>2. CASE f \in targets /\ patch[m][f].at = None
      <3>1. Activated(m, targets, addr)[f] = Activate(Make(f, addr))
        BY <2>2, <1>4
      <3> QED BY <2>2, <3>1, <1>2, <1>3, <1>5
    <2>3. CASE f \in targets /\ patch[m][f].at # None
      <3>1. Activated(m, targets, addr)[f] = Activate(patch[m][f])
        BY <2>3, <1>4
      <3> QED BY <2>3, <3>1, <1>1, <1>2
    <2> QED BY <2>1, <2>2, <2>3

LEMMA RevertedFacts ==
    ASSUME PatchTypeOK, NEW m \in Modules, NEW targets \in SUBSET Functions
    PROVE  /\ Reverted(m, targets) \in [Functions -> Patch]
           /\ \A f \in Functions : LET p == Reverted(m, targets)[f] IN
                 /\ f \notin targets => p = patch[m][f]
                 /\ f \in targets => ~p.active
                 /\ p.at = patch[m][f].at
                 /\ p.active => patch[m][f].active
  <1>1. \A f \in Functions : patch[m][f] \in Patch
    BY DEF PatchTypeOK, Patch
  <1>2. \A p \in Patch : Revert(p) \in Patch /\ Revert(p).at = p.at /\ ~Revert(p).active
    BY DEF Revert, Patch
  <1> QED BY <1>1, <1>2 DEF Reverted

LEMMA DisjointCount ==
    ASSUME NEW S, NEW T, IsFiniteSet(S), IsFiniteSet(T), S \cap T = {}
    PROVE  Cardinality(S \cup T) = Cardinality(S) + Cardinality(T)
  <1>1. Cardinality(S) \in Nat /\ Cardinality(T) \in Nat
    BY FS_CardinalityType
  <1>2. Cardinality(S \cup T) = Cardinality(S) + Cardinality(T) - Cardinality(S \cap T)
    BY FS_Union
  <1>3. Cardinality(S \cap T) = 0
    BY FS_EmptySet
  <1> QED BY <1>1, <1>2, <1>3

\* Counting the active patches of a module before and after.
LEMMA ActiveCounted ==
    ASSUME PatchTypeOK, NEW m \in Modules, NEW after \in [Functions -> Patch],
           patch' = [patch EXCEPT ![m] = after]
    PROVE  /\ IsFiniteSet(Active(m)) /\ IsFiniteSet(Active(m)') /\ IsFiniteSet(Changed(m, after))
           /\ \A n \in Modules \ {m} : Active(n)' = Active(n)
           /\ (\A f \in Functions : patch[m][f].active => after[f].active)
                 => Cardinality(Active(m)') = Cardinality(Active(m)) + Cardinality(Changed(m, after))
           /\ (\A f \in Functions : after[f].active => patch[m][f].active)
                 => Cardinality(Active(m)') = Cardinality(Active(m)) - Cardinality(Changed(m, after))
  <1>1. IsFiniteSet(Active(m)) /\ IsFiniteSet(Active(m)') /\ IsFiniteSet(Changed(m, after))
    BY PatchingAssumption, FS_Subset DEF Active, Changed
  <1>2. patch'[m] = after /\ \A n \in Modules \ {m} : patch'[n] = patch[n]
    BY DEF PatchTypeOK
  <1>3. \A f \in Functions : patch[m][f].active \in BOOLEAN /\ after[f].active \in BOOLEAN
    BY DEF PatchTypeOK, Patch
  <1>4. /\ Active(m)' = {f \in Functions : after[f].active}
        /\ Changed(m, after) = {f \in Functions : ~(after[f].active <=> patch[m][f].active)}
    BY <1>2, <1>3 DEF Active, Changed
  <1>5. ASSUME \A f \in Functions : patch[m][f].active => after[f].active
        PROVE  Cardinality(Active(m)') = Cardinality(Active(m)) + Cardinality(Changed(m, after))
    <2>1. Active(m)' = Active(m) \cup Changed(m, after) /\ Active(m) \cap Changed(m, after) = {}
      BY <1>4, <1>5 DEF Active
    <2> QED BY <1>1, <2>1, DisjointCount
  <1>6. ASSUME \A f \in Functions : after[f].active => patch[m][f].active
        PROVE  Cardinality(Active(m)') = Cardinality(Active(m)) - Cardinality(Changed(m, after))
    <2>1. Active(m)' = Active(m) \ Changed(m, after) /\ Active(m) \cap Changed(m, after) = Changed(m, after)
      BY <1>4, <1>6 DEF Active
    <2> QED BY <1>1, <2>1, FS_Difference
  <1>7. \A n \in Modules \ {m} : Active(n)' = Active(n)
    BY <1>2 DEF Active
  <1> QED BY <1>1, <1>5, <1>6, <1>7

\* The head of a queue, and what is left behind it.
LEMMA HeadOf ==
    ASSUME NEW S, NEW s \in Seq(S), s # <<>>
    PROVE  /\ Head(s) \in S /\ Head(s) = s[1]
           /\ Tail(s) \in Seq(S)
           /\ Len(s) \in Nat /\ Len(s) >= 1 /\ Len(Tail(s)) = Len(s) - 1
           /\ \A i \in 1..Len(Tail(s)) : Tail(s)[i] = s[i + 1]
  <1>1. Len(s) \in Nat \ {0}
    BY EmptySeq
  <1> QED BY <1>1, HeadTailProperties

\* The results a handler answers with.
LEMMA OutcomesType ==
    ASSUME NEW targets \in SUBSET Functions, NEW res \in [targets -> {"ok", "error", "unchanged"}]
    PROVE  res \in Outcomes
  BY DEF Outcomes

LEMMA LockOfApply ==
    ASSUME LockInv, ApplyPatches
    PROVE  PatchTypeOK' /\ PatchesCounted' /\ PatchedStaysLoaded'
  <1>0. Head(requests) \in Request /\ requests' \in Seq(Request)
    BY HeadOf DEF ApplyPatches, Asked, LockInv, PatchTypeOK
  <1>2. PICK m \in Modules, targets \in SUBSET Functions : m = Head(requests).module /\ targets = Head(requests).targets
    BY <1>0 DEF Request
  <1> DEFINE addr == mapping[m].base
             after == Activated(m, targets, addr)
             res == [f \in targets |-> IF f \in Changed(m, after) THEN "ok"
                                       ELSE IF after[f].at = None THEN "error" ELSE "unchanged"]
             ans == [kind |-> "apply", module |-> m, results |-> res]
  <1>3. CASE mapping[m] = None
    <2>1. UNCHANGED <<base, app, mapping, pinned, patchVars, answers>>
      BY <1>2, <1>3 DEF ApplyPatches
    <2> QED BY <1>0, <2>1 DEF LockInv, PatchTypeOK, PatchesCounted, PatchedStaysLoaded, patchVars, Active
  <1>4. CASE mapping[m] # None
    <2>1. PICK b \in Bases :
            /\ MapAt(m, b)
            /\ patch' = [patch EXCEPT ![m] = after]
            /\ applied' = [applied EXCEPT ![m] = AppliedAfter(m, targets, after)]
            /\ pinned' = [pinned EXCEPT ![m] = @ \/ applied'[m] > 0]
            /\ base' = [base EXCEPT ![m] = IF pinned'[m] THEN b ELSE @]
      BY <1>2, <1>4 DEF ApplyPatches
    <2>2. answers' = Append(answers, ans) /\ UNCHANGED <<app, mapping>>
      BY <1>2, <1>4 DEF ApplyPatches
    <2>3. addr \in Bases
      BY <1>2, <1>4 DEF LockInv, TrackerInv, TrackerTypeOK, Mapping
    <2> HIDE DEF addr
    <2>4. /\ after \in [Functions -> Patch]
          /\ \A f \in Functions : after[f].active => after[f].at # None
          /\ \A f \in Functions : patch[m][f].active => after[f].active
      BY <1>2, <2>3, ActivatedFacts DEF LockInv
    <2>5. res \in [targets -> {"ok", "error", "unchanged"}]
      OBVIOUS
    <2> HIDE DEF after, res
    <2>6. ans \in Answer
      BY <1>2, <2>5, OutcomesType DEF Answer, Kinds
    <2> HIDE DEF ans
    <2>7. answers' \in Seq(Answer)
      BY <2>2, <2>6, AppendProperties DEF LockInv, PatchTypeOK
    <2>8. /\ IsFiniteSet(Active(m)) /\ IsFiniteSet(Active(m)') /\ IsFiniteSet(Changed(m, after))
          /\ \A n \in Modules \ {m} : Active(n)' = Active(n)
          /\ Cardinality(Active(m)') = Cardinality(Active(m)) + Cardinality(Changed(m, after))
      BY <1>2, <2>1, <2>4, ActiveCounted DEF LockInv
    <2>9. Cardinality(Active(m)') \in Nat
      BY <2>8, FS_CardinalityType
    <2>10. /\ applied'[m] = Cardinality(Active(m)')
           /\ applied' \in [Modules -> Nat]
           /\ \A n \in Modules \ {m} : applied'[n] = applied[n]
      BY <1>2, <2>1, <2>8, <2>9 DEF AppliedAfter, LockInv, PatchTypeOK, PatchesCounted
    <2>11. /\ pinned' \in [Modules -> BOOLEAN]
           /\ pinned'[m] <=> pinned[m] \/ applied'[m] > 0
           /\ \A n \in Modules \ {m} : pinned'[n] = pinned[n]
      BY <1>2, <2>1 DEF LockInv, PatchTypeOK
    <2>12. /\ patch' \in [Modules -> [Functions -> Patch]]
           /\ patch'[m] = after /\ \A n \in Modules \ {m} : patch'[n] = patch[n]
      BY <1>2, <2>1, <2>4 DEF LockInv, PatchTypeOK, Patch
    <2>13. /\ base'[m] = IF pinned'[m] THEN b ELSE base[m]
           /\ \A n \in Modules \ {m} : base'[n] = base[n]
      BY <1>2, <2>1 DEF LockInv, TrackerInv, TrackerTypeOK
    <2>14. pinned[m] => applied[m] > 0 /\ applied'[m] >= applied[m]
      BY <1>2, <2>8, <2>10, FS_CardinalityType DEF LockInv, PatchesCounted
    <2>15. pinned'[m] <=> applied'[m] > 0
      BY <1>2, <2>10, <2>11, <2>14 DEF LockInv, PatchTypeOK
    <2>16. PatchTypeOK'
      BY <1>0, <2>2, <2>7, <2>10, <2>11, <2>12 DEF LockInv, PatchTypeOK, Patch
    <2>17. PatchesCounted'
      <3> SUFFICES ASSUME NEW n \in Modules
                   PROVE  /\ applied'[n] = Cardinality(Active(n)')
                          /\ pinned'[n] <=> applied'[n] > 0
                          /\ \A f \in Functions : patch'[n][f].active => patch'[n][f].at # None
        BY DEF PatchesCounted, Active
      <3>1. CASE n = m
        BY <3>1, <2>4, <2>10, <2>12, <2>15
      <3>2. CASE n # m
        BY <3>2, <2>8, <2>10, <2>11, <2>12 DEF LockInv, PatchesCounted
      <3> QED BY <3>1, <3>2
    <2>18. PatchedStaysLoaded'
      <3> SUFFICES ASSUME NEW n \in Modules, pinned'[n] PROVE base'[n] # None /\ mapping'[n] # None
        BY DEF PatchedStaysLoaded
      <3>1. CASE n = m
        BY <3>1, <1>4, <2>2, <2>13, NoneAssumption
      <3>2. CASE n # m
        BY <3>2, <2>2, <2>11, <2>13 DEF LockInv, PatchedStaysLoaded
      <3> QED BY <3>1, <3>2
    <2> QED BY <2>16, <2>17, <2>18
  <1> QED BY <1>3, <1>4

LEMMA LockOfRevert ==
    ASSUME LockInv, RevertPatches
    PROVE  PatchTypeOK' /\ PatchesCounted' /\ PatchedStaysLoaded'
  <1>0. Head(requests) \in Request /\ requests' \in Seq(Request)
    BY HeadOf DEF RevertPatches, Asked, LockInv, PatchTypeOK
  <1>2. PICK m \in Modules, targets \in SUBSET Functions : m = Head(requests).module /\ targets = Head(requests).targets
    BY <1>0 DEF Request
  <1> DEFINE after == Reverted(m, targets)
             res == [f \in targets |-> IF f \in Changed(m, after) THEN "ok" ELSE "unchanged"]
             ans == [kind |-> "revert", module |-> m, results |-> res]
  <1>3. /\ patch' = [patch EXCEPT ![m] = after]
        /\ applied' = [applied EXCEPT ![m] = @ - Cardinality(Changed(m, after))]
        /\ pinned' = [pinned EXCEPT ![m] = @ /\ applied'[m] > 0]
        /\ base' = [base EXCEPT ![m] = IF pinned'[m] \/ app[m] THEN @ ELSE None]
        /\ answers' = Append(answers, ans) /\ UNCHANGED <<app, mapping>>
    BY <1>2 DEF RevertPatches
  <1>4. /\ after \in [Functions -> Patch]
        /\ \A f \in Functions : after[f].at = patch[m][f].at
        /\ \A f \in Functions : after[f].active => patch[m][f].active
    BY <1>2, RevertedFacts DEF LockInv
  <1>5. res \in [targets -> {"ok", "error", "unchanged"}]
    OBVIOUS
  <1> HIDE DEF after, res
  <1>6. ans \in Answer
    BY <1>2, <1>5, OutcomesType DEF Answer, Kinds
  <1> HIDE DEF ans
  <1>7. answers' \in Seq(Answer)
    BY <1>3, <1>6, AppendProperties DEF LockInv, PatchTypeOK
  <1>8. /\ IsFiniteSet(Active(m)) /\ IsFiniteSet(Active(m)') /\ IsFiniteSet(Changed(m, after))
        /\ \A n \in Modules \ {m} : Active(n)' = Active(n)
        /\ Cardinality(Active(m)') = Cardinality(Active(m)) - Cardinality(Changed(m, after))
    BY <1>2, <1>3, <1>4, ActiveCounted DEF LockInv
  <1>9. Cardinality(Active(m)') \in Nat
    BY <1>8, FS_CardinalityType
  <1>10. /\ applied'[m] = Cardinality(Active(m)')
         /\ applied' \in [Modules -> Nat]
         /\ \A n \in Modules \ {m} : applied'[n] = applied[n]
    BY <1>2, <1>3, <1>8, <1>9 DEF LockInv, PatchTypeOK, PatchesCounted
  <1>11. /\ pinned' \in [Modules -> BOOLEAN]
         /\ pinned'[m] <=> pinned[m] /\ applied'[m] > 0
         /\ \A n \in Modules \ {m} : pinned'[n] = pinned[n]
    BY <1>2, <1>3 DEF LockInv, PatchTypeOK
  <1>12. /\ patch' \in [Modules -> [Functions -> Patch]]
         /\ patch'[m] = after /\ \A n \in Modules \ {m} : patch'[n] = patch[n]
    BY <1>2, <1>3, <1>4 DEF LockInv, PatchTypeOK, Patch
  <1>13. /\ pinned'[m] => base'[m] = base[m]
         /\ \A n \in Modules \ {m} : base'[n] = base[n]
    BY <1>2, <1>3 DEF LockInv, TrackerInv, TrackerTypeOK
  <1>14. applied'[m] > 0 => applied[m] > 0
    BY <1>2, <1>8, <1>10, FS_CardinalityType DEF LockInv, PatchesCounted
  <1>15. pinned'[m] <=> applied'[m] > 0
    BY <1>2, <1>10, <1>11, <1>14 DEF LockInv, PatchTypeOK, PatchesCounted
  <1>16. PatchTypeOK'
    BY <1>0, <1>3, <1>7, <1>10, <1>11, <1>12 DEF LockInv, PatchTypeOK, Patch
  <1>17. PatchesCounted'
    <2> SUFFICES ASSUME NEW n \in Modules
                 PROVE  /\ applied'[n] = Cardinality(Active(n)')
                        /\ pinned'[n] <=> applied'[n] > 0
                        /\ \A f \in Functions : patch'[n][f].active => patch'[n][f].at # None
      BY DEF PatchesCounted, Active
    <2>1. CASE n = m
      BY <2>1, <1>2, <1>4, <1>10, <1>12, <1>15 DEF LockInv, PatchesCounted
    <2>2. CASE n # m
      BY <2>2, <1>8, <1>10, <1>11, <1>12 DEF LockInv, PatchesCounted
    <2> QED BY <2>1, <2>2
  <1>18. PatchedStaysLoaded'
    BY <1>2, <1>3, <1>11, <1>13 DEF LockInv, PatchedStaysLoaded
  <1> QED BY <1>16, <1>17, <1>18

\* Steps that leave the patches alone keep their count.
LEMMA PatchesKept ==
    ASSUME LockInv, UNCHANGED <<patchVars, pinned>>,
           app' \in [Modules -> BOOLEAN], requests' \in Seq(Request), answers' \in Seq(Answer)
    PROVE  PatchTypeOK' /\ PatchesCounted'
  BY DEF LockInv, PatchTypeOK, PatchesCounted, Active, patchVars

LEMMA LockStep == LockInv /\ [Next]_vars => LockInv'
  <1> SUFFICES ASSUME LockInv, [Next]_vars PROVE PatchTypeOK' /\ PatchesCounted' /\ PatchedStaysLoaded'
    BY TrackerStep DEF LockInv
  <1> USE DEF trackerVars, processVars, reportVars, frontendVars, channelVars, Apart
  <1>0. /\ app \in [Modules -> BOOLEAN] /\ requests \in Seq(Request) /\ answers \in Seq(Answer)
        /\ base \in [Modules -> Bases \cup {None}]
    BY DEF LockInv, PatchTypeOK, TrackerInv, TrackerTypeOK
  <1>a. ASSUME UNCHANGED <<base, mapping, pinned>> PROVE PatchedStaysLoaded'
    BY <1>a DEF LockInv, PatchedStaysLoaded
  <1>1. ASSUME NEW m \in Modules, Load(m) /\ Apart PROVE PatchTypeOK' /\ PatchesCounted' /\ PatchedStaysLoaded'
    <2>1. PICK b \in Bases : base' = [base EXCEPT ![m] = b]
      BY <1>1 DEF Load
    <2>2. PatchedStaysLoaded'
      BY <1>0, <1>1, <2>1, NoneAssumption DEF Load, LockInv, PatchedStaysLoaded
    <2> QED BY <1>0, <1>1, <2>2, PatchesKept DEF Load
  <1>2. ASSUME NEW m \in Modules, Unload(m) /\ Apart PROVE PatchTypeOK' /\ PatchesCounted' /\ PatchedStaysLoaded'
    <2>1. PatchedStaysLoaded'
      BY <1>0, <1>2 DEF Unload, LockInv, PatchedStaysLoaded
    <2> QED BY <1>0, <1>2, <2>1, PatchesKept DEF Unload
  <1>3. ASSUME NEW m \in Modules, RequestMetadata(m) /\ Apart PROVE PatchTypeOK' /\ PatchesCounted' /\ PatchedStaysLoaded'
    BY <1>0, <1>3, <1>a, PatchesKept DEF RequestMetadata
  <1>4. CASE GetChanges /\ Apart
    <2>1. \A n \in Modules : pinned[n] => n \notin New /\ n \notin Gone
      BY DEF LockInv, PatchedStaysLoaded, New, Gone, Snapshot
    <2>2. \A n \in Modules : pinned[n] => mapping'[n] = mapping[n]
      BY <1>4, <2>1 DEF GetChanges, MappingsAfter
    <2>3. PatchedStaysLoaded'
      BY <1>4, <2>2 DEF GetChanges, LockInv, PatchedStaysLoaded
    <2> QED BY <1>0, <1>4, <2>3, PatchesKept DEF GetChanges
  <1>5. CASE Crashed /\ Apart
    BY <1>0, <1>5, <1>a, PatchesKept DEF Crashed
  <1>6. ASSUME NEW m \in Modules, NEW selected \in SUBSET Functions, NEW kind \in Kinds, Ask(kind, m, selected)
        PROVE PatchTypeOK' /\ PatchesCounted' /\ PatchedStaysLoaded'
    <2>1. requests' \in Seq(Request)
      BY <1>0, <1>6, AppendProperties DEF Ask, Request
    <2> QED BY <1>0, <1>6, <2>1, <1>a, PatchesKept DEF Ask
  <1>7. CASE OnAnswer
    <2>1. answers' \in Seq(Answer)
      BY <1>0, <1>7, HeadOf DEF OnAnswer
    <2> QED BY <1>0, <1>7, <2>1, <1>a, PatchesKept DEF OnAnswer
  <1>8. CASE Reconnect
    <2>1. requests' \in Seq(Request) /\ answers' \in Seq(Answer)
      BY <1>8, EmptySeq DEF Reconnect
    <2> QED BY <1>0, <1>8, <2>1, <1>a, PatchesKept DEF Reconnect
  <1>9. CASE ApplyPatches
    BY <1>9, LockOfApply
  <1>10. CASE RevertPatches
    BY <1>10, LockOfRevert
  <1>11. CASE UNCHANGED vars
    BY <1>0, <1>11, <1>a, PatchesKept DEF vars
  <1> QED BY <1>1, <1>2, <1>3, <1>4, <1>5, <1>6, <1>7, <1>8, <1>9, <1>10, <1>11 DEF Next, Kinds

LEMMA LockStart == Init => LockInv
  <1> SUFFICES ASSUME Init PROVE PatchTypeOK /\ PatchesCounted /\ PatchedStaysLoaded
    BY TrackerStart DEF LockInv
  <1>1. requests \in Seq(Request) /\ answers \in Seq(Answer)
    BY EmptySeq DEF Init
  <1>2. patch \in [Modules -> [Functions -> Patch]] /\ \A m \in Modules, f \in Functions : ~patch[m][f].active
    BY DEF Init, Patch
  <1>3. \A m \in Modules : Active(m) = {} /\ Cardinality(Active(m)) = 0
    BY <1>2, FS_EmptySet DEF Active
  <1>4. PatchTypeOK
    BY <1>1, <1>2 DEF Init, TrackerInit, PatchTypeOK, Patch
  <1>5. PatchesCounted
    BY <1>2, <1>3 DEF Init, TrackerInit, PatchesCounted
  <1> QED BY <1>4, <1>5 DEF Init, TrackerInit, PatchedStaysLoaded

\* A module with an active patch is locked, and so stays mapped where it is and
\* is never reported as unloaded; the last patch that is reverted, and no other,
\* gives up the lock.
THEOREM ModulesHeld == Spec => []PatchesHoldModules
  <1>1. LockInv => PatchesHoldModules
    <2> SUFFICES ASSUME LockInv, NEW m \in Modules
                 PROVE  pinned[m] <=> \E f \in Functions : patch[m][f].active
      BY DEF LockInv, PatchesHoldModules, LockFollowsPatches
    <2>1. IsFiniteSet(Active(m))
      BY PatchingAssumption, FS_Subset DEF Active
    <2>2. Cardinality(Active(m)) \in Nat /\ (Cardinality(Active(m)) = 0 <=> Active(m) = {})
      BY <2>1, FS_CardinalityType, FS_EmptySet
    <2>3. pinned[m] <=> Active(m) # {}
      BY <2>2 DEF LockInv, PatchesCounted
    <2> QED BY <2>3 DEF Active
  <1> QED BY <1>1, LockStart, LockStep, PTL DEF Spec

-----------------------------------------------------------------------------
(* The marks of the frontend.                                              *)

Mark == [requested : BOOLEAN, active : BOOLEAN, error : BOOLEAN]
MarkTypeOK == marks \in [Modules -> [Functions -> Mark]] /\ frontends \in Nat \ {0}

AskedFor(i, m, f) == i \in 1..Len(requests) /\ requests[i].module = m /\ f \in requests[i].targets
AnsweredFor(i, m, f) == i \in 1..Len(answers) /\ answers[i].module = m /\ f \in DOMAIN answers[i].results

\* At most one message is under way for a function, and then it is marked.
OneMessage(m, f) ==
    /\ \A i, j \in Nat : AskedFor(i, m, f) /\ AskedFor(j, m, f) => i = j
    /\ \A i, j \in Nat : AnsweredFor(i, m, f) /\ AnsweredFor(j, m, f) => i = j
    /\ \A i, j \in Nat : ~(AskedFor(i, m, f) /\ AnsweredFor(j, m, f))
    /\ \A i \in Nat : AskedFor(i, m, f) \/ AnsweredFor(i, m, f) => marks[m][f].requested

\* What the frontend shows while no request was handled that it has no answer to.
MarkTrue(m, f) ==
    /\ marks[m][f].active => patch[m][f].active
    /\ frontends = 1 => (marks[m][f].active <=> patch[m][f].active)
    /\ frontends = 1 /\ marks[m][f].error => f \in Unpatchable

\* A request asks for the opposite of what its function is marked as.
RequestTrue(m, f) == \A i \in Nat : AskedFor(i, m, f) =>
    /\ MarkTrue(m, f)
    /\ ~marks[m][f].error
    /\ marks[m][f].active <=> requests[i].kind = "revert"

\* An answer tells what the handler did; only applying may not succeed.
AnswerTrue(m, f) == \A i \in Nat : AnsweredFor(i, m, f) =>
    /\ ~marks[m][f].error
    /\ answers[i].results[f] = "ok" => (patch[m][f].active <=> answers[i].kind = "apply")
    /\ answers[i].results[f] # "ok" => MarkTrue(m, f) /\ (frontends = 1 => f \in Unpatchable)

FunctionInv(m, f) ==
    /\ OneMessage(m, f)
    /\ ~crashed => RequestTrue(m, f) /\ AnswerTrue(m, f) /\ (~marks[m][f].requested => MarkTrue(m, f))

MarksInv == LockInv /\ MarkTypeOK /\ \A m \in Modules, f \in Functions : FunctionInv(m, f)

\* A step that neither marks nor patches a function, and at most moves the
\* messages about it forward, keeps what is known of it.
LEMMA Untouched ==
    ASSUME NEW n \in Modules, NEW g \in Functions, FunctionInv(n, g),
           marks'[n][g] = marks[n][g], patch'[n][g] = patch[n][g], frontends' = frontends,
           ~crashed' => ~crashed, NEW d \in Nat, NEW e \in Nat,
           \A i \in Nat : AskedFor(i, n, g)' => AskedFor(i + d, n, g) /\ requests'[i] = requests[i + d],
           \A i \in Nat : AnsweredFor(i, n, g)' => AnsweredFor(i + e, n, g) /\ answers'[i] = answers[i + e]
    PROVE  FunctionInv(n, g)'
  <1>1. OneMessage(n, g)'
    <2>1. \A i, j \in Nat : AskedFor(i, n, g)' /\ AskedFor(j, n, g)' => i = j
      <3> SUFFICES ASSUME NEW i \in Nat, NEW j \in Nat, AskedFor(i, n, g)', AskedFor(j, n, g)' PROVE i = j
        OBVIOUS
      <3>1. AskedFor(i + d, n, g) /\ AskedFor(j + d, n, g) /\ i + d \in Nat /\ j + d \in Nat
        OBVIOUS
      <3>2. i + d = j + d
        BY <3>1 DEF FunctionInv, OneMessage
      <3> QED BY <3>2
    <2>2. \A i, j \in Nat : AnsweredFor(i, n, g)' /\ AnsweredFor(j, n, g)' => i = j
      <3> SUFFICES ASSUME NEW i \in Nat, NEW j \in Nat, AnsweredFor(i, n, g)', AnsweredFor(j, n, g)' PROVE i = j
        OBVIOUS
      <3>1. AnsweredFor(i + e, n, g) /\ AnsweredFor(j + e, n, g) /\ i + e \in Nat /\ j + e \in Nat
        OBVIOUS
      <3>2. i + e = j + e
        BY <3>1 DEF FunctionInv, OneMessage
      <3> QED BY <3>2
    <2>3. \A i, j \in Nat : ~(AskedFor(i, n, g)' /\ AnsweredFor(j, n, g)')
      <3> SUFFICES ASSUME NEW i \in Nat, NEW j \in Nat, AskedFor(i, n, g)', AnsweredFor(j, n, g)' PROVE FALSE
        OBVIOUS
      <3>1. AskedFor(i + d, n, g) /\ AnsweredFor(j + e, n, g) /\ i + d \in Nat /\ j + e \in Nat
        OBVIOUS
      <3> QED BY <3>1 DEF FunctionInv, OneMessage
    <2>4. \A i \in Nat : AskedFor(i, n, g)' \/ AnsweredFor(i, n, g)' => marks'[n][g].requested
      <3> SUFFICES ASSUME NEW i \in Nat, AskedFor(i, n, g)' \/ AnsweredFor(i, n, g)' PROVE marks[n][g].requested
        OBVIOUS
      <3>1. /\ AskedFor(i + d, n, g) \/ AnsweredFor(i + e, n, g)
            /\ i + d \in Nat /\ i + e \in Nat
        OBVIOUS
      <3> QED BY <3>1 DEF FunctionInv, OneMessage
    <2> QED BY <2>1, <2>2, <2>3, <2>4 DEF OneMessage
  <1>2. MarkTrue(n, g) => MarkTrue(n, g)'
    BY DEF MarkTrue
  <1> SUFFICES ASSUME ~crashed' PROVE RequestTrue(n, g)' /\ AnswerTrue(n, g)' /\ (~marks'[n][g].requested => MarkTrue(n, g)')
    BY <1>1 DEF FunctionInv
  <1>3. RequestTrue(n, g) /\ AnswerTrue(n, g) /\ (~marks[n][g].requested => MarkTrue(n, g))
    BY DEF FunctionInv
  <1>4. RequestTrue(n, g)'
    <2> SUFFICES ASSUME NEW i \in Nat, AskedFor(i, n, g)'
                 PROVE  /\ MarkTrue(n, g)' /\ ~marks'[n][g].error
                        /\ marks'[n][g].active <=> requests'[i].kind = "revert"
      BY DEF RequestTrue
    <2>1. AskedFor(i + d, n, g) /\ requests'[i] = requests[i + d] /\ i + d \in Nat
      OBVIOUS
    <2> QED BY <1>2, <1>3, <2>1 DEF RequestTrue
  <1>5. AnswerTrue(n, g)'
    <2> SUFFICES ASSUME NEW i \in Nat, AnsweredFor(i, n, g)'
                 PROVE  /\ ~marks'[n][g].error
                        /\ answers'[i].results[g] = "ok" => (patch'[n][g].active <=> answers'[i].kind = "apply")
                        /\ answers'[i].results[g] # "ok" => MarkTrue(n, g)' /\ (frontends' = 1 => g \in Unpatchable)
      BY DEF AnswerTrue
    <2>1. AnsweredFor(i + e, n, g) /\ answers'[i] = answers[i + e] /\ i + e \in Nat
      OBVIOUS
    <2> QED BY <1>2, <1>3, <2>1 DEF AnswerTrue
  <1> QED BY <1>2, <1>3, <1>4, <1>5

\* Messages stay as they are, but for one more at the end and one less at the front.
LEMMA AskedBefore ==
    ASSUME NEW n \in Modules, NEW g \in Functions, requests \in Seq(Request)
    PROVE  /\ requests' = requests => \A i \in Nat : AskedFor(i, n, g)' => AskedFor(i + 0, n, g) /\ requests'[i] = requests[i + 0]
           /\ requests # <<>> /\ requests' = Tail(requests)
                => \A i \in Nat : AskedFor(i, n, g)' => AskedFor(i + 1, n, g) /\ requests'[i] = requests[i + 1]
           /\ \A q \in Request : requests' = Append(requests, q) =>
                /\ \A i \in Nat : AskedFor(i, n, g)' /\ i # Len(requests) + 1 => AskedFor(i + 0, n, g) /\ requests'[i] = requests[i + 0]
                /\ requests'[Len(requests) + 1] = q
                /\ \A k \in Nat : k = Len(requests) + 1 => (AskedFor(k, n, g)' <=> q.module = n /\ g \in q.targets)
  <1>0. Len(requests) \in Nat
    BY LenProperties
  <1>1. ASSUME requests' = requests, NEW i \in Nat, AskedFor(i, n, g)' PROVE AskedFor(i + 0, n, g) /\ requests'[i] = requests[i + 0]
    <2>1. i + 0 = i
      OBVIOUS
    <2> QED BY <1>1, <2>1 DEF AskedFor
  <1>2. ASSUME requests # <<>>, requests' = Tail(requests), NEW i \in Nat, AskedFor(i, n, g)'
        PROVE  AskedFor(i + 1, n, g) /\ requests'[i] = requests[i + 1]
    BY <1>0, <1>2, HeadOf DEF AskedFor
  <1>3. ASSUME NEW q \in Request, requests' = Append(requests, q)
        PROVE  /\ \A i \in Nat : AskedFor(i, n, g)' /\ i # Len(requests) + 1 => AskedFor(i + 0, n, g) /\ requests'[i] = requests[i + 0]
               /\ requests'[Len(requests) + 1] = q
               /\ \A k \in Nat : k = Len(requests) + 1 => (AskedFor(k, n, g)' <=> q.module = n /\ g \in q.targets)
    <2>1. /\ Len(requests') = Len(requests) + 1
          /\ requests'[Len(requests) + 1] = q
          /\ \A i \in 1..Len(requests) : requests'[i] = requests[i]
      BY <1>3, AppendProperties
    <2>2. ASSUME NEW i \in Nat, AskedFor(i, n, g)', i # Len(requests) + 1
          PROVE  AskedFor(i + 0, n, g) /\ requests'[i] = requests[i + 0]
      <3>1. i + 0 = i /\ i \in 1..Len(requests)
        BY <1>0, <2>1, <2>2 DEF AskedFor
      <3> QED BY <2>1, <2>2, <3>1 DEF AskedFor
    <2>3. Len(requests) + 1 \in 1..Len(requests')
      BY <1>0, <2>1
    <2>4. \A k \in Nat : k = Len(requests) + 1 => (AskedFor(k, n, g)' <=> q.module = n /\ g \in q.targets)
      BY <2>1, <2>3 DEF AskedFor
    <2> QED BY <2>1, <2>2, <2>4
  <1> QED BY <1>1, <1>2, <1>3

LEMMA AnsweredBefore ==
    ASSUME NEW n \in Modules, NEW g \in Functions, answers \in Seq(Answer)
    PROVE  /\ answers' = answers => \A i \in Nat : AnsweredFor(i, n, g)' => AnsweredFor(i + 0, n, g) /\ answers'[i] = answers[i + 0]
           /\ answers # <<>> /\ answers' = Tail(answers)
                => \A i \in Nat : AnsweredFor(i, n, g)' => AnsweredFor(i + 1, n, g) /\ answers'[i] = answers[i + 1]
           /\ \A a \in Answer : answers' = Append(answers, a) =>
                /\ \A i \in Nat : AnsweredFor(i, n, g)' /\ i # Len(answers) + 1 => AnsweredFor(i + 0, n, g) /\ answers'[i] = answers[i + 0]
                /\ answers'[Len(answers) + 1] = a
                /\ \A k \in Nat : k = Len(answers) + 1 => (AnsweredFor(k, n, g)' <=> a.module = n /\ g \in DOMAIN a.results)
  <1>0. Len(answers) \in Nat
    BY LenProperties
  <1>1. ASSUME answers' = answers, NEW i \in Nat, AnsweredFor(i, n, g)' PROVE AnsweredFor(i + 0, n, g) /\ answers'[i] = answers[i + 0]
    <2>1. i + 0 = i
      OBVIOUS
    <2> QED BY <1>1, <2>1 DEF AnsweredFor
  <1>2. ASSUME answers # <<>>, answers' = Tail(answers), NEW i \in Nat, AnsweredFor(i, n, g)'
        PROVE  AnsweredFor(i + 1, n, g) /\ answers'[i] = answers[i + 1]
    BY <1>0, <1>2, HeadOf DEF AnsweredFor
  <1>3. ASSUME NEW a \in Answer, answers' = Append(answers, a)
        PROVE  /\ \A i \in Nat : AnsweredFor(i, n, g)' /\ i # Len(answers) + 1 => AnsweredFor(i + 0, n, g) /\ answers'[i] = answers[i + 0]
               /\ answers'[Len(answers) + 1] = a
               /\ \A k \in Nat : k = Len(answers) + 1 => (AnsweredFor(k, n, g)' <=> a.module = n /\ g \in DOMAIN a.results)
    <2>1. /\ Len(answers') = Len(answers) + 1
          /\ answers'[Len(answers) + 1] = a
          /\ \A i \in 1..Len(answers) : answers'[i] = answers[i]
      BY <1>3, AppendProperties
    <2>2. ASSUME NEW i \in Nat, AnsweredFor(i, n, g)', i # Len(answers) + 1
          PROVE  AnsweredFor(i + 0, n, g) /\ answers'[i] = answers[i + 0]
      <3>1. i + 0 = i /\ i \in 1..Len(answers)
        BY <1>0, <2>1, <2>2 DEF AnsweredFor
      <3> QED BY <2>1, <2>2, <3>1 DEF AnsweredFor
    <2>3. Len(answers) + 1 \in 1..Len(answers')
      BY <1>0, <2>1
    <2>4. \A k \in Nat : k = Len(answers) + 1 => (AnsweredFor(k, n, g)' <=> a.module = n /\ g \in DOMAIN a.results)
      BY <2>1, <2>3 DEF AnsweredFor
    <2> QED BY <2>1, <2>2, <2>4
  <1> QED BY <1>1, <1>2, <1>3

\* A step that leaves marks, patches and messages alone.
LEMMA MarksKept ==
    ASSUME MarksInv, UNCHANGED <<marks, patch, frontends, requests, answers>>, ~crashed' => ~crashed,
           NEW n \in Modules, NEW g \in Functions
    PROVE  FunctionInv(n, g)'
  <1>1. /\ \A i \in Nat : AskedFor(i, n, g)' => AskedFor(i + 0, n, g) /\ requests'[i] = requests[i + 0]
        /\ \A i \in Nat : AnsweredFor(i, n, g)' => AnsweredFor(i + 0, n, g) /\ answers'[i] = answers[i + 0]
    BY AskedBefore, AnsweredBefore DEF MarksInv, LockInv, PatchTypeOK
  <1>2. FunctionInv(n, g) /\ 0 \in Nat
    BY DEF MarksInv
  <1> QED BY <1>1, <1>2, Untouched

LEMMA MarksOfAsk ==
    ASSUME MarksInv, NEW m \in Modules, NEW selected \in SUBSET Functions, NEW kind \in Kinds, Ask(kind, m, selected)
    PROVE  MarkTypeOK' /\ \A n \in Modules, g \in Functions : FunctionInv(n, g)'
  <1>1. PICK targets \in SUBSET Functions : targets = {f \in selected : Requestable(marks[m][f], kind = "revert")}
    OBVIOUS
  <1>2. PICK q \in Request : q = [kind |-> kind, module |-> m, targets |-> targets]
    BY DEF Request
  <1>3. /\ marks' = [marks EXCEPT ![m] = [f \in Functions |->
                            [marks[m][f] EXCEPT !.requested = marks[m][f].requested \/ f \in targets]]]
        /\ requests' = Append(requests, q)
        /\ UNCHANGED <<patch, frontends, answers, crashed>>
    BY <1>1, <1>2 DEF Ask, trackerVars, patchVars
  <1>4. \A n \in Modules, g \in Functions : marks[n][g] \in Mark
    BY DEF MarksInv, MarkTypeOK
  <1>a. ASSUME NEW g \in Functions
        PROVE  marks'[m][g] = [marks[m][g] EXCEPT !.requested = marks[m][g].requested \/ g \in targets]
    <2> DEFINE now == [f \in Functions |-> [marks[m][f] EXCEPT !.requested = marks[m][f].requested \/ f \in targets]]
    <2>1. marks' = [marks EXCEPT ![m] = now]
      BY <1>3
    <2>2. marks'[m] = now
      <3> HIDE DEF now
      <3> QED BY <2>1 DEF MarksInv, MarkTypeOK
    <2>3. now[g] = [marks[m][g] EXCEPT !.requested = marks[m][g].requested \/ g \in targets]
      BY Zenon
    <2> QED BY <2>2, <2>3, Zenon
  <1>5. \A n \in Modules, g \in Functions : ~(n = m /\ g \in targets) => marks'[n][g] = marks[n][g]
    <2>1. ASSUME NEW k \in Mark PROVE [k EXCEPT !.requested = k.requested \/ FALSE] = k
      <3>1. (k.requested \/ FALSE) = k.requested
        BY DEF Mark
      <3>2. [k EXCEPT !.requested = k.requested] = k
        BY DEF Mark
      <3> QED BY <3>1, <3>2
    <2>2. ASSUME NEW g \in Functions, g \notin targets PROVE marks'[m][g] = marks[m][g]
      <3>1. marks'[m][g] = [marks[m][g] EXCEPT !.requested = marks[m][g].requested \/ g \in targets]
        BY <1>a
      <3>2. (g \in targets) = FALSE
        BY <2>2
      <3>3. marks'[m][g] = [marks[m][g] EXCEPT !.requested = marks[m][g].requested \/ FALSE]
        BY <3>1, <3>2, Zenon
      <3> QED BY <3>3, <1>4, <2>1
    <2>3. \A n \in Modules : n # m => marks'[n] = marks[n]
      BY <1>3, Zenon DEF MarksInv, MarkTypeOK
    <2> QED BY <2>2, <2>3
  <1>6. ASSUME NEW g \in Functions, g \in targets
        PROVE  /\ marks'[m][g] \in Mark /\ marks'[m][g].requested
               /\ marks'[m][g].active = marks[m][g].active /\ marks'[m][g].error = marks[m][g].error
    <2>1. marks'[m][g] = [marks[m][g] EXCEPT !.requested = marks[m][g].requested \/ g \in targets]
      BY <1>a
    <2>2. (marks[m][g].requested \/ g \in targets) = TRUE
      BY <1>6, Zenon
    <2>3. marks'[m][g] = [marks[m][g] EXCEPT !.requested = TRUE]
      BY <2>1, <2>2, Zenon
    <2> QED BY <2>3, <1>4 DEF Mark
  <1>7. MarkTypeOK'
    <2>1. \A n \in Modules, g \in Functions : marks'[n][g] \in Mark
      BY <1>4, <1>5, <1>6
    <2>2. marks' \in [Modules -> [Functions -> Mark]]
      <3>1. marks' = [n \in Modules |-> marks'[n]] /\ \A n \in Modules : marks'[n] = [g \in Functions |-> marks'[n][g]]
        BY <1>3 DEF MarksInv, MarkTypeOK
      <3> QED BY <2>1, <3>1
    <2> QED BY <1>3, <2>2 DEF MarksInv, MarkTypeOK
  <1>8. ASSUME NEW n \in Modules, NEW g \in Functions PROVE FunctionInv(n, g)'
    <2>0. FunctionInv(n, g) /\ Len(requests) \in Nat
      BY LenProperties DEF MarksInv, LockInv, PatchTypeOK
    <2>1. \A i \in Nat : AnsweredFor(i, n, g)' => AnsweredFor(i + 0, n, g) /\ answers'[i] = answers[i + 0]
      BY <1>3, AnsweredBefore DEF MarksInv, LockInv, PatchTypeOK
    <2>2. /\ \A i \in Nat : AskedFor(i, n, g)' /\ i # Len(requests) + 1 => AskedFor(i + 0, n, g) /\ requests'[i] = requests[i + 0]
          /\ requests'[Len(requests) + 1] = q
          /\ \A k \in Nat : k = Len(requests) + 1 => (AskedFor(k, n, g)' <=> n = m /\ g \in targets)
      <3>1. /\ \A i \in Nat : AskedFor(i, n, g)' /\ i # Len(requests) + 1 => AskedFor(i + 0, n, g) /\ requests'[i] = requests[i + 0]
            /\ requests'[Len(requests) + 1] = q
            /\ \A k \in Nat : k = Len(requests) + 1 => (AskedFor(k, n, g)' <=> q.module = n /\ g \in q.targets)
        BY <1>3, AskedBefore DEF MarksInv, LockInv, PatchTypeOK
      <3>2. q.module = m /\ q.targets = targets
        BY <1>2
      <3> QED BY <3>1, <3>2
    <2>3. CASE ~(n = m /\ g \in targets)
      <3>1. marks'[n][g] = marks[n][g]
        BY <2>3, <1>5
      <3>2. \A i \in Nat : AskedFor(i, n, g)' => AskedFor(i + 0, n, g) /\ requests'[i] = requests[i + 0]
        BY <2>2, <2>3
      <3>3. 0 \in Nat /\ patch'[n][g] = patch[n][g] /\ frontends' = frontends /\ (~crashed' => ~crashed)
        BY <1>3
      <3> QED BY <2>0, <2>1, <3>1, <3>2, <3>3, Untouched
    <2>4. CASE n = m /\ g \in targets
      <3>1. ~marks[n][g].requested /\ ~marks[n][g].error /\ (marks[n][g].active <=> kind = "revert")
        BY <2>4, <1>1, <1>4 DEF Requestable, Mark
      <3>2. marks'[n][g].requested /\ ~marks'[n][g].error /\ (marks'[n][g].active <=> marks[n][g].active)
        BY <2>4, <3>1, <1>6
      <3>3. /\ \A i \in Nat : ~AnsweredFor(i, n, g)'
            /\ \A i \in Nat : AskedFor(i, n, g)' => i = Len(requests) + 1
        <4>1. \A i \in Nat : ~AskedFor(i, n, g) /\ ~AnsweredFor(i, n, g) /\ i + 0 \in Nat
          BY <2>0, <3>1 DEF FunctionInv, OneMessage
        <4> QED BY <2>1, <2>2, <4>1
      <3>4. OneMessage(n, g)'
        BY <3>2, <3>3 DEF OneMessage
      <3>5. ASSUME ~crashed' PROVE RequestTrue(n, g)' /\ AnswerTrue(n, g)'
        <4>1. MarkTrue(n, g)
          BY <1>3, <2>0, <3>1, <3>5 DEF FunctionInv
        <4>2. MarkTrue(n, g)'
          BY <1>3, <3>1, <3>2, <4>1 DEF MarkTrue
        <4>3. requests'[Len(requests) + 1].kind = kind
          BY <1>2, <2>2
        <4>4. AnswerTrue(n, g)'
          BY <3>3 DEF AnswerTrue
        <4>5. RequestTrue(n, g)'
          BY <3>1, <3>2, <3>3, <4>2, <4>3 DEF RequestTrue
        <4> QED BY <4>4, <4>5
      <3> QED BY <3>2, <3>4, <3>5 DEF FunctionInv
    <2> QED BY <2>3, <2>4
  <1> QED BY <1>7, <1>8

LEMMA MarksOfAnswer ==
    ASSUME MarksInv, OnAnswer
    PROVE  MarkTypeOK' /\ \A n \in Modules, g \in Functions : FunctionInv(n, g)'
  <1>1. PICK a \in Answer : a = Head(answers)
    BY HeadOf DEF OnAnswer, MarksInv, LockInv, PatchTypeOK
  <1>2. /\ marks' = [marks EXCEPT ![a.module] = [f \in Functions |-> IF f \in DOMAIN a.results
                                         THEN SetComplete(@[f], a.results[f], a.kind = "apply")
                                         ELSE @[f]]]
        /\ answers # <<>> /\ answers' = Tail(answers)
        /\ UNCHANGED <<patch, frontends, requests, crashed>>
    BY <1>1 DEF OnAnswer, trackerVars, patchVars
  <1>3. \A n \in Modules, g \in Functions : marks[n][g] \in Mark
    BY DEF MarksInv, MarkTypeOK
  <1>b. PICK b \in BOOLEAN : b = (a.kind = "apply")
    OBVIOUS
  <1>4. \A n \in Modules, g \in Functions :
            /\ n = a.module /\ g \in DOMAIN a.results => marks'[n][g] = SetComplete(marks[n][g], a.results[g], b)
            /\ ~(n = a.module /\ g \in DOMAIN a.results) => marks'[n][g] = marks[n][g]
    <2>1. marks' = [marks EXCEPT ![a.module] = [f \in Functions |-> IF f \in DOMAIN a.results
                                         THEN SetComplete(marks[a.module][f], a.results[f], b)
                                         ELSE marks[a.module][f]]]
      BY <1>2, <1>b, Zenon
    <2> QED BY <2>1 DEF MarksInv, MarkTypeOK
  <1>5. ASSUME NEW k \in Mark, NEW r
        PROVE  /\ SetComplete(k, r, b) \in Mark /\ ~SetComplete(k, r, b).requested
               /\ r = "ok" => (SetComplete(k, r, b).active <=> b) /\ (SetComplete(k, r, b).error <=> k.error)
               /\ r # "ok" => (SetComplete(k, r, b).active <=> k.active) /\ SetComplete(k, r, b).error
    <2>1. CASE r = "ok"
      BY <2>1 DEF SetComplete, Mark
    <2>2. CASE r # "ok"
      BY <2>2 DEF SetComplete, Mark
    <2> QED BY <2>1, <2>2
  <1>6. MarkTypeOK'
    <2>1. \A n \in Modules, g \in Functions : marks'[n][g] \in Mark
      BY <1>3, <1>4, <1>5
    <2>2. marks' \in [Modules -> [Functions -> Mark]]
      <3>1. marks' = [n \in Modules |-> marks'[n]] /\ \A n \in Modules : marks'[n] = [g \in Functions |-> marks'[n][g]]
        BY <1>2 DEF MarksInv, MarkTypeOK
      <3> QED BY <2>1, <3>1
    <2> QED BY <1>2, <2>2 DEF MarksInv, MarkTypeOK
  <1>7. ASSUME NEW n \in Modules, NEW g \in Functions PROVE FunctionInv(n, g)'
    <2>0. FunctionInv(n, g)
      BY DEF MarksInv
    <2>1. \A i \in Nat : AskedFor(i, n, g)' => AskedFor(i + 0, n, g) /\ requests'[i] = requests[i + 0]
      BY <1>2, AskedBefore DEF MarksInv, LockInv, PatchTypeOK
    <2>2. \A i \in Nat : AnsweredFor(i, n, g)' => AnsweredFor(i + 1, n, g) /\ answers'[i] = answers[i + 1]
      BY <1>2, AnsweredBefore DEF MarksInv, LockInv, PatchTypeOK
    <2>3. answers[1] = a /\ 1 \in 1..Len(answers)
      BY <1>1, <1>2, HeadOf DEF MarksInv, LockInv, PatchTypeOK
    <2>4. CASE ~(n = a.module /\ g \in DOMAIN a.results)
      <3>1. marks'[n][g] = marks[n][g] /\ patch'[n][g] = patch[n][g] /\ frontends' = frontends /\ (~crashed' => ~crashed)
        BY <2>4, <1>2, <1>4
      <3>2. 0 \in Nat /\ 1 \in Nat
        OBVIOUS
      <3> QED BY <2>0, <2>1, <2>2, <3>1, <3>2, Untouched
    <2>5. CASE n = a.module /\ g \in DOMAIN a.results
      <3>1. AnsweredFor(1, n, g)
        BY <2>3, <2>5 DEF AnsweredFor
      <3>2. \A i \in Nat : ~AskedFor(i, n, g)' /\ ~AnsweredFor(i, n, g)'
        <4>1. \A i \in Nat : AnsweredFor(i, n, g)' => i + 1 = 1
          <5> SUFFICES ASSUME NEW i \in Nat, AnsweredFor(i, n, g)' PROVE i + 1 = 1
            OBVIOUS
          <5>1. AnsweredFor(i + 1, n, g) /\ i + 1 \in Nat /\ 1 \in Nat
            BY <2>2
          <5> QED BY <2>0, <3>1, <5>1 DEF FunctionInv, OneMessage
        <4>2. \A i \in Nat : AnsweredFor(i, n, g)' => i \in 1..Len(answers')
          BY DEF AnsweredFor
        <4>3. \A i \in Nat : ~AskedFor(i + 0, n, g)
          <5> SUFFICES ASSUME NEW i \in Nat PROVE ~AskedFor(i + 0, n, g)
            OBVIOUS
          <5>1. i + 0 \in Nat /\ 1 \in Nat
            OBVIOUS
          <5> QED BY <2>0, <3>1, <5>1 DEF FunctionInv, OneMessage
        <4> QED BY <2>1, <4>1, <4>2, <4>3
      <3>3. ~marks'[n][g].requested
        BY <2>5, <1>3, <1>4, <1>5
      <3>4. ASSUME ~crashed' PROVE MarkTrue(n, g)'
        <4>1. /\ ~marks[n][g].error
              /\ a.results[g] = "ok" => (patch[n][g].active <=> a.kind = "apply")
              /\ a.results[g] # "ok" => MarkTrue(n, g) /\ (frontends = 1 => g \in Unpatchable)
          <5>1. AnswerTrue(n, g) /\ 1 \in Nat
            BY <1>2, <2>0, <3>4 DEF FunctionInv
          <5> QED BY <2>3, <3>1, <5>1 DEF AnswerTrue
        <4>2. marks'[n][g] = SetComplete(marks[n][g], a.results[g], b)
          BY <2>5, <1>4
        <4>3. CASE a.results[g] = "ok"
          <5>1. (marks'[n][g].active <=> b) /\ ~marks'[n][g].error
            BY <4>1, <4>2, <4>3, <1>3, <1>5
          <5>2. b <=> a.kind = "apply"
            BY <1>b
          <5> QED BY <1>2, <4>1, <4>3, <5>1, <5>2 DEF MarkTrue
        <4>4. CASE a.results[g] # "ok"
          <5>1. marks'[n][g].active <=> marks[n][g].active
            BY <4>2, <4>4, <1>3, <1>5
          <5> QED BY <1>2, <4>1, <4>4, <5>1 DEF MarkTrue
        <4> QED BY <4>3, <4>4
      <3> QED BY <3>2, <3>3, <3>4 DEF FunctionInv, OneMessage, RequestTrue, AnswerTrue
    <2> QED BY <2>4, <2>5
  <1> QED BY <1>6, <1>7

LEMMA MarksOfReconnect ==
    ASSUME MarksInv, Reconnect
    PROVE  MarkTypeOK' /\ \A n \in Modules, g \in Functions : FunctionInv(n, g)'
  <1>1. NoMark \in Mark /\ ~NoMark.active /\ ~NoMark.error /\ ~NoMark.requested
    BY DEF NoMark, Mark
  <1>2. marks' \in [Modules -> [Functions -> Mark]] /\ \A n \in Modules, g \in Functions : marks'[n][g] = NoMark
    BY <1>1 DEF Reconnect, NoMarks
  <1>3. frontends' \in Nat \ {0} /\ frontends' # 1
    BY DEF Reconnect, MarksInv, MarkTypeOK
  <1>4. ASSUME NEW n \in Modules, NEW g \in Functions PROVE FunctionInv(n, g)'
    <2>1. Len(requests') = 0 /\ Len(answers') = 0
      BY DEF Reconnect
    <2>2. \A i \in Nat : ~AskedFor(i, n, g)' /\ ~AnsweredFor(i, n, g)'
      BY <2>1 DEF AskedFor, AnsweredFor
    <2>3. MarkTrue(n, g)'
      BY <1>1, <1>2, <1>3 DEF MarkTrue
    <2> QED BY <2>2, <2>3 DEF FunctionInv, OneMessage, RequestTrue, AnswerTrue
  <1> QED BY <1>2, <1>3, <1>4 DEF MarkTypeOK

\* A handler that ends in a crash has taken its request.
LEMMA RequestTaken ==
    ASSUME MarksInv, requests # <<>>, requests' = Tail(requests), UNCHANGED <<marks, answers>>, crashed',
           NEW n \in Modules, NEW g \in Functions
    PROVE  FunctionInv(n, g)'
  <1>1. /\ \A i \in Nat : AskedFor(i, n, g)' => AskedFor(i + 1, n, g)
        /\ \A i \in Nat : AnsweredFor(i, n, g)' => AnsweredFor(i, n, g)
    <2>1. \A i \in Nat : AskedFor(i, n, g)' => AskedFor(i + 1, n, g)
      BY AskedBefore DEF MarksInv, LockInv, PatchTypeOK
    <2> QED BY <2>1 DEF AnsweredFor
  <1>2. OneMessage(n, g)
    BY DEF MarksInv, FunctionInv
  <1>3. \A i \in Nat : i + 1 \in Nat
    OBVIOUS
  <1>4. \A i, j \in Nat : i + 1 = j + 1 => i = j
    OBVIOUS
  <1>5. OneMessage(n, g)'
    BY <1>1, <1>2, <1>3, <1>4 DEF OneMessage
  <1> QED BY <1>5 DEF FunctionInv

\* What a handler does for a function: it takes the request and answers it.
LEMMA RequestHandled ==
    ASSUME MarksInv, NEW kind \in Kinds, NEW m \in Modules, NEW targets \in SUBSET Functions,
           requests # <<>>, Head(requests) = [kind |-> kind, module |-> m, targets |-> targets],
           requests' = Tail(requests), NEW res, DOMAIN res = targets,
           NEW a \in Answer, a.kind = kind, a.module = m, a.results = res,
           answers' = Append(answers, a),
           UNCHANGED <<marks, frontends>>, ~crashed' => ~crashed,
           \A n \in Modules, g \in Functions : ~(n = m /\ g \in targets) => patch'[n][g] = patch[n][g],
           \A g \in targets : ~crashed /\ MarkTrue(m, g) /\ (marks[m][g].active <=> kind = "revert") /\ ~marks[m][g].error =>
                /\ res[g] = "ok" => (patch'[m][g].active <=> kind = "apply")
                /\ res[g] # "ok" => MarkTrue(m, g)' /\ (frontends = 1 => g \in Unpatchable),
           NEW n \in Modules, NEW g \in Functions
    PROVE  FunctionInv(n, g)'
  <1>0. FunctionInv(n, g)
    BY DEF MarksInv
  <1>1. \A i \in Nat : AskedFor(i, n, g)' => AskedFor(i + 1, n, g) /\ requests'[i] = requests[i + 1]
    BY AskedBefore DEF MarksInv, LockInv, PatchTypeOK
  <1>2. /\ \A i \in Nat : AnsweredFor(i, n, g)' /\ i # Len(answers) + 1 => AnsweredFor(i + 0, n, g) /\ answers'[i] = answers[i + 0]
        /\ answers'[Len(answers) + 1] = a
        /\ \A k \in Nat : k = Len(answers) + 1 => (AnsweredFor(k, n, g)' <=> a.module = n /\ g \in DOMAIN a.results)
    <2>1. answers \in Seq(Answer)
      BY DEF MarksInv, LockInv, PatchTypeOK
    <2>2. answers' = Append(answers, a) /\ a \in Answer
      OBVIOUS
    <2> QED BY <2>1, <2>2, AnsweredBefore
  <1>3. a.module = m /\ a.kind = kind /\ a.results = res /\ Len(answers) \in Nat
    <2>1. a.module = m /\ a.kind = kind /\ a.results = res
      OBVIOUS
    <2>2. Len(answers) \in Nat
      BY LenProperties DEF MarksInv, LockInv, PatchTypeOK
    <2> QED BY <2>1, <2>2
  <1>4. CASE ~(n = m /\ g \in targets)
    <2>1. \A i \in Nat : AnsweredFor(i, n, g)' => AnsweredFor(i + 0, n, g) /\ answers'[i] = answers[i + 0]
      BY <1>2, <1>3, <1>4
    <2>2. 0 \in Nat /\ 1 \in Nat /\ marks'[n][g] = marks[n][g] /\ patch'[n][g] = patch[n][g] /\ frontends' = frontends
      BY <1>4
    <2> QED BY <1>0, <1>1, <2>1, <2>2, Untouched
  <1>5. CASE n = m /\ g \in targets
    <2>1. AskedFor(1, n, g) /\ 1 \in Nat /\ requests[1].kind = kind
      <3>0. Head(requests) = requests[1] /\ Len(requests) \in Nat /\ Len(requests) >= 1
        BY HeadOf DEF MarksInv, LockInv, PatchTypeOK
      <3>1. requests[1] = [kind |-> kind, module |-> m, targets |-> targets] /\ 1 \in 1..Len(requests)
        BY <3>0
      <3> QED BY <1>5, <3>1 DEF AskedFor
    <2>2. \A i \in Nat : ~AskedFor(i, n, g)'
      <3> SUFFICES ASSUME NEW i \in Nat, AskedFor(i, n, g)' PROVE FALSE
        OBVIOUS
      <3>1. AskedFor(i + 1, n, g) /\ i + 1 \in Nat
        BY <1>1
      <3>2. i + 1 = 1
        BY <1>0, <2>1, <3>1 DEF FunctionInv, OneMessage
      <3>3. i \in 1..Len(requests')
        BY DEF AskedFor
      <3> QED BY <3>2, <3>3
    <2>3. \A i \in Nat : AnsweredFor(i, n, g)' => i = Len(answers) + 1
      <3> SUFFICES ASSUME NEW i \in Nat, AnsweredFor(i, n, g)', i # Len(answers) + 1 PROVE FALSE
        OBVIOUS
      <3>1. AnsweredFor(i + 0, n, g) /\ i + 0 \in Nat
        BY <1>2
      <3> QED BY <1>0, <2>1, <3>1 DEF FunctionInv, OneMessage
    <2>4. marks[n][g].requested
      BY <1>0, <2>1 DEF FunctionInv, OneMessage
    <2>5. OneMessage(n, g)'
      BY <2>2, <2>3, <2>4 DEF OneMessage
    <2>6. RequestTrue(n, g)'
      BY <2>2 DEF RequestTrue
    <2>7. ASSUME ~crashed' PROVE AnswerTrue(n, g)'
      <3>1. MarkTrue(n, g) /\ ~marks[n][g].error /\ (marks[n][g].active <=> kind = "revert")
        BY <1>0, <2>1, <2>7 DEF FunctionInv, RequestTrue
      <3>2. /\ res[g] = "ok" => (patch'[n][g].active <=> kind = "apply")
            /\ res[g] # "ok" => MarkTrue(n, g)' /\ (frontends = 1 => g \in Unpatchable)
        BY <1>5, <2>7, <3>1
      <3> QED BY <1>2, <1>3, <2>3, <3>1, <3>2 DEF AnswerTrue
    <2> QED BY <2>4, <2>5, <2>6, <2>7 DEF FunctionInv
  <1> QED BY <1>4, <1>5

LEMMA MarksOfApply ==
    ASSUME MarksInv, ApplyPatches
    PROVE  MarkTypeOK' /\ \A n \in Modules, g \in Functions : FunctionInv(n, g)'
  <1>1. /\ requests # <<>> /\ ~crashed /\ requests' = Tail(requests) /\ UNCHANGED <<marks, frontends>>
        /\ Head(requests) \in Request /\ Head(requests).kind = "apply"
    BY HeadOf DEF ApplyPatches, Asked, frontendVars, MarksInv, LockInv, PatchTypeOK
  <1>2. PICK m \in Modules, targets \in SUBSET Functions :
            Head(requests) = [kind |-> "apply", module |-> m, targets |-> targets]
    BY <1>1 DEF Request
  <1>h. Head(requests).module = m /\ Head(requests).targets = targets
    BY <1>2
  <1>3. MarkTypeOK'
    BY <1>1 DEF MarksInv, MarkTypeOK
  <1>4. CASE mapping[m] = None
    <2>1. crashed' /\ UNCHANGED answers
      BY <1>h, <1>4 DEF ApplyPatches
    <2> QED BY <1>1, <1>3, <2>1, RequestTaken
  <1>5. CASE mapping[m] # None
    <2>1. PICK addr \in Bases : addr = mapping[m].base
      BY <1>5 DEF MarksInv, LockInv, TrackerInv, TrackerTypeOK, Mapping
    <2>2. PICK after \in [Functions -> Patch] : after = Activated(m, targets, addr)
      BY ActivatedFacts DEF MarksInv, LockInv
    <2>3. PICK res : res = [f \in targets |-> IF f \in Changed(m, after) THEN "ok"
                                             ELSE IF after[f].at = None THEN "error" ELSE "unchanged"]
      OBVIOUS
    <2>4. res \in [targets -> {"ok", "error", "unchanged"}]
      BY <2>3
    <2>5. PICK a \in Answer : a = [kind |-> "apply", module |-> m, results |-> res]
      BY <2>4, OutcomesType DEF Answer, Kinds
    <2>6. patch' = [patch EXCEPT ![m] = after] /\ answers' = Append(answers, a)
      BY <1>h, <1>5, <2>1, <2>2, <2>3, <2>5 DEF ApplyPatches
    <2>7. patch'[m] = after /\ \A n \in Modules : n # m => patch'[n] = patch[n]
      BY <2>6 DEF MarksInv, LockInv, PatchTypeOK
    <2>8. /\ \A g \in Functions : g \notin targets => after[g] = patch[m][g]
          /\ \A g \in targets : after[g].active <=> after[g].at # None
          /\ \A g \in targets : after[g].at = IF patch[m][g].at # None THEN patch[m][g].at
                                              ELSE IF g \in Unpatchable THEN None ELSE addr
          /\ \A g \in targets : patch[m][g].active => after[g].active
      BY <2>2, ActivatedFacts DEF MarksInv, LockInv
    <2>9. \A n \in Modules, g \in Functions : ~(n = m /\ g \in targets) => patch'[n][g] = patch[n][g]
      BY <2>7, <2>8
    <2>10. ASSUME NEW g \in targets, MarkTrue(m, g), marks[m][g].active <=> "apply" = "revert", ~marks[m][g].error
           PROVE  /\ res[g] = "ok" => (patch'[m][g].active <=> "apply" = "apply")
                  /\ res[g] # "ok" => MarkTrue(m, g)' /\ (frontends = 1 => g \in Unpatchable)
      <3>1. g \in Changed(m, after) <=> ~(after[g].active <=> patch[m][g].active)
        <4>1. after[g].active \in BOOLEAN /\ patch[m][g].active \in BOOLEAN
          BY DEF MarksInv, LockInv, PatchTypeOK, Patch
        <4> QED BY <4>1 DEF Changed
      <3>2. CASE g \in Changed(m, after)
        <4>1. res[g] = "ok" /\ after[g].active
          BY <2>3, <2>8, <3>1, <3>2
        <4> QED BY <2>7, <4>1
      <3>3. CASE g \notin Changed(m, after)
        <4>1. res[g] # "ok"
          BY <2>3, <3>3
        <4>2. patch'[m][g].active <=> patch[m][g].active
          BY <2>7, <3>1, <3>3
        <4>3. MarkTrue(m, g)'
          BY <1>1, <2>10, <4>2 DEF MarkTrue
        <4>4. frontends = 1 => after[g].at = None
          <5>1. frontends = 1 => ~patch[m][g].active
            BY <2>10 DEF MarkTrue
          <5> QED BY <2>8, <3>1, <3>3, <5>1
        <4>5. frontends = 1 => g \in Unpatchable
          BY <2>8, <4>4, NoneAssumption
        <4> QED BY <4>1, <4>3, <4>5
      <3> QED BY <3>2, <3>3
    <2>11. "apply" \in Kinds /\ DOMAIN res = targets /\ a.kind = "apply" /\ a.module = m /\ a.results = res
      BY <2>4, <2>5 DEF Kinds
    <2>12. ASSUME NEW n \in Modules, NEW g \in Functions PROVE FunctionInv(n, g)'
      BY <1>1, <1>2, <2>6, <2>9, <2>10, <2>11, RequestHandled
    <2> QED BY <1>3, <2>12
  <1> QED BY <1>4, <1>5

LEMMA MarksOfRevert ==
    ASSUME MarksInv, RevertPatches
    PROVE  MarkTypeOK' /\ \A n \in Modules, g \in Functions : FunctionInv(n, g)'
  <1>1. /\ requests # <<>> /\ ~crashed /\ requests' = Tail(requests) /\ UNCHANGED <<marks, frontends, crashed>>
        /\ Head(requests) \in Request /\ Head(requests).kind = "revert"
    BY HeadOf DEF RevertPatches, Asked, frontendVars, MarksInv, LockInv, PatchTypeOK
  <1>2. PICK m \in Modules, targets \in SUBSET Functions :
            Head(requests) = [kind |-> "revert", module |-> m, targets |-> targets]
    BY <1>1 DEF Request
  <1>h. Head(requests).module = m /\ Head(requests).targets = targets
    BY <1>2
  <1>3. MarkTypeOK'
    BY <1>1 DEF MarksInv, MarkTypeOK
  <1>4. PICK after \in [Functions -> Patch] : after = Reverted(m, targets)
    BY RevertedFacts DEF MarksInv, LockInv
  <1>5. PICK res : res = [f \in targets |-> IF f \in Changed(m, after) THEN "ok" ELSE "unchanged"]
    OBVIOUS
  <1>6. res \in [targets -> {"ok", "error", "unchanged"}]
    BY <1>5
  <1>7. PICK a \in Answer : a = [kind |-> "revert", module |-> m, results |-> res]
    BY <1>6, OutcomesType DEF Answer, Kinds
  <1>8. patch' = [patch EXCEPT ![m] = after] /\ answers' = Append(answers, a)
    BY <1>h, <1>4, <1>5, <1>7 DEF RevertPatches
  <1>9. patch'[m] = after /\ \A n \in Modules : n # m => patch'[n] = patch[n]
    BY <1>8 DEF MarksInv, LockInv, PatchTypeOK
  <1>10. /\ \A g \in Functions : g \notin targets => after[g] = patch[m][g]
         /\ \A g \in targets : ~after[g].active
    BY <1>4, RevertedFacts DEF MarksInv, LockInv
  <1>11. \A n \in Modules, g \in Functions : ~(n = m /\ g \in targets) => patch'[n][g] = patch[n][g]
    BY <1>9, <1>10
  <1>12. ASSUME NEW g \in targets, MarkTrue(m, g), marks[m][g].active <=> "revert" = "revert", ~marks[m][g].error
         PROVE  res[g] = "ok" /\ ~patch'[m][g].active
    <2>1. patch[m][g].active
      BY <1>12 DEF MarkTrue
    <2>2. after[g].active \in BOOLEAN /\ patch[m][g].active \in BOOLEAN
      BY DEF MarksInv, LockInv, PatchTypeOK, Patch
    <2>3. g \in Changed(m, after)
      BY <1>10, <2>1, <2>2 DEF Changed
    <2> QED BY <1>5, <1>9, <1>10, <2>3
  <1>13. "revert" \in Kinds /\ DOMAIN res = targets /\ "revert" # "apply" /\ a.kind = "revert" /\ a.module = m /\ a.results = res
    BY <1>6, <1>7 DEF Kinds
  <1>14. ASSUME NEW n \in Modules, NEW g \in Functions PROVE FunctionInv(n, g)'
    BY <1>1, <1>2, <1>8, <1>11, <1>12, <1>13, RequestHandled
  <1> QED BY <1>3, <1>14

LEMMA MarksStep == MarksInv /\ [Next]_vars => MarksInv'
  <1> SUFFICES ASSUME MarksInv, [Next]_vars PROVE MarkTypeOK' /\ \A n \in Modules, g \in Functions : FunctionInv(n, g)'
    BY LockStep DEF MarksInv
  <1> USE DEF trackerVars, processVars, reportVars, patchVars, frontendVars, channelVars, Apart
  <1>1. ASSUME UNCHANGED <<marks, patch, frontends, requests, answers>>, ~crashed' => ~crashed
        PROVE  MarkTypeOK' /\ \A n \in Modules, g \in Functions : FunctionInv(n, g)'
    BY <1>1, MarksKept DEF MarksInv, MarkTypeOK
  <1>2. ASSUME NEW m \in Modules, (Load(m) \/ Unload(m) \/ RequestMetadata(m)) /\ Apart
        PROVE  MarkTypeOK' /\ \A n \in Modules, g \in Functions : FunctionInv(n, g)'
    BY <1>1, <1>2 DEF Load, Unload, RequestMetadata, LockMapping
  <1>3. CASE (GetChanges \/ Crashed) /\ Apart
    BY <1>1, <1>3 DEF GetChanges, Crashed
  <1>4. CASE UNCHANGED vars
    BY <1>1, <1>4 DEF vars
  <1>5. ASSUME NEW m \in Modules, NEW selected \in SUBSET Functions, NEW kind \in Kinds, Ask(kind, m, selected)
        PROVE  MarkTypeOK' /\ \A n \in Modules, g \in Functions : FunctionInv(n, g)'
    BY <1>5, MarksOfAsk
  <1>6. CASE OnAnswer \/ Reconnect
    BY <1>6, MarksOfAnswer, MarksOfReconnect
  <1>7. CASE ApplyPatches \/ RevertPatches
    BY <1>7, MarksOfApply, MarksOfRevert
  <1> QED BY <1>2, <1>3, <1>4, <1>5, <1>6, <1>7 DEF Next, Kinds

LEMMA MarksStart == Init => MarksInv
  <1> SUFFICES ASSUME Init PROVE MarkTypeOK /\ \A n \in Modules, g \in Functions : FunctionInv(n, g)
    BY LockStart DEF MarksInv
  <1>1. NoMark \in Mark /\ ~NoMark.active /\ ~NoMark.error /\ ~NoMark.requested
    BY DEF NoMark, Mark
  <1>2. marks \in [Modules -> [Functions -> Mark]] /\ \A n \in Modules, g \in Functions : marks[n][g] = NoMark
    BY <1>1 DEF Init, NoMarks
  <1>3. MarkTypeOK
    BY <1>2 DEF MarkTypeOK, Init
  <1>4. ASSUME NEW n \in Modules, NEW g \in Functions PROVE FunctionInv(n, g)
    <2>1. Len(requests) = 0 /\ Len(answers) = 0
      BY DEF Init
    <2>2. \A i \in Nat : ~AskedFor(i, n, g) /\ ~AnsweredFor(i, n, g)
      BY <2>1 DEF AskedFor, AnsweredFor
    <2>3. ~patch[n][g].active
      BY DEF Init
    <2>4. MarkTrue(n, g)
      BY <1>1, <1>2, <2>3 DEF MarkTrue
    <2> QED BY <2>2, <2>4 DEF FunctionInv, OneMessage, RequestTrue, AnswerTrue
  <1> QED BY <1>3, <1>4

\* What the frontend shows as patched is patched, whichever requests cross, fail
\* or are lost with a frontend: at most one message is under way for a function,
\* because a function that was asked for is not asked for again.
THEOREM MarksTrue == Spec => []MarksAreTrue
  <1>1. MarksInv => MarksAreTrue
    <2> SUFFICES ASSUME MarksInv, NEW m \in Modules, NEW f \in Functions, ~crashed, ~marks[m][f].requested
                 PROVE  /\ marks[m][f].active => patch[m][f].active
                        /\ frontends = 1 => marks[m][f].active = patch[m][f].active
                        /\ frontends = 1 /\ marks[m][f].error => f \in Unpatchable
      BY DEF MarksAreTrue
    <2>1. MarkTrue(m, f)
      BY DEF MarksInv, FunctionInv
    <2>2. marks[m][f].active \in BOOLEAN /\ patch[m][f].active \in BOOLEAN
      BY DEF MarksInv, MarkTypeOK, Mark, LockInv, PatchTypeOK
    <2> QED BY <2>1, <2>2 DEF MarkTrue
  <1> QED BY <1>1, MarksStart, MarksStep, PTL DEF Spec
================================================================================
