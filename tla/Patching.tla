------------------------------- MODULE Patching -------------------------------
(***************************************************************************)
(* Functions of the profiled program are instrumented on demand.  The      *)
(* frontend keeps a mark per function (frontend/src/frontend_patcher.cpp)  *)
(* and asks the collector, whose image_patch_manager                       *)
(* (patcher/src/image_patch_manager.cpp) makes, activates and reverts the  *)
(* patches (patcher/src/jumper.cpp) in modules that ModuleTracker locks.   *)
(* The program loads and unloads modules meanwhile, and a frontend may     *)
(* leave and another one come while patches are active.                    *)
(***************************************************************************)
EXTENDS ModuleTracker, Sequences

CONSTANTS Functions,      \* addresses of functions, relative to their module
          Unpatchable,    \* those whose first bytes no patch fits
          MaxRequests,    \* bound: requests sent
          MaxFrontends    \* bound: frontends one after another

ASSUME PatchingAssumption ==
    /\ IsFiniteSet(Functions) /\ Unpatchable \subseteq Functions
    /\ {MaxRequests, MaxFrontends} \subseteq Nat

VARIABLES
    patch,      \* collector: per function, where its patch was made (or None) and if it is active
    applied,    \* collector: image_patch::patches_applied
    marks,      \* frontend: the records of _db->patches
    requests,   \* on their way to the collector
    answers,    \* on their way to the frontend
    sentCount,  \* requests sent
    frontends   \* frontends so far

patchVars == <<patch, applied>>
frontendVars == <<marks, sentCount, frontends>>
channelVars == <<requests, answers>>
vars == <<trackerVars, patchVars, frontendVars, channelVars>>

NoMark == [requested |-> FALSE, active |-> FALSE, error |-> FALSE]
NoMarks == [m \in Modules |-> [f \in Functions |-> NoMark]]

Init ==
    /\ TrackerInit
    /\ patch = [m \in Modules |-> [f \in Functions |-> [at |-> None, active |-> FALSE]]]
    /\ applied = [m \in Modules |-> 0]
    /\ marks = NoMarks
    /\ requests = <<>>
    /\ answers = <<>>
    /\ sentCount = 0
    /\ frontends = 1

-----------------------------------------------------------------------------
(* The frontend. *)

\* Mutant: a request under way is not looked at.
RequestableTwice(k, active) == k.active = active /\ ~k.error

\* set_requested
Requestable(k, active) == k.active = active /\ ~k.error /\ ~k.requested

\* frontend::apply and frontend::revert, for functions the user selected in a module the
\* frontend was told of: those that qualify are marked and asked for together.
Ask(kind, m, selected) ==
    LET targets == {f \in selected : Requestable(marks[m][f], kind = "revert")} IN
    /\ ~crashed /\ sentCount < MaxRequests
    /\ \E r \in loaded : r.module = m
    /\ targets # {}
    /\ marks' = [marks EXCEPT ![m] =
                    [f \in Functions |-> [marks[m][f] EXCEPT !.requested = @ \/ f \in targets]]]
    /\ requests' = Append(requests, [kind |-> kind, module |-> m, targets |-> targets])
    /\ sentCount' = sentCount + 1
    /\ UNCHANGED <<trackerVars, patchVars, frontends, answers>>

SetComplete(k, result, active) ==
    IF result = "ok" THEN [k EXCEPT !.requested = FALSE, !.active = active]
    ELSE [k EXCEPT !.requested = FALSE, !.error = TRUE]

\* The callbacks of both requests.
OnAnswer ==
    /\ answers # <<>>
    /\ LET a == Head(answers) IN
       marks' = [marks EXCEPT ![a.module] =
                    [f \in Functions |-> IF f \in DOMAIN a.results
                                         THEN SetComplete(@[f], a.results[f], a.kind = "apply")
                                         ELSE @[f]]]
    /\ answers' = Tail(answers)
    /\ UNCHANGED <<trackerVars, patchVars, sentCount, frontends, requests>>

\* The frontend goes, with what is on its way; another one connects and knows no patches.
Reconnect ==
    /\ ~crashed /\ frontends < MaxFrontends
    /\ frontends' = frontends + 1
    /\ marks' = NoMarks
    /\ requests' = <<>>
    /\ answers' = <<>>
    /\ UNCHANGED <<trackerVars, patchVars, sentCount>>

-----------------------------------------------------------------------------
(* The collector. *)

Asked(kind) == ~crashed /\ requests # <<>> /\ Head(requests).kind = kind

\* jumper::jumper: a place for the jump is found before the function and filled, unless the
\* first instruction or the padding does not allow it.
Make(f, addr) == [at |-> IF f \in Unpatchable THEN None ELSE addr, active |-> FALSE]

\* jumper::activate changes the bytes at the place the patch was made for.
Activate(p) == [p EXCEPT !.active = p.at # None]

\* jumper::revert gives the bytes back; the patch itself is kept.
Revert(p) == [p EXCEPT !.active = FALSE]

\* image_patch_manager::apply: patches that are missing are made.
Activated(m, targets, addr) ==
    [f \in Functions |->
        IF f \notin targets THEN patch[m][f]
        ELSE IF patch[m][f].at = None THEN Activate(Make(f, addr))
        ELSE Activate(patch[m][f])]

\* image_patch_manager::revert
Reverted(m, targets) ==
    [f \in Functions |-> IF f \in targets THEN Revert(patch[m][f]) ELSE patch[m][f]]

\* Functions a call has switched on or off: only those count and are answered "ok".
Changed(m, after) == {f \in Functions : after[f].active # patch[m][f].active}

\* Mutant: every target counts.
AppliedAfterAll(m, targets, after) == applied[m] + Cardinality(targets)

AppliedAfter(m, targets, after) == applied[m] + Cardinality(Changed(m, after))

\* The address a patch is made for, or was made for, is not where the module is: the
\* bytes of something else, or of nothing, are changed.
Stale(m, targets, addr, b) ==
    \E f \in targets : LET p == patch[m][f] IN
        IF p.at = None THEN addr # b ELSE ~p.active /\ p.at # b

\* The handler of request_apply_patches: the mapping is copied (there may be none), the
\* module is loaded, which maps it again if it has gone, and image_patch_manager::apply
\* patches what it can; the lock is kept as long as anything is patched.
ApplyPatches ==
    /\ Asked("apply")
    /\ LET m == Head(requests).module
           targets == Head(requests).targets
           addr == mapping[m].base
           after == Activated(m, targets, addr)
       IN \/ /\ mapping[m] = None
             /\ crashed' = TRUE
             /\ UNCHANGED <<base, pinned, patchVars, answers>>
          \/ /\ mapping[m] # None
             /\ \E b \in Bases :
                /\ MapAt(m, b)
                /\ crashed' \in (IF Stale(m, targets, addr, b) THEN BOOLEAN ELSE {FALSE})
                /\ patch' = [patch EXCEPT ![m] = after]
                /\ applied' = [applied EXCEPT ![m] = AppliedAfter(m, targets, after)]
                /\ pinned' = [pinned EXCEPT ![m] = @ \/ applied'[m] > 0]
                /\ base' = [base EXCEPT ![m] = IF pinned'[m] THEN b ELSE @]
             /\ answers' = Append(answers,
                    [kind |-> "apply", module |-> m,
                     results |-> [f \in targets |->
                        IF f \in Changed(m, after) THEN "ok"
                        ELSE IF after[f].at = None THEN "error" ELSE "unchanged"]])
    /\ requests' = Tail(requests)
    /\ UNCHANGED <<app, loads, persistent, mapping, instances, reportVars, frontendVars>>

\* The handler of request_revert_patches; the last patch gives up the lock.
RevertPatches ==
    /\ Asked("revert")
    /\ LET m == Head(requests).module
           targets == Head(requests).targets
           after == Reverted(m, targets)
       IN /\ patch' = [patch EXCEPT ![m] = after]
          /\ applied' = [applied EXCEPT ![m] = @ - Cardinality(Changed(m, after))]
          /\ pinned' = [pinned EXCEPT ![m] = @ /\ applied'[m] > 0]
          /\ base' = [base EXCEPT ![m] = IF pinned'[m] \/ app[m] THEN @ ELSE None]
          /\ answers' = Append(answers,
                [kind |-> "revert", module |-> m,
                 results |-> [f \in targets |->
                    IF f \in Changed(m, after) THEN "ok" ELSE "unchanged"]])
    /\ requests' = Tail(requests)
    /\ UNCHANGED <<app, loads, persistent, mapping, instances, reportVars, crashed, frontendVars>>

-----------------------------------------------------------------------------
\* Steps of the program and of the tracker leave the patches alone.
Apart == UNCHANGED <<patchVars, frontendVars, channelVars>>

Next ==
    \/ \E m \in Modules : Load(m) /\ Apart
    \/ \E m \in Modules : Unload(m) /\ Apart
    \/ \E m \in Modules : RequestMetadata(m) /\ Apart
    \/ GetChanges /\ Apart
    \/ Crashed /\ Apart
    \/ \E m \in Modules, selected \in SUBSET Functions :
        Ask("apply", m, selected) \/ Ask("revert", m, selected)
    \/ OnAnswer
    \/ Reconnect
    \/ ApplyPatches
    \/ RevertPatches

Spec == Init /\ [][Next]_vars

-----------------------------------------------------------------------------
(* Properties. *)

\* The user sees the truth: a function shown as active is patched, also when an earlier
\* frontend had it patched; and as long as there was only one frontend every settled mark
\* tells exactly whether the function is patched, and an error is one of patching it
\* (never the answer to a request that crossed another).
MarksAreTrue ==
    \A m \in Modules, f \in Functions : LET k == marks[m][f] IN
        ~crashed /\ ~k.requested =>
            /\ k.active => patch[m][f].active
            /\ frontends = 1 => k.active = patch[m][f].active
            /\ frontends = 1 /\ k.error => f \in Unpatchable

\* A module is held exactly as long as one of its functions is patched, whatever was asked
\* for twice, failed, or was asked for by another frontend.
LockFollowsPatches ==
    \A m \in Modules : pinned[m] <=> \E f \in Functions : patch[m][f].active

\* Patches and modules hold together: a patched module stays where it is, and
\* one without patches may go.
PatchesHoldModules == PatchedStaysLoaded /\ LockFollowsPatches
================================================================================
