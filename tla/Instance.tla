------------------------------ MODULE Instance ------------------------------
(* The collector in its process, from the first static constructor to the     *)
(* end: collector/src/main.cpp, main.h, main_win32.cpp (the hook of           *)
(* ExitProcess), detour.cpp and calibration.cpp. Threads of the program call  *)
(* instrumented functions before, during and after all of it.                 *)
EXTENDS Naturals, FiniteSets, Sequences

CONSTANTS
  ProgramThreads, \* threads of the program
  Loader,       \* the one that loads the collector
  Exiting,      \* those that may end the process
  Rounds,       \* warm-up rounds of the calibration
  TraceLimit    \* calls a thread may have in its queue

VARIABLES
  members,      \* of collector_app_instance, as constructed
  pointer,      \* g_collector_ptr is set
  at,           \* the loader's step
  round,        \* warm-up rounds left
  queued,       \* calls in Loader's queue, while nobody but Loader reads it
  app,          \* collector_app: "none", "running", "stopping", "gone"
  hooked,       \* ExitProcess is diverted
  tracking,     \* threads that run track
  exiting,      \* per thread: where it is in ExitProcess
  early,        \* history: a thread called ExitProcess before the constructor's end
  process       \* "running", "killing", "ended": killing once only one thread is left

instanceVars == <<members, pointer, at, round, queued, app, hooked, tracking, exiting, early, process>>
calibrationVars == <<round, queued>>
exitVars == <<hooked, exiting, early, process>>

Order == <<"logger", "monitor", "collector", "patches">>

InstanceInit ==
  /\ members = << >> /\ pointer = FALSE /\ at = "constructing" /\ round = Rounds
  /\ queued = 0 /\ app = "none" /\ hooked = FALSE /\ tracking = {}
  /\ exiting = [t \in ProgramThreads |-> "no"] /\ early = FALSE /\ process = "running"

Constructed(member) == \E k \in DOMAIN members : members[k] = member

-----------------------------------------------------------------------------
(* The constructor of collector_app_instance.                                *)
ConstructMember ==
  /\ at = "constructing" /\ Len(members) < Len(Order)
  /\ members' = Append(members, Order[Len(members) + 1])
  /\ UNCHANGED <<pointer, at, calibrationVars, app, tracking, exitVars>>

\* Mutant: the pointer is public as soon as the constructor begins.
PublishFirst ==
  /\ at = "constructing" /\ ~pointer
  /\ pointer' = TRUE /\ at' = IF Len(members) = Len(Order) THEN "warmup" ELSE at
  /\ UNCHANGED <<members, calibrationVars, app, tracking, exitVars>>

PublishCollector ==
  /\ at = "constructing" /\ Len(members) = Len(Order)
  /\ pointer' = TRUE /\ at' = "warmup"
  /\ UNCHANGED <<members, calibrationVars, app, tracking, exitVars>>

\* Mutant: as many calls as the queue holds at all, each an entry and an exit.
WholeTrace == TraceLimit

\* calibrate_overhead: trace_limit / 10 calls, each an entry and an exit. The
\* thread that fills the queue is the one to read it: it must not be stopped by
\* a full queue.
Iterations == TraceLimit \div 10

RunLoad ==
  /\ at \in {"warmup", "measure"}
  /\ queued + 2 * Iterations <= TraceLimit
  /\ queued' = queued + 2 * Iterations
  /\ at' = IF at = "warmup" THEN "discard" ELSE "analyze"
  /\ UNCHANGED <<members, pointer, round, app, tracking, exitVars>>

\* null_reader takes whatever all threads have recorded.
DiscardWarmup ==
  /\ at = "discard"
  /\ queued' = 0 /\ round' = round - 1
  /\ at' = IF round = 1 THEN "measure" ELSE "warmup"
  /\ UNCHANGED <<members, pointer, app, tracking, exitVars>>

\* The last load is read and averaged; what overhead comes of it is not modelled.
Analyze ==
  /\ at = "analyze"
  /\ queued' = 0 /\ at' = "starting"
  /\ UNCHANGED <<members, pointer, round, app, tracking, exitVars>>

StartApp ==
  /\ at = "starting"
  /\ app' = "running" /\ at' = "hooking"
  /\ UNCHANGED <<members, pointer, calibrationVars, tracking, exitVars>>

\* platform_specific_init and detour.
HookExit ==
  /\ at = "hooking"
  /\ hooked' = TRUE /\ at' = "main"
  /\ UNCHANGED <<members, pointer, calibrationVars, app, tracking, exiting, early, process>>

-----------------------------------------------------------------------------
(* The program's threads: __cyg_profile_func_enter and _exit.                *)
Available(t) == t \notin tracking /\ (t = Loader => at = "main")

\* The thread that ends the process calls instrumented functions too, in the static
\* destructors of modules linked to the collector, which run before its own.
EnterTrack(t) ==
  /\ Available(t) /\ pointer
  /\ \/ exiting[t] = "no" /\ process = "running"
     \/ exiting[t] = "exit" /\ process = "killing" /\ members = Order
  /\ tracking' = tracking \cup {t}
  /\ UNCHANGED <<members, pointer, at, calibrationVars, app, exitVars>>

LeaveTrack(t) ==
  /\ t \in tracking
  /\ tracking' = tracking \ {t}
  /\ UNCHANGED <<members, pointer, at, calibrationVars, app, exitVars>>

-----------------------------------------------------------------------------
(* The end of the process. *)
\* A thread calls ExitProcess, maybe while the loader still constructs: the hook,
\* if it is set, first puts the code back.
ExitProcess(t) ==
  /\ t \in Exiting /\ Available(t) /\ exiting[t] = "no" /\ process = "running"
  /\ exiting' = [exiting EXCEPT ![t] = IF hooked THEN "terminating" ELSE "exit"]
  /\ hooked' = FALSE
  /\ early' = (early \/ at # "main")
  /\ UNCHANGED <<members, pointer, at, calibrationVars, app, tracking, process>>

\* terminate: _app.reset() ends when the worker has told the frontend and ended.
terminate(t) ==
  /\ exiting[t] = "terminating" /\ app = "running"
  /\ app' = "stopping"
  /\ exiting' = [exiting EXCEPT ![t] = "joining"]
  /\ UNCHANGED <<members, pointer, at, calibrationVars, tracking, hooked, early, process>>

Joined(t) ==
  /\ exiting[t] = "joining"
  /\ app' = "gone"
  /\ exiting' = [exiting EXCEPT ![t] = "exit"]
  /\ UNCHANGED <<members, pointer, at, calibrationVars, tracking, hooked, early, process>>

\* The real ExitProcess ends all other threads, wherever they are, the worker and a
\* loader that still constructs included.
KillThreads(t) ==
  /\ exiting[t] = "exit" /\ process = "running"
  /\ process' = "killing"
  /\ tracking' = {}
  /\ exiting' = [u \in ProgramThreads |-> IF u = t THEN "exit" ELSE "killed"]
  /\ UNCHANGED <<members, pointer, at, calibrationVars, app, hooked, early>>

\* The static destructors, if the constructor came to its end: terminate, with
\* nothing left to do but after an early exit, and the members from the last to the
\* first.
DestroyMember ==
  /\ process = "killing" /\ at = "main" /\ tracking = {} /\ members # << >>
  /\ app' = IF app = "running" THEN "gone" ELSE app
  /\ members' = SubSeq(members, 1, Len(members) - 1)
  /\ UNCHANGED <<pointer, at, calibrationVars, tracking, exitVars>>

EndProcess ==
  /\ process = "killing" /\ tracking = {} /\ (at = "main" => members = << >>)
  /\ process' = "ended"
  /\ UNCHANGED <<members, pointer, at, calibrationVars, app, tracking, hooked, exiting, early>>

\* The constructor's thread.
LoaderNext ==
  /\ process = "running"
  /\ \/ ConstructMember
     \/ PublishCollector
     \/ RunLoad
     \/ DiscardWarmup
     \/ Analyze
     \/ StartApp
     \/ HookExit

InstanceNext ==
  \/ LoaderNext
  \/ \E t \in ProgramThreads : EnterTrack(t)
  \/ \E t \in ProgramThreads : LeaveTrack(t)
  \/ \E t \in ProgramThreads : ExitProcess(t)
  \/ \E t \in ProgramThreads : terminate(t)
  \/ \E t \in ProgramThreads : Joined(t)
  \/ \E t \in ProgramThreads : KillThreads(t)
  \/ DestroyMember
  \/ EndProcess

InstanceSpec == InstanceInit /\ [][InstanceNext]_instanceVars

-----------------------------------------------------------------------------
\* An instrumented function that was let through by g_collector_ptr finds a
\* collector, from the first static constructor to the last destructor.
TrackOnLiving == tracking # {} => Constructed("collector")

\* The load of the calibration fits the queue that only its own thread empties:
\* the constructor comes to its end, unless the process ends first.
CalibrationEnds == pointer ~> at = "main" \/ process # "running"

\* The end of the process is put off until the worker has ended and, with it, the
\* frontend has what it asks for; only an exit that another thread began before the
\* constructor's end, and with it the hook, ends the process under its worker.
ExitAwaitsWorker == process # "running" => early \/ app = "gone"

\* The collector is there from the first call to the last message: no thread
\* that was let in finds it unmade or destroyed, nor does an exit after the
\* constructor's end end the process under its worker.
CollectorLivesOn == TrackOnLiving /\ ExitAwaitsWorker

=============================================================================
