------------------------------ MODULE ThreadQueue ------------------------------
(***************************************************************************)
(* scheduler::thread_queue: a task_queue served by a thread of its own     *)
(* until the owner destroys it.  The destructor schedules a task that asks *)
(* the thread to stop and joins it; client threads schedule until then.    *)
(* active_server_app runs the same loop.                                   *)
(***************************************************************************)
EXTENDS TaskQueue

VARIABLES
    tpc,             \* thread: "check", "wait", "timed", "untimed", "execute", "done"
    until,           \* wait: closest, the moment the timed wait ends
    stop_requested,  \* _stop_requested
    opc              \* owner: "alive", "joining" or "joined"

vars == <<taskVars, tpc, until, stop_requested, opc>>

Init ==
    /\ TaskInit
    /\ tpc = "check"
    /\ until = 0
    /\ stop_requested = FALSE
    /\ opc = "alive"

-----------------------------------------------------------------------------
(* Clients and the owner.                                                  *)

\* thread_queue::schedule.
Schedule ==
    /\ opc = "alive"
    /\ order < MaxTasks
    /\ \E body \in {"plain", "again"}, d \in Defers : Enqueue(body, d)
    /\ UNCHANGED <<clock, omit_notify, execVars, tpc, until, stop_requested, opc>>

\* ~thread_queue: the stop task is scheduled ...
Destroy ==
    /\ opc = "alive"
    /\ Enqueue("stop", 0)
    /\ opc' = "joining"
    /\ UNCHANGED <<clock, omit_notify, execVars, tpc, until, stop_requested>>

\* ... and the thread is joined.
Join ==
    /\ opc = "joining"
    /\ tpc = "done"
    /\ opc' = "joined"
    /\ UNCHANGED <<taskVars, tpc, until, stop_requested>>

-----------------------------------------------------------------------------
(* The thread: run.                                                        *)

Check ==
    /\ tpc = "check"
    /\ tpc' = IF stop_requested THEN "done" ELSE "wait"
    /\ UNCHANGED <<taskVars, until, stop_requested, opc>>

\* wait, the critical section: the clock is compared with the closest
\* deadline; a task that is due ends the wait.
WaitLook ==
    /\ tpc = "wait"
    /\ \/ /\ tasks = {}
          /\ tpc' = "untimed"
          /\ until' = until
       \/ \E t \in tasks :
             /\ IsTop(t)
             /\ until' = t.deadline
             /\ tpc' = IF clock >= t.deadline THEN "execute" ELSE "timed"
    /\ UNCHANGED <<taskVars, stop_requested, opc>>

\* _ready.wait() or the timed wait is satisfied: look again.
Signalled ==
    /\ tpc \in {"timed", "untimed"}
    /\ ready
    /\ ready' = FALSE
    /\ tpc' = "wait"
    /\ UNCHANGED <<clock, tasks, order, stopped, omit_notify, execVars, until, stop_requested, opc>>

\* The timed wait expires: the wait is over, whatever was signalled since.
TimedOut ==
    /\ tpc = "timed"
    /\ ~ready
    /\ clock >= until
    /\ tpc' = "execute"
    /\ UNCHANGED <<taskVars, until, stop_requested, opc>>

\* execute_ready is called.
Enter ==
    /\ tpc = "execute"
    /\ EnterExecute
    /\ UNCHANGED <<tpc, until, stop_requested, opc>>

Execute ==
    /\ tpc = "execute"
    /\ PopReady \/ LeaveExecute \/ RereadClock
    /\ UNCHANGED <<tpc, until, stop_requested, opc>>

\* The task the destructor scheduled sets _stop_requested.
Run ==
    /\ tpc = "execute"
    /\ RunTask
    /\ stop_requested' = (stop_requested \/ current.body = "stop")
    /\ UNCHANGED <<tpc, until, opc>>

\* execute_ready has returned.
Return ==
    /\ tpc = "execute"
    /\ ReturnExecute
    /\ tpc' = "check"
    /\ until' = 0
    /\ UNCHANGED <<stop_requested, opc>>

Time == Tick /\ UNCHANGED <<tpc, until, stop_requested, opc>>

Thread == Check \/ WaitLook \/ Signalled \/ TimedOut \/ Enter \/ Execute \/ Run \/ Return

\* The owner has gone and so has the thread.
Finished == opc = "joined" /\ UNCHANGED vars

Next ==
    \/ Schedule \/ Destroy \/ Join
    \/ Check \/ WaitLook \/ Signalled \/ TimedOut \/ Enter \/ Execute \/ Run \/ Return
    \/ Time
    \/ Finished

Spec == Init /\ [][Next]_vars

\* The thread runs, time passes and a destructor that joins goes on; nobody
\* has to schedule or to destroy.
Fairness == WF_vars(Thread) /\ WF_vars(Time) /\ WF_vars(Join)

FairSpec == Spec /\ Fairness

-----------------------------------------------------------------------------
(* Properties.                                                             *)

\* Every variable keeps its type.
TypeOK ==
    /\ TaskTypeOK
    /\ tpc \in {"check", "wait", "timed", "untimed", "execute", "done"}
    /\ until \in Nat
    /\ stop_requested \in BOOLEAN
    /\ opc \in {"alive", "joining", "joined"}

\* A thread that sleeps in task_queue::wait sleeps at most until the closest
\* deadline, or has been signalled: schedule may leave out a notification
\* only when an earlier one covers the task.
NoOverslept ==
    /\ tpc = "untimed" => tasks = {} \/ ready
    /\ tpc = "timed" => ready \/ \A t \in tasks : until <= t.deadline

\* Every task scheduled is run, or its queue is destroyed.
EveryTaskRuns ==
    \A k \in 0..(MaxTasks - 1) :
        order > k ~> (opc = "joined" \/ \E i \in 1..Len(ran) : ran[i].order = k)

\* ~thread_queue returns: the stop task reaches the thread whatever else is
\* queued or running.
DestructorReturns == opc = "joining" ~> opc = "joined"

================================================================================
