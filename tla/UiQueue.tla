-------------------------------- MODULE UiQueue --------------------------------
(***************************************************************************)
(* scheduler::ui_queue (ui_queue_win32.cpp): a task_queue served by the    *)
(* message loop of the UI thread.  Nobody waits on the event; instead the  *)
(* wake_up pair returned by schedule and execute_ready is turned into a    *)
(* posted message or into the one timer of the window, after the lock of   *)
(* the queue was released.                                                 *)
(***************************************************************************)
EXTENDS TaskQueue

CONSTANTS Threads,     \* threads that schedule
          Never        \* no timer is set
ASSUME NeverAssumption == Never \notin Nat

VARIABLES
    posted,      \* WM_USER messages in the queue of the window
    timer,       \* the moment the timer of the window expires
    pending,     \* per thread: the deferral of a wake_up not yet acted upon
    upc,         \* UI thread: "idle", "execute" or "wakeup"
    uwake        \* UI thread: the deferral execute_ready returned

uiVars == <<taskVars, posted, timer, pending, upc, uwake>>

UiInit ==
    /\ TaskInit
    /\ posted = 0
    /\ timer = Never
    /\ pending = [t \in Threads |-> Never]
    /\ upc = "idle"
    /\ uwake = Never

-----------------------------------------------------------------------------
(* External: PostMessage and SetTimer, which replaces a timer that is set. *)

\* schedule_wakeup for a valid wake_up.
ScheduleWakeup(defer_by) ==
    IF defer_by = 0
      THEN posted' = posted + 1 /\ UNCHANGED timer
      ELSE timer' = clock + defer_by /\ UNCHANGED posted

\* task_queue::schedule as the queue sees it: the wake_up is computed under
\* the lock.
TaskScheduled(t, body, d) ==
    /\ Enqueue(body, d)
    /\ pending' = [pending EXCEPT ![t] = IF Notifies(clock + d) THEN d ELSE Never]

UiSchedule(t) ==
    /\ pending[t] = Never
    /\ order < MaxTasks
    /\ \E body \in {"plain", "again", "throw"}, d \in Defers : TaskScheduled(t, body, d)
    /\ UNCHANGED <<clock, omit_notify, execVars, posted, timer, upc, uwake>>

\* ... and acted upon after it.
Wakeup(t) ==
    /\ pending[t] # Never
    /\ ScheduleWakeup(pending[t])
    /\ pending' = [pending EXCEPT ![t] = Never]
    /\ UNCHANGED <<taskVars, upc, uwake>>

-----------------------------------------------------------------------------
(* The UI thread: on_message.                                              *)

OnUser ==
    /\ upc = "idle"
    /\ posted > 0
    /\ posted' = posted - 1
    /\ EnterExecute
    /\ upc' = "execute"
    /\ UNCHANGED <<timer, pending, uwake>>

\* WM_TIMER: the timer is killed.  At the end of the modelled time a timer
\* that is set expires at once.
OnTimer ==
    /\ upc = "idle"
    /\ timer # Never
    /\ timer <= clock \/ clock = MaxTime
    /\ timer' = Never
    /\ EnterExecute
    /\ upc' = "execute"
    /\ UNCHANGED <<posted, pending, uwake>>

UiExecute ==
    /\ upc = "execute"
    /\ PopReady \/ RunTask \/ RereadClock
    /\ UNCHANGED <<posted, timer, pending, upc, uwake>>

Until(t) == IF t.deadline > enow THEN t.deadline - enow ELSE 0

\* execute_ready ends under the lock and returns the closest deadline.
Leave ==
    /\ upc = "execute"
    /\ LeaveExecute
    /\ \/ tasks = {} /\ uwake' = Never
       \/ \E t \in tasks : IsTop(t) /\ uwake' = Until(t)
    /\ UNCHANGED <<posted, timer, pending, upc>>

\* An exception is logged; the handler asks for an immediate wakeup.
CatchException ==
    /\ upc = "execute"
    /\ ThrowTask
    /\ uwake' = 0
    /\ UNCHANGED <<posted, timer, pending, upc>>

UiReturn ==
    /\ upc = "execute"
    /\ ReturnExecute
    /\ upc' = "wakeup"
    /\ UNCHANGED <<posted, timer, pending, uwake>>

\* Mutant: the wakeup execute_ready asks for is forgotten.
MutantNoRearm ==
    /\ upc = "wakeup"
    /\ UNCHANGED <<posted, timer>>
    /\ upc' = "idle"
    /\ uwake' = Never
    /\ UNCHANGED <<taskVars, pending>>

Rearm ==
    /\ upc = "wakeup"
    /\ IF uwake = Never THEN UNCHANGED <<posted, timer>> ELSE ScheduleWakeup(uwake)
    /\ upc' = "idle"
    /\ uwake' = Never
    /\ UNCHANGED <<taskVars, pending>>

\* stop, called by the owner on the UI thread.
Stop ==
    /\ upc = "idle"
    /\ ~stopped
    /\ DropAll
    /\ UNCHANGED <<clock, omit_notify, execVars, posted, timer, pending, upc, uwake>>

UiTime == Tick /\ UNCHANGED <<posted, timer, pending, upc, uwake>>

\* Nothing is left to do until somebody schedules.
Quiet == posted = 0 /\ timer = Never /\ upc = "idle" /\ \A t \in Threads : pending[t] = Never

Idle == Quiet /\ UNCHANGED uiVars

Ui == OnUser \/ OnTimer \/ UiExecute \/ Leave \/ CatchException \/ UiReturn \/ Rearm

UiNext ==
    \/ \E t \in Threads : UiSchedule(t) \/ Wakeup(t)
    \/ OnUser \/ OnTimer \/ UiExecute \/ Leave \/ CatchException \/ UiReturn \/ Rearm
    \/ Stop
    \/ UiTime
    \/ Idle

UiSpec == UiInit /\ [][UiNext]_uiVars

\* The message loop runs, time passes, and a thread that has scheduled goes
\* on to post the wakeup.
UiFairness == WF_uiVars(Ui) /\ WF_uiVars(UiTime) /\ \A t \in Threads : WF_uiVars(Wakeup(t))

UiFairSpec == UiSpec /\ UiFairness

-----------------------------------------------------------------------------
(* Properties.                                                             *)

\* Every variable keeps its type.
UiTypeOK ==
    /\ TaskTypeOK
    /\ posted \in Nat
    /\ timer \in Nat \cup {Never}
    /\ pending \in [Threads -> Nat \cup {Never}]
    /\ upc \in {"idle", "execute", "wakeup"}
    /\ uwake \in Nat \cup {Never}

\* While a task waits somebody is bound to serve it: the UI thread is at
\* work, a message or the timer is under way, or a thread is about to post.
NoTaskStranded ==
    tasks # {} => ~Quiet

\* The queue is served, on clocks and wakeups of the right kind.
QueueServed == UiTypeOK /\ NoTaskStranded

\* Every task scheduled is run, exceptions thrown by others included, or the
\* queue is stopped.
EveryUiTaskRuns ==
    \A k \in 0..(MaxTasks - 1) :
        order > k ~> (stopped \/ \E i \in 1..Len(ran) : ran[i].order = k)
================================================================================
