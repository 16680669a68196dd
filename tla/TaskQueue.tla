------------------------------- MODULE TaskQueue -------------------------------
(***************************************************************************)
(* scheduler::task_queue: a queue of deadlined tasks guarded by a mutex    *)
(* and announced by an auto-reset event.  The module holds its state and   *)
(* its operations; ThreadQueue and UiQueue add the threads that call them. *)
(*                                                                         *)
(* execute_ready runs over several steps: the clock is read outside the    *)
(* lock, and the lock is released while a task runs.  Between these steps  *)
(* any thread may schedule.                                                *)
(***************************************************************************)
EXTENDS Naturals, Sequences, FiniteSets

CONSTANTS Defers,       \* the values of defer_by that are tried
          MaxDuration,  \* max_duration of execute_ready
          MaxTasks,     \* bound: tasks scheduled
          MaxTime       \* bound: the clock stops here; no deadline lies behind it

ASSUME DefersAssumption == Defers \subseteq Nat
ASSUME DurationAssumption == MaxDuration \in Nat \ {0}
ASSUME TaskBoundsAssumption == MaxTasks \in Nat /\ MaxTime \in Nat

VARIABLES
    clock,          \* what _clock() returns
    tasks,          \* _tasks, a priority queue
    order,          \* _order
    omit_notify,    \* _omit_notify
    stopped,        \* _stopped
    ready,          \* _ready, an auto-reset event
    epc,            \* execute_ready: "out", "lock", "run", "clock" or "end"
    enow,           \* execute_ready: now
    edeadline,      \* execute_ready: deadline
    current,        \* the task that was popped last
    ran             \* history: the tasks run, in order

queueVars == <<tasks, order, stopped, ready>>
execVars == <<epc, enow, edeadline, current, ran>>
taskVars == <<clock, queueVars, omit_notify, execVars>>

\* What a task does when it is called: nothing visible, schedule another one
\* as collect_and_reschedule does, ask the thread to stop, or throw.
Bodies == {"plain", "again", "stop", "throw"}
Task == [order : Nat, deadline : Nat, body : Bodies]
NoTask == [order |-> 0, deadline |-> 0, body |-> "plain"]

\* deadlined_task::operator<, read as "a runs no later than b".
Precedes(a, b) == a.deadline < b.deadline \/ (a.deadline = b.deadline /\ a.order <= b.order)

\* t is _tasks.top().
IsTop(t) == t \in tasks /\ \A u \in tasks : Precedes(t, u)

TaskInit ==
    /\ clock = 0
    /\ tasks = {}
    /\ order = 0
    /\ omit_notify = FALSE
    /\ stopped = FALSE
    /\ ready = FALSE
    /\ epc = "out"
    /\ enow = 0
    /\ edeadline = 0
    /\ current = NoTask
    /\ ran = <<>>

-----------------------------------------------------------------------------
(* schedule and stop.                                                      *)

\* Mutant: the closest task is announced only when it is the first one.
MutantNotifiesFirst(deadline) == ~omit_notify /\ tasks = {}

\* The queue tells about a task only when it becomes the closest one and
\* nobody is executing tasks.
Notifies(deadline) == ~omit_notify /\ \A u \in tasks : deadline < u.deadline

\* schedule, for a queue that was not stopped.
Enqueue(body, defer_by) ==
    /\ ~stopped
    /\ clock + defer_by <= MaxTime
    /\ tasks' = tasks \cup {[order |-> order, deadline |-> clock + defer_by, body |-> body]}
    /\ order' = order + 1
    /\ ready' = IF Notifies(clock + defer_by) THEN TRUE ELSE ready
    /\ stopped' = stopped

\* stop: the tasks are dropped, nobody is told.
DropAll ==
    /\ tasks' = {}
    /\ stopped' = TRUE
    /\ UNCHANGED <<order, ready>>

-----------------------------------------------------------------------------
(* execute_ready.                                                          *)

\* The clock is read before the lock is taken.
EnterExecute ==
    /\ epc = "out"
    /\ enow' = clock
    /\ edeadline' = clock + MaxDuration
    /\ epc' = "lock"
    /\ UNCHANGED <<clock, queueVars, omit_notify, current, ran>>

\* Mutant: of the tasks that are due the one scheduled last is taken.
MutantDueYoungest(t) ==
    /\ t \in tasks
    /\ \A u \in tasks : u.deadline <= enow => u.order <= t.order
    /\ t.deadline <= enow
    /\ enow < edeadline

\* The closest task is due and there is time left to run it.
Due(t) == IsTop(t) /\ t.deadline <= enow /\ enow < edeadline

\* Under the lock: the closest task is due, it is popped and the lock released.
PopReady ==
    /\ epc = "lock"
    /\ \E t \in tasks :
          /\ Due(t)
          /\ current' = t
          /\ tasks' = tasks \ {t}
    /\ omit_notify' = TRUE
    /\ epc' = "run"
    /\ UNCHANGED <<clock, order, stopped, ready, enow, edeadline, ran>>

\* Mutant: _omit_notify is not reset.
MutantLeaveOmitting ==
    /\ epc = "lock"
    /\ ~ \E t \in tasks : Due(t)
    /\ omit_notify' = TRUE
    /\ epc' = "end"
    /\ UNCHANGED <<clock, queueVars, enow, edeadline, current, ran>>

\* Under the lock: nothing is due or the time is up; the scope guard resets
\* _omit_notify before the lock is released.
LeaveExecute ==
    /\ epc = "lock"
    /\ ~ \E t \in tasks : Due(t)
    /\ omit_notify' = FALSE
    /\ epc' = "end"
    /\ UNCHANGED <<clock, queueVars, enow, edeadline, current, ran>>

\* The task is run with the lock released.  "again" schedules a successor.
RunTask ==
    /\ epc = "run"
    /\ current.body # "throw"
    /\ ran' = Append(ran, current)
    /\ IF current.body = "again" /\ ~stopped /\ order < MaxTasks /\ clock < MaxTime
         THEN Enqueue("plain", 1)
         ELSE UNCHANGED queueVars
    /\ epc' = "clock"
    /\ UNCHANGED <<clock, omit_notify, enow, edeadline, current>>

\* The task throws: the exception leaves execute_ready, and the scope guard
\* resets _omit_notify with the lock released.
ThrowTask ==
    /\ epc = "run"
    /\ current.body = "throw"
    /\ ran' = Append(ran, current)
    /\ omit_notify' = FALSE
    /\ epc' = "end"
    /\ UNCHANGED <<clock, queueVars, enow, edeadline, current>>

\* The clock is read again, before the lock is taken.
RereadClock ==
    /\ epc = "clock"
    /\ enow' = clock
    /\ epc' = "lock"
    /\ UNCHANGED <<clock, queueVars, omit_notify, edeadline, current, ran>>

\* execute_ready returns; its locals are gone.
ReturnExecute ==
    /\ epc = "end"
    /\ epc' = "out"
    /\ enow' = 0
    /\ edeadline' = 0
    /\ current' = NoTask
    /\ UNCHANGED <<clock, queueVars, omit_notify, ran>>

Tick ==
    /\ clock < MaxTime
    /\ clock' = clock + 1
    /\ UNCHANGED <<queueVars, omit_notify, execVars>>

-----------------------------------------------------------------------------

TaskTypeOK ==
    /\ clock \in Nat
    /\ tasks \in SUBSET Task
    /\ order \in Nat
    /\ omit_notify \in BOOLEAN
    /\ stopped \in BOOLEAN
    /\ ready \in BOOLEAN
    /\ epc \in {"out", "lock", "run", "clock", "end"}
    /\ enow \in Nat
    /\ edeadline \in Nat
    /\ current \in Task
    /\ ran \in Seq(Task)

\* Of two tasks, the one scheduled first with no later deadline is run first,
\* however scheduling interleaves with execute_ready; and none runs early.
RunsInOrder ==
    /\ \A i, j \in 1..Len(ran) :
          i < j => ~(ran[j].order < ran[i].order /\ ran[j].deadline <= ran[i].deadline)
    /\ \A i \in 1..Len(ran) : ran[i].deadline <= clock
================================================================================
