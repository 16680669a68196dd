--------------------------- MODULE ThreadQueueProofs ---------------------------
(***************************************************************************)
(* Proofs about thread_queue and ui_queue and the task_queue below them,   *)
(* for any set of deferrals and any bounds: types, that the thread never   *)
(* oversleeps a deadline, the order in which tasks are run, and that the   *)
(* message loop always has a wakeup coming while a task waits.             *)
(***************************************************************************)
EXTENDS ThreadQueue, UiQueue, TLAPS, SequenceTheorems

\* _omit_notify is set only while a task runs inside execute_ready, and the
\* thread is inside execute_ready only when it is not waiting.
GuardScope ==
    /\ omit_notify => epc \in {"run", "clock", "lock"}
    /\ epc # "out" => tpc = "execute"

\* r, which was run or is about to be, does not overtake t.
KeepsTurn(r, t) == ~(t.order < r.order /\ t.deadline <= r.deadline)

\* Orders are handed out once; what was run overtook nothing that waits.
OrderInv ==
    /\ \A t \in tasks : t.order < order
    /\ \A i \in 1..Len(ran) : ran[i].order < order /\ ran[i].deadline <= clock
    /\ \A i \in 1..Len(ran) : \A t \in tasks : KeepsTurn(ran[i], t)
    /\ enow <= clock
    /\ epc = "run" =>
          /\ current.order < order
          /\ current.deadline <= clock
          /\ \A t \in tasks : KeepsTurn(current, t)
          /\ \A i \in 1..Len(ran) : KeepsTurn(ran[i], current)

IInv == TypeOK /\ OrderInv /\ RunsInOrder

-----------------------------------------------------------------------------
(* Types.                                                                  *)

LEMMA EnqueueType ==
    ASSUME TypeOK, NEW body \in Bodies, NEW d \in Nat, Enqueue(body, d)
    PROVE  /\ tasks' \in SUBSET Task
           /\ order' \in Nat
           /\ ready' \in BOOLEAN
           /\ stopped' \in BOOLEAN
  <1> DEFINE t == [order |-> order, deadline |-> clock + d, body |-> body]
  <1>1. t \in Task
    BY DEF TypeOK, TaskTypeOK, Task
  <1>2. tasks' = tasks \cup {t} /\ order' = order + 1 /\ stopped' = stopped
    BY DEF Enqueue
  <1>3. ready' = TRUE \/ ready' = ready
    BY DEF Enqueue
  <1>4. ready' \in BOOLEAN
    BY <1>3 DEF TypeOK, TaskTypeOK
  <1>5. stopped' \in BOOLEAN
    BY <1>2 DEF TypeOK, TaskTypeOK
  <1> HIDE DEF t
  <1>6. tasks' \in SUBSET Task /\ order' \in Nat
    BY <1>1, <1>2 DEF TypeOK, TaskTypeOK
  <1> QED BY <1>4, <1>5, <1>6

LEMMA TypeInit == Init => TypeOK
  <1> SUFFICES ASSUME Init PROVE TypeOK
    OBVIOUS
  <1>1. NoTask \in Task
    BY DEF NoTask, Task, Bodies
  <1>2. ran \in Seq(Task)
    BY DEF Init, TaskInit
  <1>3. TaskTypeOK
    BY <1>1, <1>2 DEF Init, TaskInit, TaskTypeOK
  <1> QED BY <1>3 DEF Init, TypeOK

LEMMA TypeStep == TypeOK /\ [Next]_vars => TypeOK'
  <1> SUFFICES ASSUME TypeOK, [Next]_vars PROVE TypeOK'
    OBVIOUS
  <1>0. NoTask \in Task /\ current \in Task /\ ran \in Seq(Task)
    BY DEF NoTask, Task, Bodies, TypeOK, TaskTypeOK
  <1>1. CASE Schedule
    <2>1. PICK body \in {"plain", "again"}, d \in Defers : Enqueue(body, d)
      BY <1>1 DEF Schedule
    <2>2. body \in Bodies /\ d \in Nat
      BY DefersAssumption DEF Bodies
    <2>3. tasks' \in SUBSET Task /\ order' \in Nat /\ ready' \in BOOLEAN /\ stopped' \in BOOLEAN
      BY <2>1, <2>2, EnqueueType
    <2> QED BY <1>1, <2>3 DEF Schedule, TypeOK, TaskTypeOK, execVars
  <1>2. CASE Destroy
    <2>1. "stop" \in Bodies /\ 0 \in Nat /\ Enqueue("stop", 0)
      BY <1>2 DEF Destroy, Bodies
    <2>2. tasks' \in SUBSET Task /\ order' \in Nat /\ ready' \in BOOLEAN /\ stopped' \in BOOLEAN
      BY <2>1, EnqueueType
    <2> QED BY <1>2, <2>2 DEF Destroy, TypeOK, TaskTypeOK, execVars
  <1>3. CASE Join \/ Check
    BY <1>3 DEF Join, Check, TypeOK, TaskTypeOK, taskVars, queueVars, execVars
  <1>4. CASE WaitLook
    <2>1. until' \in Nat /\ tpc' \in {"untimed", "execute", "timed"}
      BY <1>4 DEF WaitLook, TypeOK, TaskTypeOK, Task
    <2> QED BY <1>4, <2>1 DEF WaitLook, TypeOK, TaskTypeOK, taskVars, queueVars, execVars
  <1>5. CASE Signalled
    BY <1>5 DEF Signalled, TypeOK, TaskTypeOK, execVars
  <1>6. CASE TimedOut
    BY <1>6 DEF TimedOut, TypeOK, TaskTypeOK, taskVars, queueVars, execVars
  <1>7. CASE Enter
    BY <1>7, DurationAssumption DEF Enter, EnterExecute, TypeOK, TaskTypeOK, queueVars
  <1>8. CASE tpc = "execute" /\ PopReady /\ UNCHANGED <<tpc, until, stop_requested, opc>>
    <2>1. tasks' \in SUBSET Task /\ current' \in Task
      BY <1>8 DEF PopReady, TypeOK, TaskTypeOK
    <2> QED BY <1>8, <2>1 DEF PopReady, TypeOK, TaskTypeOK
  <1>9. CASE tpc = "execute" /\ LeaveExecute /\ UNCHANGED <<tpc, until, stop_requested, opc>>
    BY <1>9 DEF LeaveExecute, TypeOK, TaskTypeOK, queueVars
  <1>10. CASE tpc = "execute" /\ RereadClock /\ UNCHANGED <<tpc, until, stop_requested, opc>>
    BY <1>10 DEF RereadClock, TypeOK, TaskTypeOK, queueVars
  <1>11. CASE Run
    <2>1. ran' \in Seq(Task)
      <3>1. ran' = Append(ran, current)
        BY <1>11 DEF Run, RunTask
      <3> QED BY <1>0, <3>1
    <2>2. tasks' \in SUBSET Task /\ order' \in Nat /\ ready' \in BOOLEAN /\ stopped' \in BOOLEAN
      <3>1. CASE Enqueue("plain", 1)
        <4>1. "plain" \in Bodies /\ 1 \in Nat
          BY DEF Bodies
        <4> QED BY <3>1, <4>1, EnqueueType
      <3>2. CASE UNCHANGED queueVars
        BY <3>2 DEF queueVars, TypeOK, TaskTypeOK
      <3> QED BY <1>11, <3>1, <3>2 DEF Run, RunTask
    <2>3. stop_requested' \in BOOLEAN
      BY <1>11, Zenon DEF Run
    <2>4. UNCHANGED <<clock, omit_notify, enow, edeadline, current, tpc, until, opc>> /\ epc' = "clock"
      BY <1>11 DEF Run, RunTask
    <2> QED BY <2>1, <2>2, <2>3, <2>4 DEF TypeOK, TaskTypeOK
  <1>12. CASE Return
    BY <1>0, <1>12 DEF Return, ReturnExecute, TypeOK, TaskTypeOK, queueVars
  <1>13. CASE Time
    BY <1>13 DEF Time, Tick, TypeOK, TaskTypeOK, queueVars, execVars
  <1>14. CASE UNCHANGED vars
    BY <1>14 DEF vars, TypeOK, TaskTypeOK, taskVars, queueVars, execVars
  <1> QED
    BY <1>1, <1>2, <1>3, <1>4, <1>5, <1>6, <1>7, <1>8, <1>9, <1>10, <1>11, <1>12, <1>13, <1>14
    DEF Next, Execute, Finished

-----------------------------------------------------------------------------
(* Sleeping.                                                               *)

\* A schedule never leaves a sleeping thread unaware of a closer deadline.
LEMMA EnqueueAwake ==
    ASSUME TypeOK, GuardScope, NoOverslept, NEW body \in Bodies, NEW d \in Nat, Enqueue(body, d),
           UNCHANGED <<tpc, until>>
    PROVE  NoOverslept'
  <1> DEFINE t == [order |-> order, deadline |-> clock + d, body |-> body]
  <1>1. tasks' = tasks \cup {t} /\ t.deadline = clock + d /\ clock + d \in Nat
    BY DEF Enqueue, TypeOK, TaskTypeOK
  <1> HIDE DEF t
  <1>2. CASE Notifies(clock + d)
    <2>1. ready'
      BY <1>2 DEF Enqueue
    <2> QED BY <2>1 DEF NoOverslept
  <1>3. CASE ~Notifies(clock + d)
    <2>1. ready' = ready
      BY <1>3 DEF Enqueue
    <2>2. CASE omit_notify
      BY <2>2 DEF GuardScope, NoOverslept
    <2>3. CASE ~omit_notify
      <3>1. PICK u \in tasks : ~(clock + d < u.deadline)
        BY <1>3, <2>3 DEF Notifies
      <3>2. u.deadline \in Nat /\ u.deadline <= t.deadline
        BY <1>1, <3>1 DEF TypeOK, TaskTypeOK, Task
      <3>3. tpc = "timed" /\ ~ready => until <= t.deadline
        BY <3>1, <3>2, <1>1 DEF NoOverslept, TypeOK
      <3> QED BY <1>1, <2>1, <3>1, <3>3 DEF NoOverslept
    <2> QED BY <2>2, <2>3
  <1> QED BY <1>2, <1>3

LEMMA AwakeStep == TypeOK /\ GuardScope /\ NoOverslept /\ [Next]_vars => GuardScope' /\ NoOverslept'
  <1> SUFFICES ASSUME TypeOK, GuardScope, NoOverslept, [Next]_vars
               PROVE  GuardScope' /\ NoOverslept'
    OBVIOUS
  <1>1. CASE Schedule
    <2>1. PICK body \in {"plain", "again"}, d \in Defers : Enqueue(body, d)
      BY <1>1 DEF Schedule
    <2>2. body \in Bodies /\ d \in Nat
      BY DefersAssumption DEF Bodies
    <2>3. UNCHANGED <<tpc, until, omit_notify, epc>>
      BY <1>1 DEF Schedule, execVars
    <2>4. NoOverslept'
      BY <2>1, <2>2, <2>3, EnqueueAwake
    <2> QED BY <2>3, <2>4 DEF GuardScope
  <1>2. CASE Destroy
    <2>1. "stop" \in Bodies /\ 0 \in Nat /\ Enqueue("stop", 0)
      BY <1>2 DEF Destroy, Bodies
    <2>2. UNCHANGED <<tpc, until, omit_notify, epc>>
      BY <1>2 DEF Destroy, execVars
    <2>3. NoOverslept'
      BY <2>1, <2>2, EnqueueAwake
    <2> QED BY <2>2, <2>3 DEF GuardScope
  <1>3. CASE Join \/ Time \/ UNCHANGED vars
    <2>1. UNCHANGED <<tpc, until, omit_notify, epc, tasks, ready>>
      BY <1>3 DEF Join, Time, Tick, vars, taskVars, queueVars, execVars
    <2> QED BY <2>1 DEF GuardScope, NoOverslept
  <1>4. CASE Check
    <2>1. tpc = "check" /\ tpc' \in {"done", "wait"} /\ UNCHANGED <<omit_notify, epc>>
      BY <1>4 DEF Check, taskVars, execVars
    <2> QED BY <2>1 DEF GuardScope, NoOverslept
  <1>5. CASE WaitLook
    <2>1. UNCHANGED <<omit_notify, epc, tasks, ready>> /\ tpc = "wait"
      BY <1>5 DEF WaitLook, taskVars, queueVars, execVars
    <2>2. GuardScope'
      BY <2>1 DEF GuardScope
    <2>3. CASE tasks = {} /\ tpc' = "untimed"
      BY <2>1, <2>2, <2>3 DEF NoOverslept
    <2>4. CASE \E t \in tasks : /\ IsTop(t)
                              /\ until' = t.deadline
                              /\ tpc' = IF clock >= t.deadline THEN "execute" ELSE "timed"
      <3>1. PICK t \in tasks : /\ IsTop(t)
                               /\ until' = t.deadline
                               /\ tpc' = IF clock >= t.deadline THEN "execute" ELSE "timed"
        BY <2>4
      <3>2. \A u \in tasks : t.deadline <= u.deadline
        BY <3>1 DEF IsTop, Precedes, TypeOK, TaskTypeOK, Task
      <3>3. tpc' # "untimed"
        BY <3>1
      <3> QED BY <2>1, <2>2, <3>1, <3>2, <3>3 DEF NoOverslept
    <2> QED BY <1>5, <2>2, <2>3, <2>4 DEF WaitLook
  <1>6. CASE Signalled \/ TimedOut
    <2>1. /\ tpc \in {"timed", "untimed"} /\ tpc' \in {"wait", "execute"}
          /\ UNCHANGED <<omit_notify, epc>>
      BY <1>6 DEF Signalled, TimedOut, taskVars, execVars
    <2> QED BY <2>1 DEF GuardScope, NoOverslept
  <1>7. CASE Enter \/ Execute \/ Run \/ Return
    <2>1. tpc = "execute" /\ tpc' \in {"execute", "check"}
      BY <1>7 DEF Enter, Execute, Run, Return
    <2>2. NoOverslept'
      BY <2>1 DEF NoOverslept
    <2>3. CASE Return
      BY <2>2, <2>3 DEF Return, ReturnExecute, GuardScope
    <2>4. CASE Enter
      BY <2>2, <2>4 DEF Enter, EnterExecute, GuardScope
    <2>5. CASE Execute
      BY <2>2, <2>5 DEF Execute, PopReady, LeaveExecute, RereadClock, GuardScope
    <2>6. CASE Run
      BY <2>2, <2>6 DEF Run, RunTask, GuardScope
    <2> QED BY <1>7, <2>2, <2>3, <2>4, <2>5, <2>6
  <1> QED BY <1>1, <1>2, <1>3, <1>4, <1>5, <1>6, <1>7 DEF Next, Finished

\* Every variable of thread_queue keeps its type.
THEOREM TypeCorrect == Spec => []TypeOK
  BY TypeInit, TypeStep, PTL DEF Spec

\* The thread never sleeps past the closest deadline without a signal.
THEOREM NeverOversleeps == Spec => []NoOverslept
  <1>1. Init => GuardScope /\ NoOverslept
    BY DEF Init, TaskInit, GuardScope, NoOverslept
  <1> QED BY <1>1, TypeInit, TypeStep, AwakeStep, PTL DEF Spec

-----------------------------------------------------------------------------
(* Order.                                                                  *)

\* A task that is scheduled is younger than all the others, so nothing
\* scheduled before overtakes it.
LEMMA EnqueueOrder ==
    ASSUME TypeOK, NEW body \in Bodies, NEW d \in Nat, Enqueue(body, d)
    PROVE  /\ order' = order + 1
           /\ \A t \in tasks' : t \in tasks \/ t.order = order
           /\ \A t \in tasks' : t \in Task
           /\ \A r \in Task : r.order < order /\ (\A t \in tasks : KeepsTurn(r, t)) =>
                               \A t \in tasks' : KeepsTurn(r, t)
  <1>1. /\ order' = order + 1
        /\ tasks' = tasks \cup {[order |-> order, deadline |-> clock + d, body |-> body]}
    BY DEF Enqueue
  <1>2. \A t \in tasks' : t \in tasks \/ t.order = order
    BY <1>1
  <1>3. \A t \in tasks' : t \in Task
    BY EnqueueType
  <1>4. ASSUME NEW r \in Task, r.order < order, \A t \in tasks : KeepsTurn(r, t), NEW t \in tasks'
        PROVE  KeepsTurn(r, t)
    <2>1. CASE t \in tasks
      BY <1>4, <2>1
    <2>2. CASE t.order = order
      BY <1>4, <2>2 DEF KeepsTurn, Task, TypeOK, TaskTypeOK
    <2> QED BY <1>2, <2>1, <2>2
  <1> QED BY <1>1, <1>2, <1>3, <1>4

\* A task appended to the ones run: it was due and overtook none of them.
LEMMA AppendOrder ==
    ASSUME IInv, epc = "run", ran' = Append(ran, current), clock' = clock
    PROVE  /\ RunsInOrder'
           /\ \A i \in 1..Len(ran') : ran'[i] \in Task /\ (ran'[i] = current \/ \E k \in 1..Len(ran) : ran'[i] = ran[k])
  <1>1. ran \in Seq(Task) /\ current \in Task
    BY DEF IInv, TypeOK, TaskTypeOK
  <1>2. /\ Len(ran') = Len(ran) + 1 /\ Len(ran) \in Nat
        /\ \A i \in 1..Len(ran) : ran'[i] = ran[i] /\ ran[i] \in Task
        /\ ran'[Len(ran) + 1] = current
    BY <1>1, AppendProperties, ElementOfSeq
  <1>3. \A i \in 1..Len(ran') :
           \/ i \in 1..Len(ran) /\ ran'[i] = ran[i]
           \/ i = Len(ran) + 1 /\ ran'[i] = current
    BY <1>2
  <1>4. \A i \in 1..Len(ran') : ran'[i].deadline <= clock'
    BY <1>2, <1>3 DEF IInv, OrderInv, RunsInOrder
  <1>5. ASSUME NEW i \in 1..Len(ran'), NEW j \in 1..Len(ran'), i < j
        PROVE  ~(ran'[j].order < ran'[i].order /\ ran'[j].deadline <= ran'[i].deadline)
    <2>1. CASE j \in 1..Len(ran)
      BY <1>2, <1>5, <2>1 DEF IInv, RunsInOrder
    <2>2. CASE j = Len(ran) + 1 /\ ran'[j] = current
      <3>1. i \in 1..Len(ran)
        BY <1>2, <1>5, <2>2
      <3> QED BY <1>2, <2>2, <3>1 DEF IInv, OrderInv, KeepsTurn
    <2> QED BY <1>3, <2>1, <2>2
  <1>6. RunsInOrder'
    BY <1>4, <1>5 DEF RunsInOrder
  <1> QED BY <1>1, <1>2, <1>3, <1>6

LEMMA OrderStep == IInv /\ [Next]_vars => OrderInv' /\ RunsInOrder'
  <1> SUFFICES ASSUME IInv, [Next]_vars PROVE OrderInv' /\ RunsInOrder'
    OBVIOUS
  <1>0. /\ TypeOK /\ clock \in Nat /\ order \in Nat /\ enow \in Nat /\ current \in Task
        /\ \A t \in tasks : t \in Task
        /\ ran \in Seq(Task) /\ Len(ran) \in Nat /\ \A i \in 1..Len(ran) : ran[i] \in Task
    BY ElementOfSeq, LenProperties DEF IInv, TypeOK, TaskTypeOK
  <1>a. ASSUME NEW body \in Bodies, NEW d \in Nat, Enqueue(body, d), UNCHANGED <<clock, execVars>>
        PROVE  OrderInv' /\ RunsInOrder'
    <2>1. UNCHANGED <<clock, epc, enow, current, ran>>
      BY <1>a DEF execVars
    <2>2. RunsInOrder'
      BY <2>1 DEF IInv, RunsInOrder
    <2>3. order' = order + 1 /\ \A t \in tasks' : t.order < order'
      BY <1>0, <1>a, EnqueueOrder DEF IInv, OrderInv, Task
    <2>4. \A i \in 1..Len(ran') : ran'[i].order < order' /\ ran'[i].deadline <= clock'
      BY <1>0, <2>1, <2>3 DEF IInv, OrderInv, Task
    <2>5. \A i \in 1..Len(ran') : \A t \in tasks' : KeepsTurn(ran'[i], t)
      BY <1>0, <1>a, <2>1, EnqueueOrder DEF IInv, OrderInv
    <2>6. epc' = "run" =>
            /\ current'.order < order'
            /\ current'.deadline <= clock'
            /\ \A t \in tasks' : KeepsTurn(current', t)
            /\ \A i \in 1..Len(ran') : KeepsTurn(ran'[i], current')
      <3> SUFFICES ASSUME epc = "run"
                   PROVE  /\ current.order < order'
                          /\ current.deadline <= clock
                          /\ \A t \in tasks' : KeepsTurn(current, t)
                          /\ \A i \in 1..Len(ran) : KeepsTurn(ran[i], current)
        BY <2>1
      <3>1. current.order < order'
        BY <1>0, <2>3 DEF IInv, OrderInv, Task
      <3>2. \A t \in tasks' : KeepsTurn(current, t)
        BY <1>0, <1>a, EnqueueOrder DEF IInv, OrderInv
      <3> QED BY <3>1, <3>2 DEF IInv, OrderInv
    <2>7. enow' <= clock'
      BY <2>1 DEF IInv, OrderInv
    <2> QED BY <2>2, <2>3, <2>4, <2>5, <2>6, <2>7 DEF OrderInv, KeepsTurn
  <1>1. CASE Schedule
    <2>1. PICK body \in {"plain", "again"}, d \in Defers : Enqueue(body, d)
      BY <1>1 DEF Schedule
    <2>2. body \in Bodies /\ d \in Nat /\ UNCHANGED <<clock, execVars>>
      BY <1>1, DefersAssumption DEF Bodies, Schedule
    <2> QED BY <1>a, <2>1, <2>2
  <1>2. CASE Destroy
    <2>1. "stop" \in Bodies /\ 0 \in Nat /\ Enqueue("stop", 0) /\ UNCHANGED <<clock, execVars>>
      BY <1>2 DEF Destroy, Bodies
    <2> QED BY <1>a, <2>1
  <1>3. CASE Join \/ Check \/ WaitLook \/ Signalled \/ TimedOut \/ UNCHANGED vars
    <2>1. UNCHANGED <<clock, tasks, order, epc, enow, current, ran>>
      BY <1>3 DEF Join, Check, WaitLook, Signalled, TimedOut, vars, taskVars, queueVars, execVars
    <2> QED BY <2>1 DEF IInv, OrderInv, RunsInOrder, KeepsTurn
  <1>4. CASE Time
    <2>1. UNCHANGED <<tasks, order, epc, enow, current, ran>> /\ clock' = clock + 1
      BY <1>4 DEF Time, Tick, queueVars, execVars
    <2>2. RunsInOrder'
      <3>1. \A i \in 1..Len(ran) : ran[i].deadline \in Nat /\ ran[i].deadline <= clock
        BY <1>0 DEF IInv, RunsInOrder, Task
      <3>2. \A i \in 1..Len(ran') : ran'[i].deadline <= clock'
        BY <1>0, <2>1, <3>1
      <3> QED BY <2>1, <3>2 DEF IInv, RunsInOrder
    <2>3. /\ enow' <= clock'
          /\ \A i \in 1..Len(ran') : ran'[i].deadline <= clock'
      BY <1>0, <2>1, <2>2 DEF IInv, OrderInv, RunsInOrder
    <2>4. epc' = "run" => current'.deadline <= clock'
      BY <1>0, <2>1 DEF IInv, OrderInv, Task
    <2>5. /\ \A t \in tasks' : t.order < order'
          /\ \A i \in 1..Len(ran') : ran'[i].order < order'
          /\ \A i \in 1..Len(ran') : \A t \in tasks' : KeepsTurn(ran'[i], t)
          /\ epc' = "run" =>
                /\ current'.order < order'
                /\ \A t \in tasks' : KeepsTurn(current', t)
                /\ \A i \in 1..Len(ran') : KeepsTurn(ran'[i], current')
      BY <2>1 DEF IInv, OrderInv
    <2> QED BY <2>2, <2>3, <2>4, <2>5 DEF OrderInv, KeepsTurn
  <1>5. CASE Enter \/ Return \/ (Execute /\ RereadClock) \/ (Execute /\ LeaveExecute)
    <2>1. UNCHANGED <<clock, tasks, order, ran>> /\ epc' # "run" /\ enow' \in {0, clock, enow}
      BY <1>5 DEF Enter, EnterExecute, Return, ReturnExecute, RereadClock, LeaveExecute, queueVars, execVars
    <2>2. RunsInOrder'
      BY <2>1 DEF IInv, RunsInOrder
    <2>3. enow' <= clock'
      BY <1>0, <2>1 DEF IInv, OrderInv
    <2> QED BY <2>1, <2>2, <2>3 DEF IInv, OrderInv, KeepsTurn
  <1>6. CASE Execute /\ PopReady
    <2>1. PICK t \in tasks : Due(t) /\ current' = t /\ tasks' = tasks \ {t}
      BY <1>6 DEF PopReady
    <2>2. UNCHANGED <<clock, order, enow, ran>>
      BY <1>6 DEF PopReady
    <2>3. RunsInOrder'
      BY <2>2 DEF IInv, RunsInOrder
    <2>4. t \in Task /\ t.order < order /\ t.deadline <= clock
      BY <1>0, <2>1 DEF Due, IInv, OrderInv, Task
    <2>5. \A u \in tasks : KeepsTurn(t, u)
      BY <1>0, <2>1 DEF Due, IsTop, Precedes, KeepsTurn, Task
    <2>6. \A i \in 1..Len(ran) : KeepsTurn(ran[i], t)
      BY <2>1 DEF IInv, OrderInv
    <2>7. \A u \in tasks' : u \in tasks
      BY <2>1
    <2> QED BY <2>1, <2>2, <2>3, <2>4, <2>5, <2>6, <2>7 DEF IInv, OrderInv, KeepsTurn
  <1>7. CASE Run
    <2>1. epc = "run" /\ ran' = Append(ran, current) /\ epc' = "clock" /\ UNCHANGED <<clock, enow>>
      BY <1>7 DEF Run, RunTask
    <2>2. /\ RunsInOrder'
          /\ \A i \in 1..Len(ran') : ran'[i] \in Task /\ (ran'[i] = current \/ \E k \in 1..Len(ran) : ran'[i] = ran[k])
      BY <2>1, AppendOrder
    <2>3. \A i \in 1..Len(ran') : /\ ran'[i] \in Task
                                  /\ ran'[i].order < order
                                  /\ ran'[i].deadline <= clock
                                  /\ \A t \in tasks : KeepsTurn(ran'[i], t)
      BY <2>1, <2>2 DEF IInv, OrderInv
    <2>4. CASE Enqueue("plain", 1)
      <3>1. "plain" \in Bodies /\ 1 \in Nat
        BY DEF Bodies
      <3>2. /\ order' = order + 1
            /\ \A t \in tasks' : t \in tasks \/ t.order = order
            /\ \A t \in tasks' : t \in Task
            /\ \A r \in Task : r.order < order /\ (\A t \in tasks : KeepsTurn(r, t)) =>
                  \A t \in tasks' : KeepsTurn(r, t)
        BY <1>0, <2>4, <3>1, EnqueueOrder
      <3>3. \A t \in tasks' : t.order < order'
        <4>1. SUFFICES ASSUME NEW t \in tasks' PROVE t.order < order + 1
          BY <3>2
        <4>2. CASE t \in tasks
          BY <1>0, <4>2 DEF IInv, OrderInv, Task
        <4>3. CASE t.order = order
          BY <1>0, <4>3
        <4> QED BY <3>2, <4>2, <4>3
      <3>4. \A i \in 1..Len(ran') : ran'[i].order < order' /\ ran'[i].deadline <= clock'
        <4>1. order' = order + 1 /\ clock' = clock
          BY <2>1, <3>2
        <4>2. \A i \in 1..Len(ran') : ran'[i].order \in Nat
          BY <2>3 DEF Task
        <4> QED BY <1>0, <2>3, <4>1, <4>2
      <3>5. \A i \in 1..Len(ran') : \A t \in tasks' : KeepsTurn(ran'[i], t)
        BY <2>3, <3>2
      <3>6. enow' <= clock'
        BY <2>1 DEF IInv, OrderInv
      <3> QED BY <2>1, <2>2, <3>3, <3>4, <3>5, <3>6 DEF OrderInv, KeepsTurn
    <2>5. CASE UNCHANGED queueVars
      <3>1. UNCHANGED <<tasks, order>>
        BY <2>5 DEF queueVars
      <3> QED BY <2>1, <2>2, <2>3, <3>1 DEF IInv, OrderInv, KeepsTurn
    <2> QED BY <1>7, <2>4, <2>5 DEF Run, RunTask
  <1> QED BY <1>1, <1>2, <1>3, <1>4, <1>5, <1>6, <1>7 DEF Next, Execute, Finished

\* Tasks are run in the order of their deadlines and, where these are equal,
\* of their scheduling, and never early.
THEOREM OrderKept == Spec => []RunsInOrder
  <1>1. Init => OrderInv /\ RunsInOrder
    BY DEF Init, TaskInit, OrderInv, RunsInOrder
  <1>2. IInv /\ [Next]_vars => IInv'
    BY TypeStep, OrderStep DEF IInv
  <1>3. IInv => RunsInOrder
    BY DEF IInv
  <1> QED BY <1>1, <1>2, <1>3, TypeInit, PTL DEF Spec, IInv

-----------------------------------------------------------------------------
(* ui_queue.                                                               *)

\* _omit_notify is set only while the message loop is inside execute_ready.
UiScope ==
    /\ omit_notify => epc \in {"run", "clock", "lock"}
    /\ epc # "out" <=> upc = "execute"

\* A message, the timer or a thread about to post is under way.
Coming == posted > 0 \/ timer # Never \/ \E t \in Threads : pending[t] # Never

\* While a task waits a wakeup is coming, the loop has yet to look at the queue
\* under the lock, or it has looked and will ask for a wakeup.
WakeupComes ==
    tasks # {} => \/ Coming
                  \/ epc \in {"lock", "run", "clock"}
                  \/ (epc = "end" \/ upc = "wakeup") /\ uwake # Never

UiInv == UiTypeOK /\ UiScope /\ WakeupComes

LEMMA UiInitially == UiInit => UiInv
  <1> SUFFICES ASSUME UiInit PROVE UiInv
    OBVIOUS
  <1>1. NoTask \in Task
    BY DEF NoTask, Task, Bodies
  <1>2. ran \in Seq(Task)
    BY DEF UiInit, TaskInit
  <1>3. TaskTypeOK
    BY <1>1, <1>2 DEF UiInit, TaskInit, TaskTypeOK
  <1> QED BY <1>3 DEF UiInit, TaskInit, UiInv, UiTypeOK, UiScope, WakeupComes

\* A task that enters the queue.
LEMMA UiEnqueueType ==
    ASSUME UiTypeOK, NEW body \in Bodies, NEW d \in Nat, Enqueue(body, d)
    PROVE  /\ tasks' \in SUBSET Task
           /\ order' \in Nat
           /\ ready' \in BOOLEAN
           /\ stopped' \in BOOLEAN
  <1> DEFINE t == [order |-> order, deadline |-> clock + d, body |-> body]
  <1>1. t \in Task
    BY DEF UiTypeOK, TaskTypeOK, Task
  <1>2. tasks' = tasks \cup {t} /\ order' = order + 1 /\ stopped' = stopped
    BY DEF Enqueue
  <1>3. ready' = TRUE \/ ready' = ready
    BY DEF Enqueue
  <1>4. ready' \in BOOLEAN
    BY <1>3 DEF UiTypeOK, TaskTypeOK
  <1>5. stopped' \in BOOLEAN
    BY <1>2 DEF UiTypeOK, TaskTypeOK
  <1> HIDE DEF t
  <1>6. tasks' \in SUBSET Task /\ order' \in Nat
    BY <1>1, <1>2 DEF UiTypeOK, TaskTypeOK
  <1> QED BY <1>4, <1>5, <1>6

LEMMA UiScheduleStep ==
    ASSUME UiInv, NEW t \in Threads, UiSchedule(t)
    PROVE  UiInv'
  <1>1. PICK body \in {"plain", "again", "throw"}, d \in Defers : TaskScheduled(t, body, d)
    BY DEF UiSchedule
  <1>2. body \in Bodies /\ d \in Nat /\ d # Never
    BY DefersAssumption, NeverAssumption DEF Bodies
  <1>3. Enqueue(body, d) /\ pending' = [pending EXCEPT ![t] = IF Notifies(clock + d) THEN d ELSE Never]
    BY <1>1 DEF TaskScheduled
  <1>4. /\ UNCHANGED <<clock, omit_notify, epc, enow, edeadline, current, ran, posted, timer, upc, uwake>>
        /\ pending[t] = Never
    BY DEF UiSchedule, execVars
  <1>5. tasks' \in SUBSET Task /\ order' \in Nat /\ ready' \in BOOLEAN /\ stopped' \in BOOLEAN
    BY <1>2, <1>3, UiEnqueueType DEF UiInv
  <1>6. pending' \in [Threads -> Nat \cup {Never}]
    BY <1>2, <1>3 DEF UiInv, UiTypeOK
  <1>7. UiTypeOK' /\ UiScope'
    BY <1>4, <1>5, <1>6 DEF UiInv, UiTypeOK, TaskTypeOK, UiScope
  <1>8. WakeupComes'
    <2>1. CASE Notifies(clock + d)
      <3>1. pending'[t] # Never
        BY <2>1, <1>2, <1>3 DEF UiInv, UiTypeOK
      <3> QED BY <3>1 DEF WakeupComes, Coming
    <2>2. CASE omit_notify
      BY <2>2, <1>4 DEF UiInv, UiScope, WakeupComes
    <2>3. CASE ~Notifies(clock + d) /\ ~omit_notify
      <3>1. tasks # {}
        BY <2>3 DEF Notifies
      <3>2. pending' = pending
        BY <2>3, <1>3, <1>4 DEF UiInv, UiTypeOK
      <3> QED BY <3>1, <3>2, <1>4 DEF UiInv, WakeupComes, Coming
    <2> QED BY <2>1, <2>2, <2>3
  <1> QED BY <1>7, <1>8 DEF UiInv

\* A wakeup that is acted upon is a message or a timer.
LEMMA WakeupPosts ==
    ASSUME UiTypeOK, NEW d \in Nat, ScheduleWakeup(d)
    PROVE  posted' \in Nat /\ timer' \in Nat \cup {Never} /\ (posted' > 0 \/ timer' # Never)
  <1>1. clock \in Nat /\ posted \in Nat /\ timer \in Nat \cup {Never}
    BY DEF UiTypeOK, TaskTypeOK
  <1>2. CASE d = 0
    BY <1>1, <1>2 DEF ScheduleWakeup
  <1>3. CASE d # 0
    <2>1. timer' = clock + d /\ posted' = posted /\ clock + d \in Nat
      BY <1>1, <1>3 DEF ScheduleWakeup
    <2> QED BY <2>1, <1>1, NeverAssumption
  <1> QED BY <1>2, <1>3

LEMMA UiWakeupStep ==
    ASSUME UiInv, NEW t \in Threads, Wakeup(t)
    PROVE  UiInv'
  <1>1. PICK d \in Nat : d = pending[t]
    BY DEF Wakeup, UiInv, UiTypeOK
  <1>2. ScheduleWakeup(d) /\ pending' = [pending EXCEPT ![t] = Never]
    BY <1>1 DEF Wakeup
  <1>3. UNCHANGED <<clock, tasks, order, stopped, ready, omit_notify, epc, enow, edeadline, current, ran, upc, uwake>>
    BY DEF Wakeup, taskVars, queueVars, execVars
  <1>4. posted' \in Nat /\ timer' \in Nat \cup {Never} /\ (posted' > 0 \/ timer' # Never)
    BY <1>2, WakeupPosts DEF UiInv
  <1>5. pending' \in [Threads -> Nat \cup {Never}]
    BY <1>2 DEF UiInv, UiTypeOK
  <1>6. UiTypeOK' /\ UiScope'
    BY <1>3, <1>4, <1>5 DEF UiInv, UiTypeOK, TaskTypeOK, UiScope
  <1>7. WakeupComes'
    BY <1>4 DEF WakeupComes, Coming
  <1> QED BY <1>6, <1>7 DEF UiInv

\* execute_ready is entered: it will look at the queue.
LEMMA UiEnterStep ==
    ASSUME UiInv, OnUser \/ OnTimer
    PROVE  UiInv'
  <1>1. /\ posted' \in Nat /\ timer' \in Nat \cup {Never} /\ EnterExecute /\ upc' = "execute"
        /\ pending' = pending /\ uwake' = uwake
    BY DEF OnUser, OnTimer, UiInv, UiTypeOK
  <1>2. /\ UNCHANGED <<clock, tasks, order, stopped, ready, omit_notify, current, ran>>
        /\ enow' \in Nat /\ edeadline' \in Nat /\ epc' = "lock"
    BY <1>1, DurationAssumption DEF EnterExecute, queueVars, UiInv, UiTypeOK, TaskTypeOK
  <1>3. UiTypeOK' /\ UiScope'
    BY <1>1, <1>2 DEF UiInv, UiTypeOK, TaskTypeOK, UiScope
  <1>4. WakeupComes'
    BY <1>2 DEF WakeupComes
  <1> QED BY <1>3, <1>4 DEF UiInv

LEMMA UiExecuteStep ==
    ASSUME UiInv, UiExecute
    PROVE  UiInv'
  <1>1. /\ PopReady \/ RunTask \/ RereadClock
        /\ upc = "execute" /\ UNCHANGED <<posted, timer, pending, upc, uwake>>
    BY DEF UiExecute
  <1>2. current \in Task /\ ran \in Seq(Task)
    BY DEF UiInv, UiTypeOK, TaskTypeOK
  <1>3. CASE PopReady
    <2>1. tasks' \in SUBSET Task /\ current' \in Task
      BY <1>3 DEF PopReady, UiInv, UiTypeOK, TaskTypeOK
    <2>2. UNCHANGED <<clock, order, stopped, ready, enow, edeadline, ran>> /\ omit_notify' = TRUE /\ epc' = "run"
      BY <1>3 DEF PopReady
    <2>3. UiTypeOK' /\ UiScope'
      BY <1>1, <2>1, <2>2 DEF UiInv, UiTypeOK, TaskTypeOK, UiScope
    <2>4. WakeupComes'
      BY <2>2 DEF WakeupComes
    <2> QED BY <2>3, <2>4 DEF UiInv
  <1>4. CASE RunTask
    <2>1. ran' \in Seq(Task)
      <3>1. ran' = Append(ran, current)
        BY <1>4 DEF RunTask
      <3> QED BY <1>2, <3>1
    <2>2. tasks' \in SUBSET Task /\ order' \in Nat /\ ready' \in BOOLEAN /\ stopped' \in BOOLEAN
      <3>1. CASE Enqueue("plain", 1)
        <4>1. "plain" \in Bodies /\ 1 \in Nat
          BY DEF Bodies
        <4> QED BY <3>1, <4>1, UiEnqueueType DEF UiInv
      <3>2. CASE UNCHANGED queueVars
        BY <3>2 DEF queueVars, UiInv, UiTypeOK, TaskTypeOK
      <3> QED BY <1>4, <3>1, <3>2 DEF RunTask
    <2>3. UNCHANGED <<clock, omit_notify, enow, edeadline, current>> /\ epc' = "clock"
      BY <1>4 DEF RunTask
    <2>4. UiTypeOK' /\ UiScope'
      BY <1>1, <2>1, <2>2, <2>3 DEF UiInv, UiTypeOK, TaskTypeOK, UiScope
    <2>5. WakeupComes'
      BY <2>3 DEF WakeupComes
    <2> QED BY <2>4, <2>5 DEF UiInv
  <1>5. CASE RereadClock
    <2>1. /\ UNCHANGED <<clock, tasks, order, stopped, ready, omit_notify, edeadline, current, ran>>
          /\ enow' = clock /\ epc' = "lock"
      BY <1>5 DEF RereadClock, queueVars
    <2>2. UiTypeOK' /\ UiScope'
      BY <1>1, <2>1 DEF UiInv, UiTypeOK, TaskTypeOK, UiScope
    <2>3. WakeupComes'
      BY <2>1 DEF WakeupComes
    <2> QED BY <2>2, <2>3 DEF UiInv
  <1> QED BY <1>1, <1>3, <1>4, <1>5

\* execute_ready ends: with tasks left it has a wakeup to ask for.
LEMMA UiLeaveStep ==
    ASSUME UiInv, Leave
    PROVE  UiInv'
  <1>1. /\ UNCHANGED <<clock, tasks, order, stopped, ready, enow, edeadline, current, ran, posted, timer, pending, upc>>
        /\ omit_notify' = FALSE /\ epc' = "end" /\ upc = "execute"
    BY DEF Leave, LeaveExecute, queueVars
  <1>2. uwake' \in Nat \cup {Never} /\ (tasks # {} => uwake' # Never)
    <2>1. CASE tasks = {} /\ uwake' = Never
      BY <2>1
    <2>2. ASSUME NEW t \in tasks, uwake' = Until(t) PROVE uwake' \in Nat
      <3>1. t.deadline \in Nat /\ enow \in Nat
        BY DEF UiInv, UiTypeOK, TaskTypeOK, Task
      <3> QED BY <2>2, <3>1 DEF Until
    <2> QED BY <2>1, <2>2, NeverAssumption DEF Leave
  <1>3. UiTypeOK' /\ UiScope'
    BY <1>1, <1>2 DEF UiInv, UiTypeOK, TaskTypeOK, UiScope
  <1>4. WakeupComes'
    BY <1>1, <1>2 DEF WakeupComes
  <1> QED BY <1>3, <1>4 DEF UiInv

LEMMA UiCatchStep ==
    ASSUME UiInv, CatchException
    PROVE  UiInv'
  <1>1. /\ UNCHANGED <<clock, tasks, order, stopped, ready, enow, edeadline, current, posted, timer, pending, upc>>
        /\ omit_notify' = FALSE /\ epc' = "end" /\ upc = "execute" /\ uwake' = 0 /\ ran' = Append(ran, current)
    BY DEF CatchException, ThrowTask, queueVars
  <1>2. ran' \in Seq(Task)
    <2>1. current \in Task /\ ran \in Seq(Task)
      BY DEF UiInv, UiTypeOK, TaskTypeOK
    <2> QED BY <2>1, <1>1
  <1>3. UiTypeOK' /\ UiScope'
    BY <1>1, <1>2 DEF UiInv, UiTypeOK, TaskTypeOK, UiScope
  <1>4. WakeupComes'
    BY <1>1, NeverAssumption DEF WakeupComes
  <1> QED BY <1>3, <1>4 DEF UiInv

LEMMA UiReturnStep ==
    ASSUME UiInv, UiReturn
    PROVE  UiInv'
  <1>1. /\ UNCHANGED <<clock, tasks, order, stopped, ready, omit_notify, ran, posted, timer, pending, uwake>>
        /\ epc = "end" /\ epc' = "out" /\ enow' = 0 /\ edeadline' = 0 /\ current' = NoTask /\ upc' = "wakeup"
    BY DEF UiReturn, ReturnExecute, queueVars
  <1>2. NoTask \in Task
    BY DEF NoTask, Task, Bodies
  <1>3. UiTypeOK' /\ UiScope'
    BY <1>1, <1>2 DEF UiInv, UiTypeOK, TaskTypeOK, UiScope
  <1>4. WakeupComes'
    BY <1>1 DEF UiInv, WakeupComes, Coming
  <1> QED BY <1>3, <1>4 DEF UiInv

\* The wakeup execute_ready asked for is acted upon.
LEMMA UiRearmStep ==
    ASSUME UiInv, Rearm
    PROVE  UiInv'
  <1>1. /\ UNCHANGED <<clock, tasks, order, stopped, ready, omit_notify, epc, enow, edeadline, current, ran, pending>>
        /\ upc = "wakeup" /\ upc' = "idle" /\ uwake' = Never
    BY DEF Rearm, taskVars, queueVars, execVars
  <1>2. posted' \in Nat /\ timer' \in Nat \cup {Never}
        /\ (uwake # Never => posted' > 0 \/ timer' # Never)
        /\ (uwake = Never => posted' = posted /\ timer' = timer)
    <2>1. CASE uwake = Never
      BY <2>1 DEF Rearm, UiInv, UiTypeOK
    <2>2. CASE uwake # Never
      <3>1. uwake \in Nat /\ ScheduleWakeup(uwake)
        BY <2>2 DEF Rearm, UiInv, UiTypeOK
      <3>2. PICK d \in Nat : d = uwake
        BY <3>1
      <3> QED BY <2>2, <3>1, <3>2, WakeupPosts DEF UiInv
    <2> QED BY <2>1, <2>2
  <1>3. UiTypeOK' /\ UiScope'
    BY <1>1, <1>2 DEF UiInv, UiTypeOK, TaskTypeOK, UiScope
  <1>4. WakeupComes'
    <2>1. epc = "out"
      BY <1>1 DEF UiInv, UiTypeOK, TaskTypeOK, UiScope
    <2> QED BY <1>1, <1>2, <2>1 DEF UiInv, WakeupComes, Coming
  <1> QED BY <1>3, <1>4 DEF UiInv

LEMMA UiPreserved == UiInv /\ [UiNext]_uiVars => UiInv'
  <1> SUFFICES ASSUME UiInv, [UiNext]_uiVars PROVE UiInv'
    OBVIOUS
  <1>1. CASE Stop
    <2>1. /\ UNCHANGED <<clock, order, ready, omit_notify, epc, enow, edeadline, current, ran, posted, timer, pending, upc, uwake>>
          /\ tasks' = {} /\ stopped' = TRUE
      BY <1>1 DEF Stop, DropAll, execVars
    <2>2. UiTypeOK' /\ UiScope'
      BY <2>1 DEF UiInv, UiTypeOK, TaskTypeOK, UiScope
    <2> QED BY <2>1, <2>2 DEF UiInv, WakeupComes
  <1>2. CASE UiTime
    <2>1. /\ UNCHANGED <<tasks, order, stopped, ready, omit_notify, epc, enow, edeadline, current, ran, posted, timer, pending, upc, uwake>>
          /\ clock' = clock + 1
      BY <1>2 DEF UiTime, Tick, queueVars, execVars
    <2>2. UiTypeOK' /\ UiScope'
      BY <2>1 DEF UiInv, UiTypeOK, TaskTypeOK, UiScope
    <2> QED BY <2>1, <2>2 DEF UiInv, WakeupComes, Coming
  <1>3. CASE Idle \/ UNCHANGED uiVars
    <2>1. UNCHANGED <<clock, tasks, order, stopped, ready, omit_notify, epc, enow, edeadline, current, ran, posted, timer, pending, upc, uwake>>
      BY <1>3 DEF Idle, uiVars, taskVars, queueVars, execVars
    <2>2. UiTypeOK' /\ UiScope'
      BY <2>1 DEF UiInv, UiTypeOK, TaskTypeOK, UiScope
    <2> QED BY <2>1, <2>2 DEF UiInv, WakeupComes, Coming
  <1>4. ASSUME NEW t \in Threads, UiSchedule(t) \/ Wakeup(t) PROVE UiInv'
    BY <1>4, UiScheduleStep, UiWakeupStep
  <1>5. CASE OnUser \/ OnTimer \/ UiExecute \/ Leave \/ CatchException \/ UiReturn \/ Rearm
    BY <1>5, UiEnterStep, UiExecuteStep, UiLeaveStep, UiCatchStep, UiReturnStep, UiRearmStep
  <1> QED BY <1>1, <1>2, <1>3, <1>4, <1>5 DEF UiNext

\* While a task waits in the queue of the UI thread, the window has a message or
\* its timer under way, a thread is about to post, or the loop is at work: the
\* wakeups that schedule and execute_ready return are enough, although they are
\* acted upon after the lock was released and a task may throw.
THEOREM MessagesServe == UiSpec => []QueueServed
  <1>1. UiInv => QueueServed
    BY DEF UiInv, UiScope, WakeupComes, Coming, QueueServed, NoTaskStranded, Quiet
  <1> QED BY <1>1, UiInitially, UiPreserved, PTL DEF UiSpec

=================================================================================
