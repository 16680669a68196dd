------------------------ MODULE ProfilingSessionProofs ------------------------
(***************************************************************************)
(* Proofs about ProfilingSession: no call is lost or counted twice between *)
(* a buffer of the profiled process and the frontend's table, and finalize *)
(* ends the session exactly when the frontend has what it needs.           *)
(***************************************************************************)
EXTENDS ProfilingSession, SequenceTheorems, FiniteSetTheorems, TLAPS

-----------------------------------------------------------------------------
(* What is under way between the processes.                                *)

Tokens == Nat \ {0}

TaskSet ==
    [kind : {"finalize", "disconnected"}]
      \cup [kind : {"update"}, token : Tokens]
      \cup [kind : {"metadata"}, token : Tokens, module : Modules]

MessageSet ==
    [kind : {"init", "exiting"}]
      \cup [kind : {"loaded"}, token : Tokens, modules : SUBSET Modules]
      \cup [kind : {"statistics"}, token : Tokens, calls : SUBSET Calls]
      \cup [kind : {"metadata"}, token : Tokens, module : Modules]

RequestSet == [callbacks : SUBSET {"ui", "final"}, stage : {"none", "file", "network"}, token : Nat]

\* The i-th task or message is there and of this kind.
TaskAt(i, k) == i \in 1..Len(tasks) /\ tasks[i].kind = k
At(i, k) == i \in 1..Len(to_front) /\ to_front[i].kind = k

StateTyped ==
    /\ tasks \in Seq(TaskSet)
    /\ to_front \in Seq(MessageSet)
    /\ requests \in [Modules -> RequestSet]
    /\ token \in Tokens
    /\ update_request \in 0..(token - 1)
    /\ final_request \in 0..(token - 1)
    /\ remaining \in Nat
    /\ front \in {"open", "closing", "closed"}
    /\ owner \in {"alive", "joining", "joined"}
    /\ connection \in {"none", "null", "live"}

\* Calls are numbered as they are made, and nothing else is kept anywhere.
CallsTyped ==
    /\ made \in SUBSET Calls
    /\ IsFiniteSet(made)
    /\ \A c \in made : c[2] <= Cardinality(made)
    /\ open \subseteq made /\ buffered \subseteq made /\ unread \subseteq made /\ analyzed \subseteq made /\ statistics \subseteq made
    /\ due \subseteq made \ buffered
    /\ \A i \in Nat : At(i, "statistics") => to_front[i].calls \subseteq made
    /\ reported \subseteq ModulesOf(made)

\* Before the worker has connected nothing has left the buffers.
Started ==
    connection = "none" =>
        /\ front = "closed" /\ to_front = <<>> /\ ~initialized /\ ~exit_requested
        /\ analyzed = {} /\ statistics = {} /\ reported = {}

-----------------------------------------------------------------------------
(* The exit: one finalize, one exiting, one update of finalize.            *)

ExitInOrder ==
    /\ owner = "alive" => ~exit_requested /\ \A i \in Nat : ~TaskAt(i, "finalize")
    /\ \A i, j \in Nat : TaskAt(i, "finalize") /\ TaskAt(j, "finalize") => i = j
    /\ \A i \in Nat : TaskAt(i, "finalize") => ~exit_requested
    /\ \A i \in Nat : At(i, "exiting") => exit_requested /\ final_request = 0
    /\ \A i, j \in Nat : At(i, "exiting") /\ At(j, "exiting") => i = j
    /\ final_request # 0 => exit_requested
    /\ owner # "alive" => open = {}
    /\ exit_requested => due \cap unread = {}

-----------------------------------------------------------------------------
(* Updates: each has one task and then one answer.                         *)

UpdatesInOrder ==
    /\ \A i \in Nat : At(i, "init") => i = 1 /\ ~initialized
    /\ ~initialized => update_request = 0
    /\ \A i \in Nat : TaskAt(i, "update") => tasks[i].token \in {update_request, final_request}
    /\ \A i \in Nat : At(i, "statistics") => to_front[i].token \in {update_request, final_request}
    /\ \A i, j \in Nat : TaskAt(i, "update") /\ TaskAt(j, "update") /\ tasks[i].token = tasks[j].token => i = j
    /\ \A i, j \in Nat : At(i, "statistics") /\ At(j, "statistics") /\ to_front[i].token = to_front[j].token => i = j
    /\ \A i, j \in Nat : TaskAt(i, "update") /\ At(j, "statistics") => tasks[i].token # to_front[j].token
    /\ \A i \in Nat : At(i, "loaded") => At(i + 1, "statistics") /\ to_front[i].token = to_front[i + 1].token

-----------------------------------------------------------------------------
(* Calls.                                                                  *)

\* The calls that are not under way to the frontend.
Held == open \cup buffered \cup unread \cup analyzed \cup statistics

HeldApart ==
    /\ open \cap unread = {} /\ open \cap analyzed = {} /\ open \cap statistics = {}
    /\ buffered \cap open = {} /\ buffered \cap unread = {} /\ buffered \cap analyzed = {} /\ buffered \cap statistics = {}
    /\ unread \cap analyzed = {} /\ unread \cap statistics = {} /\ analyzed \cap statistics = {}

SentApart ==
    /\ \A i \in Nat : At(i, "statistics") => to_front[i].calls \cap Held = {}
    /\ \A i, j \in Nat : At(i, "statistics") /\ At(j, "statistics") /\ i # j => to_front[i].calls \cap to_front[j].calls = {}

\* A call is lost only to a frontend that is gone.
Kept ==
    connection = "none" \/ front # "closed" =>
        \A c \in made : \/ c \in Held
                        \/ \E i \in Nat : At(i, "statistics") /\ c \in to_front[i].calls

\* Modules are told of before the calls made in them.
Mapped ==
    /\ front # "closed" => \A m \in reported : m \in mappings \/ \E i \in Nat : At(i, "loaded") /\ m \in to_front[i].modules
    /\ front # "closed" => \A i \in Nat : At(i, "statistics") => \A c \in to_front[i].calls :
          c[1] \in mappings \/ \E j \in Nat : j < i /\ At(j, "loaded") /\ c[1] \in to_front[j].modules
    /\ \A c \in statistics : c[1] \in mappings

-----------------------------------------------------------------------------
(* finalize.                                                               *)

\* The answer to finalize comes after all that was due.
FinalLast == \A i \in Nat : At(i, "statistics") /\ to_front[i].token = final_request =>
    /\ due \cap analyzed = {}
    /\ \A j \in Nat : At(j, "statistics") /\ i < j => due \cap to_front[j].calls = {}

NotAwaited == ~enable /\ remaining = 0 /\ \A m \in Modules : "final" \notin requests[m].callbacks

\* finalize waits for nothing before its update was answered.
AwaitsAfter ==
    /\ final_request = 0 => NotAwaited /\ ~finalized
    /\ \A i \in Nat : TaskAt(i, "update") /\ tasks[i].token = final_request => NotAwaited
    /\ \A i \in Nat : At(i, "statistics") /\ to_front[i].token = final_request => NotAwaited

\* A request under way is for metadata that are not there.
RequestsNeeded == \A m \in Modules :
    /\ requests[m].stage # "none" => m \notin metadata
    /\ requests[m].token # 0 => requests[m].stage # "none"

\* What finalize waits for is enough.
AwaitsAll ==
    enable /\ front # "closed" =>
        due \subseteq statistics /\ \A c \in due : "final" \in requests[c[1]].callbacks

IInv ==
    /\ StateTyped /\ CallsTyped /\ Started
    /\ ExitInOrder /\ UpdatesInOrder
    /\ HeldApart /\ SentApart /\ Kept /\ Mapped
    /\ FinalLast /\ AwaitsAfter /\ RequestsNeeded /\ AwaitsAll
    /\ FinalizationSound


-----------------------------------------------------------------------------
(* How tasks and messages move.                                            *)

LEMMA TaskFacts == ASSUME NEW x \in TaskSet PROVE
    /\ x.kind \in {"finalize", "disconnected", "update", "metadata"}
    /\ x.kind \in {"update", "metadata"} => x.token \in Tokens
    /\ x.kind = "metadata" => x.module \in Modules
  BY DEF TaskSet

LEMMA MessageFacts == ASSUME NEW x \in MessageSet PROVE
    /\ x.kind \in {"init", "exiting", "loaded", "statistics", "metadata"}
    /\ x.kind \in {"loaded", "statistics", "metadata"} => x.token \in Tokens
    /\ x.kind = "loaded" => x.modules \in SUBSET Modules
    /\ x.kind = "statistics" => x.calls \in SUBSET Calls
    /\ x.kind = "metadata" => x.module \in Modules
  BY DEF MessageSet

LEMMA AtFacts == ASSUME StateTyped, NEW i \in Nat PROVE
    /\ Len(to_front) \in Nat /\ Len(tasks) \in Nat
    /\ \A k : At(i, k) => to_front[i] \in MessageSet
    /\ \A k : TaskAt(i, k) => tasks[i] \in TaskSet
    /\ At(i, "statistics") \/ At(i, "loaded") => to_front[i].token \in Tokens
    /\ TaskAt(i, "update") => tasks[i].token \in Tokens
  <1>1. /\ Len(to_front) \in Nat /\ Len(tasks) \in Nat
        /\ \A j \in 1..Len(to_front) : to_front[j] \in MessageSet
        /\ \A j \in 1..Len(tasks) : tasks[j] \in TaskSet
    BY LenProperties, ElementOfSeq DEF StateTyped
  <1>2. /\ \A k : At(i, k) => to_front[i] \in MessageSet
        /\ \A k : TaskAt(i, k) => tasks[i] \in TaskSet
    BY <1>1 DEF At, TaskAt
  <1>3. At(i, "statistics") \/ At(i, "loaded") => to_front[i].token \in Tokens
    BY <1>2, MessageFacts DEF At
  <1>4. TaskAt(i, "update") => tasks[i].token \in Tokens
    BY <1>2, TaskFacts DEF TaskAt
  <1> QED BY <1>1, <1>2, <1>3, <1>4

\* Messages that matter moved forward by d places, and none was added.
MessagesShift(d) == \A i \in Nat : \A k \in {"init", "exiting", "loaded", "statistics"} :
    /\ At(i, k)' <=> i # 0 /\ At(i + d, k)
    /\ At(i, k)' => to_front'[i] = to_front[i + d]

\* The same of the tasks that matter.
TasksShift(d) == \A i \in Nat : \A k \in {"finalize", "update"} :
    /\ TaskAt(i, k)' <=> i # 0 /\ TaskAt(i + d, k)
    /\ TaskAt(i, k)' => tasks'[i] = tasks[i + d]

LEMMA MessagesStay == ASSUME UNCHANGED to_front PROVE MessagesShift(0)
  <1> SUFFICES ASSUME NEW i \in Nat, NEW k \in {"init", "exiting", "loaded", "statistics"}
               PROVE  /\ At(i, k)' <=> i # 0 /\ At(i + 0, k)
                      /\ At(i, k)' => to_front'[i] = to_front[i + 0]
    BY DEF MessagesShift
  <1>1. i + 0 = i
    OBVIOUS
  <1>2. i \in 1..Len(to_front) => i # 0
    OBVIOUS
  <1> QED BY <1>1, <1>2 DEF At

LEMMA TasksStay == ASSUME UNCHANGED tasks PROVE TasksShift(0)
  <1> SUFFICES ASSUME NEW i \in Nat, NEW k \in {"finalize", "update"}
               PROVE  /\ TaskAt(i, k)' <=> i # 0 /\ TaskAt(i + 0, k)
                      /\ TaskAt(i, k)' => tasks'[i] = tasks[i + 0]
    BY DEF TasksShift
  <1>1. i + 0 = i
    OBVIOUS
  <1>2. i \in 1..Len(tasks) => i # 0
    OBVIOUS
  <1> QED BY <1>1, <1>2 DEF TaskAt

LEMMA MessageTaken == ASSUME StateTyped, NEW k, Message(k) PROVE
    /\ to_front' \in Seq(MessageSet)
    /\ At(1, k)
    /\ Head(to_front) = to_front[1]
    /\ MessagesShift(1)
  <1>1. to_front \in Seq(MessageSet) /\ to_front # <<>> /\ to_front' = Tail(to_front) /\ Head(to_front).kind = k
    BY DEF Message, StateTyped
  <1>2. /\ Len(to_front) \in Nat /\ Len(to_front) > 0 /\ Head(to_front) = to_front[1]
        /\ to_front' \in Seq(MessageSet) /\ Len(to_front') = Len(to_front) - 1
        /\ \A i \in 1..Len(to_front') : to_front'[i] = to_front[i + 1]
    BY <1>1, HeadTailProperties, LenProperties, EmptySeq
  <1>3. At(1, k)
    BY <1>1, <1>2 DEF At
  <1>4. ASSUME NEW i \in Nat, NEW q
        PROVE  (At(i, q)' <=> i # 0 /\ At(i + 1, q)) /\ (At(i, q)' => to_front'[i] = to_front[i + 1])
    <2>1. i \in 1..Len(to_front') <=> i # 0 /\ i + 1 \in 1..Len(to_front)
      BY <1>2
    <2> QED BY <2>1, <1>2 DEF At
  <1> QED BY <1>2, <1>3, <1>4 DEF MessagesShift

LEMMA TaskTaken == ASSUME StateTyped, NEW k, Task(k), tasks' = Tail(tasks) PROVE
    /\ tasks' \in Seq(TaskSet)
    /\ TaskAt(1, k)
    /\ Head(tasks) = tasks[1]
    /\ TasksShift(1)
  <1>1. tasks \in Seq(TaskSet) /\ tasks # <<>> /\ Head(tasks).kind = k
    BY DEF Task, StateTyped
  <1>2. /\ Len(tasks) \in Nat /\ Len(tasks) > 0 /\ Head(tasks) = tasks[1]
        /\ tasks' \in Seq(TaskSet) /\ Len(tasks') = Len(tasks) - 1
        /\ \A i \in 1..Len(tasks') : tasks'[i] = tasks[i + 1]
    BY <1>1, HeadTailProperties, LenProperties, EmptySeq
  <1>3. TaskAt(1, k)
    BY <1>1, <1>2 DEF TaskAt
  <1>4. ASSUME NEW i \in Nat, NEW q
        PROVE  (TaskAt(i, q)' <=> i # 0 /\ TaskAt(i + 1, q)) /\ (TaskAt(i, q)' => tasks'[i] = tasks[i + 1])
    <2>1. i \in 1..Len(tasks') <=> i # 0 /\ i + 1 \in 1..Len(tasks)
      BY <1>2
    <2> QED BY <2>1, <1>2 DEF TaskAt
  <1> QED BY <1>2, <1>3, <1>4 DEF TasksShift


LEMMA Appended == ASSUME NEW S, NEW s \in Seq(S), NEW x \in S PROVE
    /\ s \o <<x>> \in Seq(S) /\ Len(s) \in Nat /\ Len(s \o <<x>>) = Len(s) + 1
    /\ \A i \in 1..Len(s) : (s \o <<x>>)[i] = s[i]
    /\ (s \o <<x>>)[Len(s) + 1] = x
    /\ s \o <<>> = s
  <1>1. <<x>> \in Seq(S) /\ Len(<<x>>) = 1 /\ <<x>>[1] = x /\ <<>> \in Seq(S) /\ Len(<<>>) = 0
    BY EmptySeq
  <1>2. Len(s) \in Nat
    BY LenProperties
  <1>3. s \o <<x>> \in Seq(S) /\ Len(s \o <<x>>) = Len(s) + 1
        /\ \A i \in 1..(Len(s) + 1) : (s \o <<x>>)[i] = IF i <= Len(s) THEN s[i] ELSE <<x>>[i - Len(s)]
    BY <1>1, <1>2, ConcatProperties
  <1>4. \A i \in 1..Len(s) : (s \o <<x>>)[i] = s[i]
    BY <1>2, <1>3
  <1>5. (s \o <<x>>)[Len(s) + 1] = x
    <2>1. Len(s) + 1 \in 1..(Len(s) + 1) /\ ~(Len(s) + 1 <= Len(s)) /\ (Len(s) + 1) - Len(s) = 1
      BY <1>2
    <2> QED BY <1>1, <1>3, <2>1
  <1>6. s \o <<>> = s
    BY ConcatEmptySeq
  <1> QED BY <1>2, <1>3, <1>4, <1>5, <1>6

\* One more message: the others stay where they are.
LEMMA MessageAdded == ASSUME StateTyped, NEW x \in MessageSet, to_front' = to_front \o <<x>> PROVE
    /\ to_front' \in Seq(MessageSet)
    /\ \A i \in Nat : \A k :
         /\ At(i, k)' <=> At(i, k) \/ (i = Len(to_front) + 1 /\ x.kind = k)
         /\ At(i, k) => to_front'[i] = to_front[i]
    /\ to_front'[Len(to_front) + 1] = x
  <1>1. /\ to_front' \in Seq(MessageSet) /\ Len(to_front) \in Nat /\ Len(to_front') = Len(to_front) + 1
        /\ \A i \in 1..Len(to_front) : to_front'[i] = to_front[i]
        /\ to_front'[Len(to_front) + 1] = x
    BY Appended DEF StateTyped
  <1>2. ASSUME NEW i \in Nat, NEW k
        PROVE  /\ At(i, k)' <=> At(i, k) \/ (i = Len(to_front) + 1 /\ x.kind = k)
               /\ At(i, k) => to_front'[i] = to_front[i]
    <2>1. i \in 1..Len(to_front') <=> i \in 1..Len(to_front) \/ i = Len(to_front) + 1
      BY <1>1
    <2>2. ~(Len(to_front) + 1 \in 1..Len(to_front))
      BY <1>1
    <2> QED BY <1>1, <2>1, <2>2 DEF At
  <1> QED BY <1>1, <1>2

LEMMA TaskAdded == ASSUME StateTyped, NEW x \in TaskSet, tasks' = tasks \o <<x>> PROVE
    /\ tasks' \in Seq(TaskSet)
    /\ \A i \in Nat : \A k :
         /\ TaskAt(i, k)' <=> TaskAt(i, k) \/ (i = Len(tasks) + 1 /\ x.kind = k)
         /\ TaskAt(i, k) => tasks'[i] = tasks[i]
    /\ tasks'[Len(tasks) + 1] = x
  <1>1. /\ tasks' \in Seq(TaskSet) /\ Len(tasks) \in Nat /\ Len(tasks') = Len(tasks) + 1
        /\ \A i \in 1..Len(tasks) : tasks'[i] = tasks[i]
        /\ tasks'[Len(tasks) + 1] = x
    BY Appended DEF StateTyped
  <1>2. ASSUME NEW i \in Nat, NEW k
        PROVE  /\ TaskAt(i, k)' <=> TaskAt(i, k) \/ (i = Len(tasks) + 1 /\ x.kind = k)
               /\ TaskAt(i, k) => tasks'[i] = tasks[i]
    <2>1. i \in 1..Len(tasks') <=> i \in 1..Len(tasks) \/ i = Len(tasks) + 1
      BY <1>1
    <2>2. ~(Len(tasks) + 1 \in 1..Len(tasks))
      BY <1>1
    <2> QED BY <1>1, <2>1, <2>2 DEF TaskAt
  <1> QED BY <1>1, <1>2

\* A task of another kind is of no account.
LEMMA TaskBeside == ASSUME StateTyped, NEW x \in TaskSet, x.kind \in {"disconnected", "metadata"}, tasks' = tasks \o <<x>>
    PROVE tasks' \in Seq(TaskSet) /\ TasksShift(0)
  <1>1. tasks' \in Seq(TaskSet)
    BY TaskAdded
  <1>2. ASSUME NEW i \in Nat, NEW k \in {"finalize", "update"}
        PROVE  (TaskAt(i, k)' <=> i # 0 /\ TaskAt(i + 0, k)) /\ (TaskAt(i, k)' => tasks'[i] = tasks[i + 0])
    <2>1. i + 0 = i /\ (i \in 1..Len(tasks) => i # 0)
      OBVIOUS
    <2>2. x.kind # k
      OBVIOUS
    <2>3. (TaskAt(i, k)' <=> TaskAt(i, k)) /\ (TaskAt(i, k) => tasks'[i] = tasks[i])
      BY <2>2, TaskAdded
    <2>4. TaskAt(i, k) => i # 0
      BY <2>1 DEF TaskAt
    <2> QED BY <2>1, <2>3, <2>4
  <1> QED BY <1>1, <1>2 DEF TasksShift

LEMMA MessageBeside == ASSUME StateTyped, NEW x \in MessageSet, x.kind = "metadata", Deliver(<<x>>)
    PROVE to_front' \in Seq(MessageSet) /\ MessagesShift(0)
  <1>1. CASE front = "closed"
    BY <1>1, MessagesStay DEF Deliver, StateTyped
  <1>2. CASE front # "closed"
    <2>1. to_front' = to_front \o <<x>>
      BY <1>2 DEF Deliver
    <2>2. to_front' \in Seq(MessageSet)
      BY <2>1, MessageAdded
    <2>3. ASSUME NEW i \in Nat, NEW k \in {"init", "exiting", "loaded", "statistics"}
          PROVE  (At(i, k)' <=> i # 0 /\ At(i + 0, k)) /\ (At(i, k)' => to_front'[i] = to_front[i + 0])
      <3>1. i + 0 = i /\ (i \in 1..Len(to_front) => i # 0)
        OBVIOUS
      <3>2. x.kind # k
        OBVIOUS
      <3>3. (At(i, k)' <=> At(i, k)) /\ (At(i, k) => to_front'[i] = to_front[i])
        BY <2>1, <3>2, MessageAdded
      <3>4. At(i, k) => i # 0
        BY <3>1 DEF At
      <3> QED BY <3>1, <3>3, <3>4
    <2> QED BY <2>2, <2>3 DEF MessagesShift
  <1> QED BY <1>1, <1>2

\* Nothing but a disconnect is sent.
LEMMA SentNothing == ASSUME StateTyped, NEW b \in BOOLEAN, Send(<<>>, b)
    PROVE /\ tasks' \in Seq(TaskSet) /\ TasksShift(0)
          /\ front' = IF b THEN "closing" ELSE front
  <1> DEFINE x == [kind |-> "disconnected"]
  <1>1. x \in TaskSet /\ x.kind = "disconnected"
    BY DEF TaskSet
  <1>2. tasks \in Seq(TaskSet) /\ tasks \o <<>> = tasks
    BY ConcatEmptySeq DEF StateTyped
  <1>3. tasks' = tasks \/ tasks' = tasks \o <<x>>
    BY <1>2 DEF Send
  <1>4. CASE tasks' = tasks
    BY <1>2, <1>4, TasksStay DEF Send
  <1>5. CASE tasks' = tasks \o <<x>>
    BY <1>1, <1>5, TaskBeside DEF Send
  <1> QED BY <1>3, <1>4, <1>5

\* One request is sent, or lost.
LEMMA SentRequest == ASSUME StateTyped, NEW x \in TaskSet, Send(<<x>>, FALSE)
    PROVE /\ front' = front
          /\ tasks' = tasks \/ tasks' = tasks \o <<x>>
          /\ tasks' \in Seq(TaskSet)
          /\ x.kind = "metadata" => TasksShift(0)
  <1>1. tasks \in Seq(TaskSet) /\ tasks \o <<x>> \in Seq(TaskSet)
    BY Appended DEF StateTyped
  <1>2. (tasks \o <<x>>) \o <<>> = tasks \o <<x>>
    BY <1>1, ConcatEmptySeq
  <1>3. tasks' = tasks \/ tasks' = tasks \o <<x>>
    BY <1>2 DEF Send
  <1>4. x.kind = "metadata" => TasksShift(0)
    BY <1>3, TasksStay, TaskBeside
  <1> QED BY <1>1, <1>3, <1>4 DEF Send


-----------------------------------------------------------------------------
(* Updates.                                                                *)

\* Reports to the frontend moved forward by d places, and none was added.
ReportsShift(d) == \A i \in Nat : \A k \in {"loaded", "statistics"} :
    /\ At(i, k)' <=> i # 0 /\ At(i + d, k)
    /\ At(i, k)' => to_front'[i] = to_front[i + d]

LEMMA ReportsAmongMessages == ASSUME NEW d \in Nat, MessagesShift(d) PROVE ReportsShift(d)
  BY DEF MessagesShift, ReportsShift

\* The tasks of updates moved forward by e places.
UpdateTasksShift(e) == \A i \in Nat : TaskAt(i, "update")' => TaskAt(i + e, "update") /\ tasks'[i] = tasks[i + e]

LEMMA UpdatesMoved ==
    ASSUME UpdatesInOrder, NEW d \in Nat, NEW e \in Nat, ReportsShift(d), UpdateTasksShift(e),
           \A i \in Nat : At(i, "init")' => At(i + d, "init"),
           UNCHANGED <<initialized, update_request, final_request>>
    PROVE  UpdatesInOrder'
  <1>1. \A i \in Nat : At(i, "init")' => i = 1 /\ ~initialized'
    <2> SUFFICES ASSUME NEW i \in Nat, At(i, "init")' PROVE i = 1 /\ ~initialized'
      OBVIOUS
    <2>1. i # 0 /\ At(i + d, "init")
      BY DEF At
    <2>2. i + d = 1 /\ ~initialized
      BY <2>1 DEF UpdatesInOrder
    <2> QED BY <2>1, <2>2
  <1>2. \A i \in Nat : TaskAt(i, "update")' => i + e \in Nat /\ TaskAt(i + e, "update") /\ tasks'[i] = tasks[i + e]
    BY DEF UpdateTasksShift
  <1>3. \A i \in Nat : At(i, "statistics")' => i + d \in Nat /\ At(i + d, "statistics") /\ to_front'[i] = to_front[i + d]
    BY DEF ReportsShift
  <1>4. \A i, j \in Nat : TaskAt(i, "update")' /\ TaskAt(j, "update")' /\ tasks'[i].token = tasks'[j].token => i = j
    <2> SUFFICES ASSUME NEW i \in Nat, NEW j \in Nat, TaskAt(i, "update")', TaskAt(j, "update")', tasks'[i].token = tasks'[j].token
                 PROVE  i = j
      OBVIOUS
    <2>1. i + e = j + e
      BY <1>2 DEF UpdatesInOrder
    <2> QED BY <2>1
  <1>5. \A i, j \in Nat : At(i, "statistics")' /\ At(j, "statistics")' /\ to_front'[i].token = to_front'[j].token => i = j
    <2> SUFFICES ASSUME NEW i \in Nat, NEW j \in Nat, At(i, "statistics")', At(j, "statistics")', to_front'[i].token = to_front'[j].token
                 PROVE  i = j
      OBVIOUS
    <2>1. i + d = j + d
      BY <1>3 DEF UpdatesInOrder
    <2> QED BY <2>1
  <1>6. \A i, j \in Nat : TaskAt(i, "update")' /\ At(j, "statistics")' => tasks'[i].token # to_front'[j].token
    BY <1>2, <1>3 DEF UpdatesInOrder
  <1>7. \A i \in Nat : At(i, "loaded")' => At(i + 1, "statistics")' /\ to_front'[i].token = to_front'[i + 1].token
    <2> SUFFICES ASSUME NEW i \in Nat, At(i, "loaded")' PROVE At(i + 1, "statistics")' /\ to_front'[i].token = to_front'[i + 1].token
      OBVIOUS
    <2>1. i # 0 /\ At(i + d, "loaded") /\ to_front'[i] = to_front[i + d]
      BY DEF ReportsShift
    <2>2. i + d \in Nat /\ (i + d) + 1 = (i + 1) + d /\ i + 1 \in Nat /\ i + 1 # 0
      OBVIOUS
    <2>3. At((i + 1) + d, "statistics") /\ to_front[i + d].token = to_front[(i + 1) + d].token
      BY <2>1, <2>2 DEF UpdatesInOrder
    <2>4. At(i + 1, "statistics")'
      BY <2>2, <2>3 DEF ReportsShift
    <2>5. to_front'[i + 1] = to_front[(i + 1) + d]
      BY <2>2, <2>4 DEF ReportsShift
    <2> QED BY <2>1, <2>3, <2>4, <2>5
  <1> QED BY <1>1, <1>2, <1>3, <1>4, <1>5, <1>6, <1>7 DEF UpdatesInOrder

LEMMA UpdatesShift ==
    ASSUME UpdatesInOrder, NEW d \in Nat, NEW e \in Nat, MessagesShift(d), TasksShift(e),
           UNCHANGED <<initialized, update_request, final_request>>
    PROVE  UpdatesInOrder'
  <1>1. ReportsShift(d) /\ UpdateTasksShift(e)
    BY ReportsAmongMessages DEF TasksShift, UpdateTasksShift
  <1>2. \A i \in Nat : At(i, "init")' => At(i + d, "init")
    BY DEF MessagesShift
  <1> QED BY <1>1, <1>2, UpdatesMoved

\* The answer to a polled update is the last that belongs to it.
LEMMA UpdatesPolled == ASSUME StateTyped, UpdatesInOrder, OnPolled PROVE UpdatesInOrder'
  <1>1. At(1, "statistics") /\ Head(to_front) = to_front[1] /\ MessagesShift(1)
    BY MessageTaken DEF OnPolled
  <1>2. TasksShift(0)
    BY TasksStay DEF OnPolled
  <1>3. to_front[1].token = update_request /\ update_request' = 0
    BY <1>1 DEF OnPolled
  <1>4. ASSUME NEW i \in Nat, TaskAt(i, "update")' PROVE tasks'[i].token \in {update_request', final_request'}
    <2>1. TaskAt(i, "update") /\ tasks'[i] = tasks[i]
      BY <1>4 DEF OnPolled, TaskAt
    <2>2. tasks[i].token \in {update_request, final_request} /\ tasks[i].token # to_front[1].token
      BY <2>1, <1>1 DEF UpdatesInOrder
    <2> QED BY <1>3, <2>1, <2>2 DEF OnPolled, finalVars
  <1>5. ASSUME NEW i \in Nat, At(i, "statistics")' PROVE to_front'[i].token \in {update_request', final_request'}
    <2>1. i # 0 /\ At(i + 1, "statistics") /\ to_front'[i] = to_front[i + 1] /\ i + 1 # 1 /\ i + 1 \in Nat
      BY <1>1, <1>5 DEF MessagesShift
    <2>2. to_front[i + 1].token \in {update_request, final_request} /\ to_front[i + 1].token # to_front[1].token
      BY <2>1, <1>1 DEF UpdatesInOrder
    <2> QED BY <1>3, <2>1, <2>2 DEF OnPolled, finalVars
  <1>6. \A i \in Nat : At(i, "init")' => i = 1 /\ ~initialized'
    <2> SUFFICES ASSUME NEW i \in Nat, At(i, "init")' PROVE FALSE
      OBVIOUS
    <2>1. i # 0 /\ At(i + 1, "init") /\ i + 1 # 1 /\ i + 1 \in Nat
      BY <1>1 DEF MessagesShift
    <2> QED BY <2>1 DEF UpdatesInOrder
  <1>7. \A i \in Nat : TaskAt(i, "update")' => TaskAt(i, "update") /\ tasks'[i] = tasks[i]
    BY DEF OnPolled, TaskAt
  <1>8. \A i \in Nat : At(i, "statistics")' => i + 1 \in Nat /\ At(i + 1, "statistics") /\ to_front'[i] = to_front[i + 1]
    BY <1>1 DEF MessagesShift
  <1>9. \A i, j \in Nat : At(i, "statistics")' /\ At(j, "statistics")' /\ to_front'[i].token = to_front'[j].token => i = j
    <2> SUFFICES ASSUME NEW i \in Nat, NEW j \in Nat, At(i, "statistics")', At(j, "statistics")', to_front'[i].token = to_front'[j].token
                 PROVE  i = j
      OBVIOUS
    <2>1. i + 1 = j + 1
      BY <1>8 DEF UpdatesInOrder
    <2> QED BY <2>1
  <1>10. \A i \in Nat : At(i, "loaded")' => At(i + 1, "statistics")' /\ to_front'[i].token = to_front'[i + 1].token
    <2> SUFFICES ASSUME NEW i \in Nat, At(i, "loaded")' PROVE At(i + 1, "statistics")' /\ to_front'[i].token = to_front'[i + 1].token
      OBVIOUS
    <2>1. i # 0 /\ At(i + 1, "loaded") /\ to_front'[i] = to_front[i + 1] /\ i + 1 \in Nat /\ i + 1 # 0
      BY <1>1 DEF MessagesShift
    <2>2. At((i + 1) + 1, "statistics") /\ to_front[i + 1].token = to_front[(i + 1) + 1].token
      BY <2>1 DEF UpdatesInOrder
    <2>3. At(i + 1, "statistics")'
      BY <1>1, <2>1, <2>2 DEF MessagesShift
    <2> QED BY <2>1, <2>2, <2>3, <1>8
  <1> QED BY <1>3, <1>4, <1>5, <1>6, <1>7, <1>8, <1>9, <1>10 DEF UpdatesInOrder

\* An update is asked for under a new token, in place of none.
LEMMA UpdatesAsked ==
    ASSUME StateTyped, UpdatesInOrder, NEW d \in Nat, MessagesShift(d),
           Send(<<[kind |-> "update", token |-> token]>>, FALSE),
           \/ update_request = 0 /\ update_request' = token /\ final_request' = final_request
           \/ final_request = 0 /\ final_request' = token /\ update_request' = update_request,
           \A i \in Nat : At(i, "init")' => i = 1 /\ ~initialized',
           ~initialized' => update_request' = 0
    PROVE  UpdatesInOrder'
  <1> DEFINE x == [kind |-> "update", token |-> token]
             n == Len(tasks) + 1
  <1>0. x \in TaskSet /\ x.kind = "update" /\ x.token = token /\ token \in Tokens
    BY DEF TaskSet, StateTyped
  <1>1. tasks' = tasks \/ tasks' = tasks \o <<x>>
    BY <1>0, SentRequest
  <1>2. \A i \in Nat : TaskAt(i, "update")' => (TaskAt(i, "update") /\ tasks'[i] = tasks[i]) \/ (i = n /\ tasks'[i] = x)
    <2>1. CASE tasks' = tasks
      BY <2>1 DEF TaskAt
    <2>2. CASE tasks' = tasks \o <<x>>
      BY <1>0, <2>2, TaskAdded
    <2> QED BY <1>1, <2>1, <2>2
  <1>3. \A i \in Nat : At(i, "statistics")' => i + d \in Nat /\ At(i + d, "statistics") /\ to_front'[i] = to_front[i + d]
    BY DEF MessagesShift
  <1>4. \A i \in Nat : TaskAt(i, "update") => tasks[i].token \in Tokens /\ tasks[i].token < token /\ tasks[i].token \in {update_request, final_request}
    <2> SUFFICES ASSUME NEW i \in Nat, TaskAt(i, "update")
                 PROVE  tasks[i].token \in Tokens /\ tasks[i].token < token /\ tasks[i].token \in {update_request, final_request}
      OBVIOUS
    <2>1. tasks[i].token \in Tokens /\ tasks[i].token \in {update_request, final_request}
      BY AtFacts DEF UpdatesInOrder
    <2> QED BY <2>1 DEF StateTyped, Tokens
  <1>5. \A i \in Nat : At(i, "statistics") => to_front[i].token \in Tokens /\ to_front[i].token < token /\ to_front[i].token \in {update_request, final_request}
    <2> SUFFICES ASSUME NEW i \in Nat, At(i, "statistics")
                 PROVE  to_front[i].token \in Tokens /\ to_front[i].token < token /\ to_front[i].token \in {update_request, final_request}
      OBVIOUS
    <2>1. to_front[i].token \in Tokens /\ to_front[i].token \in {update_request, final_request}
      BY AtFacts DEF UpdatesInOrder
    <2> QED BY <2>1 DEF StateTyped, Tokens
  <1>6. token \in {update_request', final_request'} /\ \A t \in Tokens : t \in {update_request, final_request} => t \in {update_request', final_request'}
    BY DEF Tokens
  <1>7. \A i \in Nat : TaskAt(i, "update")' => tasks'[i].token \in {update_request', final_request'}
    BY <1>0, <1>2, <1>4, <1>6
  <1>8. \A i \in Nat : At(i, "statistics")' => to_front'[i].token \in {update_request', final_request'}
    BY <1>3, <1>5, <1>6
  <1>9. \A i, j \in Nat : TaskAt(i, "update")' /\ TaskAt(j, "update")' /\ tasks'[i].token = tasks'[j].token => i = j
    <2> SUFFICES ASSUME NEW i \in Nat, NEW j \in Nat, TaskAt(i, "update")', TaskAt(j, "update")', tasks'[i].token = tasks'[j].token
                 PROVE  i = j
      OBVIOUS
    <2>1. \A t \in Tokens : t < token => t # token
      BY <1>0 DEF Tokens
    <2>2. CASE i = n /\ tasks'[i] = x
      BY <1>0, <1>2, <1>4, <2>1, <2>2
    <2>3. CASE j = n /\ tasks'[j] = x
      BY <1>0, <1>2, <1>4, <2>1, <2>3
    <2>4. CASE TaskAt(i, "update") /\ tasks'[i] = tasks[i] /\ TaskAt(j, "update") /\ tasks'[j] = tasks[j]
      BY <2>4 DEF UpdatesInOrder
    <2> QED BY <1>2, <2>2, <2>3, <2>4
  <1>10. \A i, j \in Nat : At(i, "statistics")' /\ At(j, "statistics")' /\ to_front'[i].token = to_front'[j].token => i = j
    <2> SUFFICES ASSUME NEW i \in Nat, NEW j \in Nat, At(i, "statistics")', At(j, "statistics")', to_front'[i].token = to_front'[j].token
                 PROVE  i = j
      OBVIOUS
    <2>1. i + d = j + d
      BY <1>3 DEF UpdatesInOrder
    <2> QED BY <2>1
  <1>11. \A i, j \in Nat : TaskAt(i, "update")' /\ At(j, "statistics")' => tasks'[i].token # to_front'[j].token
    <2> SUFFICES ASSUME NEW i \in Nat, NEW j \in Nat, TaskAt(i, "update")', At(j, "statistics")' PROVE tasks'[i].token # to_front'[j].token
      OBVIOUS
    <2>1. \A t \in Tokens : t < token => t # token
      BY <1>0 DEF Tokens
    <2>2. j + d \in Nat /\ At(j + d, "statistics") /\ to_front'[j].token = to_front[j + d].token /\ to_front[j + d].token # token
      BY <1>3, <1>5, <2>1
    <2>3. CASE TaskAt(i, "update") /\ tasks'[i] = tasks[i]
      BY <2>2, <2>3 DEF UpdatesInOrder
    <2> QED BY <1>0, <1>2, <2>2, <2>3
  <1>12. \A i \in Nat : At(i, "loaded")' => At(i + 1, "statistics")' /\ to_front'[i].token = to_front'[i + 1].token
    <2> SUFFICES ASSUME NEW i \in Nat, At(i, "loaded")' PROVE At(i + 1, "statistics")' /\ to_front'[i].token = to_front'[i + 1].token
      OBVIOUS
    <2>1. i # 0 /\ At(i + d, "loaded") /\ to_front'[i] = to_front[i + d]
      BY DEF MessagesShift
    <2>2. i + d \in Nat /\ (i + d) + 1 = (i + 1) + d /\ i + 1 \in Nat /\ i + 1 # 0
      OBVIOUS
    <2>3. At((i + 1) + d, "statistics") /\ to_front[i + d].token = to_front[(i + 1) + d].token
      BY <2>1, <2>2 DEF UpdatesInOrder
    <2>4. At(i + 1, "statistics")'
      BY <2>2, <2>3 DEF MessagesShift
    <2>5. to_front'[i + 1] = to_front[(i + 1) + d]
      BY <2>2, <2>4 DEF MessagesShift
    <2> QED BY <2>1, <2>3, <2>4, <2>5
  <1> QED BY <1>7, <1>8, <1>9, <1>10, <1>11, <1>12 DEF UpdatesInOrder


\* The answer to an update with token t was added: the message of statistics
\* at place p, and right before it that of modules, if there are new ones.
Answered(p, t, new) ==
    /\ p \in Nat /\ p > Len(to_front) /\ Len(to_front) \in Nat
    /\ to_front' \in Seq(MessageSet)
    /\ \A i \in Nat : \A k : At(i, k) => At(i, k)' /\ to_front'[i] = to_front[i] /\ i < p
    /\ \A i \in Nat : At(i, "statistics")' => At(i, "statistics") \/ i = p
    /\ \A i \in Nat : At(i, "loaded")' => At(i, "loaded") \/ (new # {} /\ i + 1 = p /\ i > Len(to_front))
    /\ \A i \in Nat : At(i, "init")' => At(i, "init")
    /\ \A i \in Nat : At(i, "exiting")' => At(i, "exiting")
    /\ At(p, "statistics")' /\ to_front'[p].token = t /\ to_front'[p].calls = analyzed
    /\ new # {} => At(p - 1, "loaded")' /\ to_front'[p - 1].token = t /\ to_front'[p - 1].modules = new

LEMMA AnswerAdded ==
    ASSUME StateTyped, CallsTyped, NEW t \in Tokens, to_front' = to_front \o UpdateMessages(t)
    PROVE  \E p \in Nat : Answered(p, t, ModulesOf(made) \ reported)
  <1> DEFINE new == ModulesOf(made) \ reported
             L == [kind |-> "loaded", token |-> t, modules |-> new]
             S == [kind |-> "statistics", token |-> t, calls |-> analyzed]
             n == Len(to_front)
  <1>1. new \in SUBSET Modules
    BY DEF CallsTyped, Calls, ModulesOf
  <1>2. analyzed \in SUBSET Calls
    BY DEF CallsTyped
  <1>3. L \in MessageSet /\ L.kind = "loaded" /\ L.token = t /\ L.modules = new
    <2>1. L \in [kind : {"loaded"}, token : Tokens, modules : SUBSET Modules]
      BY <1>1
    <2> QED BY <2>1 DEF MessageSet
  <1>4. S \in MessageSet /\ S.kind = "statistics" /\ S.token = t /\ S.calls = analyzed
    <2>1. S \in [kind : {"statistics"}, token : Tokens, calls : SUBSET Calls]
      BY <1>2
    <2> QED BY <2>1 DEF MessageSet
  <1>5. to_front \in Seq(MessageSet) /\ n \in Nat
    BY LenProperties DEF StateTyped
  <1>6. CASE new = {}
    <2>1. UpdateMessages(t) = <<>> \o <<S>>
      BY <1>6 DEF UpdateMessages
    <2>2. <<S>> \in Seq(MessageSet)
      BY <1>4
    <2>3. to_front' = to_front \o <<S>>
      BY <2>1, <2>2, ConcatEmptySeq
    <2> HIDE DEF S, L, new
    <2>4. /\ to_front' \in Seq(MessageSet)
          /\ \A i \in Nat : \A k :
                 /\ At(i, k)' <=> At(i, k) \/ (i = n + 1 /\ S.kind = k)
                 /\ At(i, k) => to_front'[i] = to_front[i]
          /\ to_front'[n + 1] = S
      BY <2>3, <1>4, MessageAdded
    <2>5. \A i \in Nat : \A k : At(i, k) => i < n + 1
      BY <1>5 DEF At
    <2>6. PICK p \in Nat : p = n + 1
      BY <1>5
    <2>7. p > n /\ to_front'[p] = S
      <3>1. p > n
        BY <1>5, <2>6
      <3>2. to_front'[n + 1] = S
        BY <2>4
      <3> QED BY <2>6, <3>1, <3>2
    <2>8. Answered(p, t, new)
      <3>1. \A i \in Nat : \A k : At(i, k)' <=> At(i, k) \/ (i = p /\ k = "statistics")
        BY <1>4, <2>4, <2>6
      <3>2. \A i \in Nat : \A k : At(i, k) => At(i, k)' /\ to_front'[i] = to_front[i] /\ i < p
        BY <2>4, <2>5, <2>6
      <3>3. At(p, "statistics")'
        BY <3>1
      <3>4. \A i \in Nat : At(i, "statistics")' => At(i, "statistics") \/ i = p
        BY <3>1
      <3>5. \A i \in Nat : At(i, "loaded")' => At(i, "loaded")
        BY <3>1
      <3>6. \A i \in Nat : (At(i, "init")' => At(i, "init")) /\ (At(i, "exiting")' => At(i, "exiting"))
        BY <3>1
      <3> QED BY <1>4, <1>5, <1>6, <2>4, <2>7, <3>2, <3>3, <3>4, <3>5, <3>6 DEF Answered
    <2> QED BY <1>5, <2>8 DEF new
  <1>7. CASE new # {}
    <2>1. UpdateMessages(t) = <<L>> \o <<S>>
      BY <1>7 DEF UpdateMessages
    <2>2. <<S>> \in Seq(MessageSet) /\ <<L>> \in Seq(MessageSet)
      BY <1>3, <1>4
    <2> DEFINE one == to_front \o <<L>>
    <2>3. to_front' = one \o <<S>>
      BY <1>5, <2>1, <2>2, ConcatAssociative
    <2> HIDE DEF S, L, new
    <2>4. /\ one \in Seq(MessageSet) /\ Len(one) = n + 1
          /\ \A i \in 1..n : one[i] = to_front[i]
          /\ one[n + 1] = L
      BY <1>3, <1>5, Appended
    <2> HIDE DEF one
    <2>5. /\ to_front' \in Seq(MessageSet) /\ Len(to_front') = n + 2
          /\ \A i \in 1..(n + 1) : to_front'[i] = one[i]
          /\ to_front'[n + 2] = S
      <3>1. Len(one) + 1 = n + 2
        BY <1>5, <2>4
      <3> QED BY <1>4, <2>3, <2>4, <3>1, Appended
    <2>6. (\A i \in 1..n : to_front'[i] = to_front[i]) /\ to_front'[n + 1] = L /\ to_front'[n + 2] = S
      <3>1. \A i \in 1..n : i \in 1..(n + 1)
        BY <1>5
      <3>2. n + 1 \in 1..(n + 1)
        BY <1>5
      <3> QED BY <2>4, <2>5, <3>1, <3>2
    <2>7. ASSUME NEW i \in Nat, NEW k
          PROVE  /\ At(i, k)' <=> At(i, k) \/ (i = n + 1 /\ k = "loaded") \/ (i = n + 2 /\ k = "statistics")
                 /\ At(i, k) => to_front'[i] = to_front[i] /\ i < n + 2
      <3>1. i \in 1..Len(to_front') <=> i \in 1..n \/ i = n + 1 \/ i = n + 2
        BY <1>5, <2>5
      <3>2. i \in 1..n => i # n + 1 /\ i # n + 2 /\ i < n + 2
        BY <1>5
      <3>3. n + 1 # n + 2
        BY <1>5
      <3> QED BY <1>3, <1>4, <2>6, <3>1, <3>2, <3>3 DEF At
    <2>8. n + 2 \in Nat /\ n + 2 > n /\ (n + 2) - 1 = n + 1 /\ n + 1 \in Nat /\ n + 1 > n
          /\ \A i \in Nat : i = n + 1 => i + 1 = n + 2 /\ i > n
      BY <1>5
    <2>9. PICK p \in Nat : p = n + 2
      BY <2>8
    <2>10. PICK q \in Nat : q = n + 1
      BY <2>8
    <2>11. Answered(p, t, new)
      <3>1. \A i \in Nat : \A k : At(i, k) => At(i, k)' /\ to_front'[i] = to_front[i] /\ i < p
        BY <2>7, <2>9
      <3>2. /\ \A i \in Nat : At(i, "statistics")' => At(i, "statistics") \/ i = p
            /\ \A i \in Nat : At(i, "loaded")' => At(i, "loaded") \/ (new # {} /\ i + 1 = p /\ i > n)
            /\ \A i \in Nat : At(i, "init")' => At(i, "init")
            /\ \A i \in Nat : At(i, "exiting")' => At(i, "exiting")
        BY <1>7, <2>7, <2>8, <2>9
      <3>3. At(p, "statistics")' /\ to_front'[p].token = t /\ to_front'[p].calls = analyzed
        BY <1>4, <2>6, <2>7, <2>9
      <3>4. p - 1 = q
        BY <2>9, <2>10, <2>8
      <3>5. At(q, "loaded")' /\ to_front'[q].token = t /\ to_front'[q].modules = new
        BY <1>3, <2>6, <2>7, <2>10
      <3>6. At(p - 1, "loaded")' /\ to_front'[p - 1].token = t /\ to_front'[p - 1].modules = new
        BY <3>4, <3>5
      <3> QED BY <1>5, <2>5, <2>8, <2>9, <3>1, <3>2, <3>3, <3>6 DEF Answered
    <2> QED BY <2>11 DEF new
  <1> QED BY <1>6, <1>7


LEMMA UpdatesAnswered ==
    ASSUME StateTyped, UpdatesInOrder, NEW p \in Nat, NEW new, TaskAt(1, "update"), TasksShift(1),
           Answered(p, tasks[1].token, new), UNCHANGED <<initialized, update_request, final_request>>
    PROVE  UpdatesInOrder'
  <1> DEFINE t == tasks[1].token
  <1>1. t \in {update_request, final_request}
    BY DEF UpdatesInOrder
  <1>2. \A i \in Nat : At(i, "statistics")' =>
            (At(i, "statistics") /\ to_front'[i] = to_front[i]) \/ (i = p /\ to_front'[i].token = t)
    BY DEF Answered
  <1>3. \A i \in Nat : TaskAt(i, "update")' => i + 1 \in Nat /\ TaskAt(i + 1, "update") /\ tasks'[i] = tasks[i + 1] /\ i + 1 # 1
    BY DEF TasksShift
  <1>4. \A i \in Nat : TaskAt(i, "update")' => tasks'[i].token \in {update_request', final_request'} /\ tasks'[i].token # t
    <2> SUFFICES ASSUME NEW i \in Nat, TaskAt(i, "update")' PROVE tasks'[i].token \in {update_request', final_request'} /\ tasks'[i].token # t
      OBVIOUS
    <2>1. i + 1 \in Nat /\ TaskAt(i + 1, "update") /\ tasks'[i] = tasks[i + 1] /\ i + 1 # 1
      BY <1>3
    <2>2. tasks[i + 1].token # t
      BY <2>1 DEF UpdatesInOrder
    <2>3. tasks[i + 1].token \in {update_request, final_request}
      BY <2>1 DEF UpdatesInOrder
    <2> QED BY <2>1, <2>2, <2>3
  <1>5. \A i \in Nat : At(i, "statistics") => to_front[i].token # t /\ to_front[i].token \in {update_request, final_request}
    BY DEF UpdatesInOrder
  <1>6. \A i \in Nat : At(i, "statistics")' => to_front'[i].token \in {update_request', final_request'}
    BY <1>1, <1>2, <1>5
  <1>7. \A i, j \in Nat : TaskAt(i, "update")' /\ TaskAt(j, "update")' /\ tasks'[i].token = tasks'[j].token => i = j
    <2> SUFFICES ASSUME NEW i \in Nat, NEW j \in Nat, TaskAt(i, "update")', TaskAt(j, "update")', tasks'[i].token = tasks'[j].token
                 PROVE  i = j
      OBVIOUS
    <2>1. i + 1 = j + 1
      BY <1>3 DEF UpdatesInOrder
    <2> QED BY <2>1
  <1>8. \A i, j \in Nat : At(i, "statistics")' /\ At(j, "statistics")' /\ to_front'[i].token = to_front'[j].token => i = j
    <2> SUFFICES ASSUME NEW i \in Nat, NEW j \in Nat, At(i, "statistics")', At(j, "statistics")', to_front'[i].token = to_front'[j].token
                 PROVE  i = j
      OBVIOUS
    <2>1. CASE At(i, "statistics") /\ to_front'[i] = to_front[i] /\ At(j, "statistics") /\ to_front'[j] = to_front[j]
      BY <2>1 DEF UpdatesInOrder
    <2> QED BY <1>2, <1>5, <2>1
  <1>9. \A i, j \in Nat : TaskAt(i, "update")' /\ At(j, "statistics")' => tasks'[i].token # to_front'[j].token
    <2> SUFFICES ASSUME NEW i \in Nat, NEW j \in Nat, TaskAt(i, "update")', At(j, "statistics")' PROVE tasks'[i].token # to_front'[j].token
      OBVIOUS
    <2>1. CASE At(j, "statistics") /\ to_front'[j] = to_front[j]
      BY <1>3, <2>1 DEF UpdatesInOrder
    <2> QED BY <1>2, <1>4, <2>1
  <1>10. \A i \in Nat : At(i, "loaded")' => At(i + 1, "statistics")' /\ to_front'[i].token = to_front'[i + 1].token
    <2> SUFFICES ASSUME NEW i \in Nat, At(i, "loaded")' PROVE At(i + 1, "statistics")' /\ to_front'[i].token = to_front'[i + 1].token
      OBVIOUS
    <2>1. CASE At(i, "loaded")
      <3>1. i + 1 \in Nat /\ At(i + 1, "statistics") /\ to_front[i].token = to_front[i + 1].token
        BY <2>1 DEF UpdatesInOrder
      <3>2. At(i + 1, "statistics")' /\ to_front'[i + 1] = to_front[i + 1] /\ to_front'[i] = to_front[i]
        BY <2>1, <3>1 DEF Answered
      <3> QED BY <3>1, <3>2
    <2>2. CASE new # {} /\ i + 1 = p
      <3>1. p - 1 = i
        BY <2>2
      <3>2. At(p, "statistics")' /\ to_front'[p].token = t /\ to_front'[p - 1].token = t
        BY <2>2 DEF Answered
      <3> QED BY <2>2, <3>1, <3>2
    <2> QED BY <2>1, <2>2 DEF Answered
  <1>11. \A i \in Nat : At(i, "init")' => i = 1 /\ ~initialized'
    BY DEF Answered, UpdatesInOrder
  <1>12. ~initialized' => update_request' = 0
    BY DEF UpdatesInOrder
  <1>13. \A i \in Nat : TaskAt(i, "update")' => tasks'[i].token \in {update_request', final_request'}
    BY <1>4
  <1> QED BY <1>6, <1>7, <1>8, <1>9, <1>10, <1>11, <1>12, <1>13 DEF UpdatesInOrder

-----------------------------------------------------------------------------
(* The exit.                                                               *)

LEMMA ExitShift ==
    ASSUME ExitInOrder, NEW d \in Nat, NEW e \in Nat,
           \A i \in Nat : TaskAt(i, "finalize")' => TaskAt(i + e, "finalize"),
           \A i \in Nat : At(i, "exiting")' => At(i + d, "exiting"),
           UNCHANGED <<owner, exit_requested, final_request, due>>,
           owner # "alive" => open' = open,
           exit_requested => due \cap unread' = {}
    PROVE  ExitInOrder'
  <1>1. \A i \in Nat : TaskAt(i, "finalize")' => i + e \in Nat /\ TaskAt(i + e, "finalize")
    OBVIOUS
  <1>2. \A i, j \in Nat : TaskAt(i, "finalize")' /\ TaskAt(j, "finalize")' => i = j
    <2> SUFFICES ASSUME NEW i \in Nat, NEW j \in Nat, TaskAt(i, "finalize")', TaskAt(j, "finalize")' PROVE i = j
      OBVIOUS
    <2>1. i + e = j + e
      BY <1>1 DEF ExitInOrder
    <2> QED BY <2>1
  <1>3. \A i, j \in Nat : At(i, "exiting")' /\ At(j, "exiting")' => i = j
    <2> SUFFICES ASSUME NEW i \in Nat, NEW j \in Nat, At(i, "exiting")', At(j, "exiting")' PROVE i = j
      OBVIOUS
    <2>1. i + d \in Nat /\ j + d \in Nat
      OBVIOUS
    <2>2. i + d = j + d
      BY <2>1 DEF ExitInOrder
    <2> QED BY <2>2
  <1>4. \A i \in Nat : At(i, "exiting")' => exit_requested' /\ final_request' = 0
    <2> SUFFICES ASSUME NEW i \in Nat, At(i, "exiting")' PROVE exit_requested' /\ final_request' = 0
      OBVIOUS
    <2>1. i + d \in Nat /\ At(i + d, "exiting")
      OBVIOUS
    <2> QED BY <2>1 DEF ExitInOrder
  <1>5. /\ owner' = "alive" => ~exit_requested' /\ \A i \in Nat : ~TaskAt(i, "finalize")'
        /\ \A i \in Nat : TaskAt(i, "finalize")' => ~exit_requested'
    BY <1>1 DEF ExitInOrder
  <1>6. /\ final_request' # 0 => exit_requested'
        /\ owner' # "alive" => open' = {}
        /\ exit_requested' => due' \cap unread' = {}
    BY DEF ExitInOrder
  <1> QED BY <1>2, <1>3, <1>4, <1>5, <1>6 DEF ExitInOrder

LEMMA ExitDestroy == ASSUME StateTyped, ExitInOrder, Destroy PROVE ExitInOrder'
  <1> DEFINE x == [kind |-> "finalize"]
  <1>1. x \in TaskSet /\ x.kind = "finalize"
    BY DEF TaskSet
  <1>2. tasks' = tasks \o <<x>>
    <2>1. tasks \in Seq(TaskSet) /\ tasks' = Append(tasks, x)
      BY DEF StateTyped, Destroy
    <2> QED BY <1>1, <2>1, AppendIsConcat
  <1>3. \A i \in Nat : TaskAt(i, "finalize")' => i = Len(tasks) + 1
    <2>1. \A i \in Nat : ~TaskAt(i, "finalize")
      BY DEF ExitInOrder, Destroy
    <2> QED BY <1>1, <1>2, <2>1, TaskAdded
  <1>4. \A i \in Nat : ~At(i, "exiting")'
    BY DEF ExitInOrder, Destroy, At
  <1>5. ~exit_requested' /\ final_request' = 0 /\ owner' # "alive" /\ open' = {}
    BY DEF ExitInOrder, Destroy, workerVars, finalVars
  <1> QED BY <1>3, <1>4, <1>5 DEF ExitInOrder

LEMMA ExitFinalize == ASSUME StateTyped, CallsTyped, ExitInOrder, Finalize, TaskAt(1, "finalize"), TasksShift(1) PROVE ExitInOrder'
  <1> DEFINE x == [kind |-> "exiting"]
  <1>1. x \in MessageSet /\ x.kind = "exiting"
    BY DEF MessageSet
  <1>2. ~exit_requested /\ final_request = 0 /\ owner # "alive"
    BY DEF ExitInOrder
  <1>3. \A i \in Nat : ~TaskAt(i, "finalize")'
    <2> SUFFICES ASSUME NEW i \in Nat, TaskAt(i, "finalize")' PROVE FALSE
      OBVIOUS
    <2>1. i + 1 \in Nat /\ i + 1 # 1 /\ TaskAt(i + 1, "finalize")
      BY DEF TasksShift
    <2> QED BY <2>1 DEF ExitInOrder
  <1>4. \A i \in Nat : ~At(i, "exiting")
    BY <1>2 DEF ExitInOrder
  <1>5. owner' = owner /\ open' = open /\ final_request' = final_request /\ due' = due
    BY DEF Finalize, finalVars
  <1>6. CASE session
    <2>1. unread' = {} /\ exit_requested' /\ (to_front' = to_front \/ to_front' = to_front \o <<x>>)
      BY <1>6 DEF Finalize, Deliver
    <2>2. \A i \in Nat : At(i, "exiting")' => i = Len(to_front) + 1
      <3>1. CASE to_front' = to_front
        BY <3>1, <1>4 DEF At
      <3>2. CASE to_front' = to_front \o <<x>>
        BY <3>2, <1>1, <1>4, MessageAdded
      <3> QED BY <2>1, <3>1, <3>2
    <2>3. owner # "alive" => open = {}
      BY DEF ExitInOrder
    <2> QED BY <1>2, <1>3, <1>5, <2>1, <2>2, <2>3 DEF ExitInOrder
  <1>7. CASE ~session
    <2>1. unread' = unread /\ exit_requested' = exit_requested /\ to_front' = to_front
      BY <1>7 DEF Finalize
    <2>2. \A i \in Nat : ~At(i, "exiting")'
      BY <1>4, <2>1 DEF At
    <2>3. owner # "alive" => open = {}
      BY DEF ExitInOrder
    <2> QED BY <1>2, <1>3, <1>5, <2>1, <2>2, <2>3 DEF ExitInOrder
  <1> QED BY <1>6, <1>7

LEMMA ExitExiting == ASSUME StateTyped, ExitInOrder, OnExiting PROVE ExitInOrder'
  <1> DEFINE x == [kind |-> "update", token |-> token]
  <1>0. x \in TaskSet /\ x.kind = "update"
    BY DEF TaskSet, StateTyped
  <1>1. At(1, "exiting") /\ MessagesShift(1)
    BY MessageTaken DEF OnExiting
  <1>2. \A i \in Nat : ~At(i, "exiting")'
    <2> SUFFICES ASSUME NEW i \in Nat, At(i, "exiting")' PROVE FALSE
      OBVIOUS
    <2>1. i # 0 /\ At(i + 1, "exiting") /\ i + 1 # 1 /\ i + 1 \in Nat
      BY <1>1 DEF MessagesShift
    <2> QED BY <1>1, <2>1 DEF ExitInOrder
  <1>3. exit_requested
    BY <1>1 DEF ExitInOrder
  <1>4. tasks' = tasks \/ tasks' = tasks \o <<x>>
    BY <1>0, SentRequest DEF OnExiting
  <1>5. \A i \in Nat : TaskAt(i, "finalize")' => TaskAt(i, "finalize")
    <2>1. CASE tasks' = tasks
      BY <2>1 DEF TaskAt
    <2>2. CASE tasks' = tasks \o <<x>>
      BY <1>0, <2>2, TaskAdded
    <2> QED BY <1>4, <2>1, <2>2
  <1>6. owner' = owner /\ open' = open /\ unread' = unread /\ due' = due /\ exit_requested' = exit_requested
    BY DEF OnExiting, collectorVars, workerVars
  <1> QED BY <1>2, <1>3, <1>5, <1>6 DEF ExitInOrder


\* Nothing but an update was asked for.
LEMMA OnlyUpdateAsked ==
    ASSUME StateTyped, Send(<<[kind |-> "update", token |-> token]>>, FALSE)
    PROVE  /\ \A i \in Nat : TaskAt(i, "finalize")' => TaskAt(i + 0, "finalize")
           /\ \A i \in Nat : TaskAt(i, "update")' => (TaskAt(i, "update") /\ tasks'[i] = tasks[i]) \/ tasks'[i].token = token
           /\ tasks' \in Seq(TaskSet)
           /\ front' = front
  <1> DEFINE x == [kind |-> "update", token |-> token]
  <1>1. x \in TaskSet /\ x.kind = "update" /\ x.token = token
    BY DEF TaskSet, StateTyped
  <1>2. (tasks' = tasks \/ tasks' = tasks \o <<x>>) /\ tasks' \in Seq(TaskSet) /\ front' = front
    BY <1>1, SentRequest
  <1>3. CASE tasks' = tasks
    <2>1. \A i \in Nat : \A k : TaskAt(i, k)' => TaskAt(i, k) /\ tasks'[i] = tasks[i] /\ i + 0 = i
      BY <1>3 DEF TaskAt
    <2> QED BY <1>2, <2>1
  <1>4. CASE tasks' = tasks \o <<x>>
    <2>1. \A i \in Nat : i + 0 = i
      OBVIOUS
    <2>2. \A i \in Nat : TaskAt(i, "finalize")' => TaskAt(i, "finalize")
      BY <1>1, <1>4, TaskAdded
    <2>3. \A i \in Nat : TaskAt(i, "update")' => (TaskAt(i, "update") /\ tasks'[i] = tasks[i]) \/ tasks'[i].token = token
      BY <1>1, <1>4, TaskAdded
    <2> QED BY <1>2, <2>1, <2>2, <2>3
  <1> QED BY <1>2, <1>3, <1>4

-----------------------------------------------------------------------------
(* Calls.                                                                  *)

\* The reports stay but for the first d, none of which is of statistics, and
\* calls are held elsewhere or are new.
LEMMA CallsShift ==
    ASSUME CallsTyped, SentApart, Kept, NEW d \in Nat, ReportsShift(d), NEW extra,
           extra \cap made = {}, made' = made \cup extra, Held' = Held \cup extra,
           connection' = "none" \/ front' # "closed" =>
               (connection = "none" \/ front # "closed") /\ \A i \in 1..d : ~At(i, "statistics")
    PROVE  SentApart' /\ Kept' /\ \A i \in Nat : At(i, "statistics")' => to_front'[i].calls \subseteq made'
  <1>1. \A i \in Nat : At(i, "statistics")' => i + d \in Nat /\ At(i + d, "statistics") /\ to_front'[i] = to_front[i + d]
    BY DEF ReportsShift
  <1>2. \A i \in Nat : At(i, "statistics") => to_front[i].calls \subseteq made
    BY DEF CallsTyped
  <1>3. \A i \in Nat : At(i, "statistics")' => to_front'[i].calls \cap Held' = {}
    <2> SUFFICES ASSUME NEW i \in Nat, At(i, "statistics")' PROVE to_front'[i].calls \cap Held' = {}
      OBVIOUS
    <2>1. to_front[i + d].calls \cap Held = {} /\ to_front[i + d].calls \subseteq made /\ to_front'[i] = to_front[i + d]
      BY <1>1, <1>2 DEF SentApart
    <2> QED BY <2>1
  <1>4. \A i, j \in Nat : At(i, "statistics")' /\ At(j, "statistics")' /\ i # j => to_front'[i].calls \cap to_front'[j].calls = {}
    <2> SUFFICES ASSUME NEW i \in Nat, NEW j \in Nat, At(i, "statistics")', At(j, "statistics")', i # j
                 PROVE  to_front'[i].calls \cap to_front'[j].calls = {}
      OBVIOUS
    <2>1. i + d # j + d
      OBVIOUS
    <2> QED BY <1>1, <2>1 DEF SentApart
  <1>5. ASSUME connection' = "none" \/ front' # "closed", NEW c \in made'
        PROVE  c \in Held' \/ \E i \in Nat : At(i, "statistics")' /\ c \in to_front'[i].calls
    <2>1. CASE c \in extra
      BY <2>1
    <2>2. CASE c \in made
      <3>1. c \in Held \/ \E i \in Nat : At(i, "statistics") /\ c \in to_front[i].calls
        BY <1>5, <2>2 DEF Kept
      <3>2. ASSUME NEW i \in Nat, At(i, "statistics"), c \in to_front[i].calls
            PROVE  \E j \in Nat : At(j, "statistics")' /\ c \in to_front'[j].calls
        <4>1. i \notin 1..d /\ i # 0
          BY <1>5, <3>2 DEF At
        <4>2. PICK j \in Nat : j # 0 /\ j + d = i
          <5>1. i - d \in Nat /\ i - d # 0 /\ (i - d) + d = i
            BY <4>1
          <5> QED BY <5>1
        <4>3. At(j, "statistics")' /\ to_front'[j] = to_front[i]
          BY <3>2, <4>2 DEF ReportsShift
        <4> QED BY <3>2, <4>3
      <3> QED BY <3>1, <3>2
    <2> QED BY <2>1, <2>2
  <1>6. \A i \in Nat : At(i, "statistics")' => to_front'[i].calls \subseteq made'
    BY <1>1, <1>2
  <1> QED BY <1>3, <1>4, <1>5, <1>6 DEF SentApart, Kept

\* The statistics of the first message are merged.
LEMMA CallsMerged ==
    ASSUME CallsTyped, SentApart, HeldApart, Kept, At(1, "statistics"), ReportsShift(1),
           UNCHANGED <<made, open, buffered, unread, analyzed, connection, reported, due>>, statistics' = statistics \cup to_front[1].calls,
           connection = "none" => front' = front, front' # "closed" => front # "closed"
    PROVE  CallsTyped' /\ SentApart' /\ HeldApart' /\ Kept'
  <1>1. \A i \in Nat : At(i, "statistics")' => i + 1 \in Nat /\ i + 1 # 1 /\ At(i + 1, "statistics") /\ to_front'[i] = to_front[i + 1]
    BY DEF ReportsShift
  <1>2. \A i \in Nat : At(i, "statistics") => to_front[i].calls \subseteq made /\ to_front[i].calls \cap Held = {}
    BY DEF CallsTyped, SentApart
  <1>3. Held' = Held \cup to_front[1].calls
    BY DEF Held
  <1>4. \A i \in Nat : At(i, "statistics")' => to_front'[i].calls \subseteq made
    BY <1>1, <1>2
  <1>5. CallsTyped'
    <2>1. to_front[1].calls \subseteq made
      BY <1>2
    <2> QED BY <1>4, <2>1 DEF CallsTyped
  <1>6. HeldApart'
    <2>1. to_front[1].calls \cap Held = {}
      BY <1>2
    <2> QED BY <2>1 DEF HeldApart, Held
  <1>7. SentApart'
    <2>1. \A i \in Nat : At(i, "statistics")' => to_front'[i].calls \cap Held' = {}
      <3> SUFFICES ASSUME NEW i \in Nat, At(i, "statistics")' PROVE to_front'[i].calls \cap Held' = {}
        OBVIOUS
      <3>1. to_front[i + 1].calls \cap Held = {} /\ to_front[i + 1].calls \cap to_front[1].calls = {} /\ to_front'[i] = to_front[i + 1]
        BY <1>1 DEF SentApart
      <3> QED BY <1>3, <3>1
    <2>2. \A i, j \in Nat : At(i, "statistics")' /\ At(j, "statistics")' /\ i # j => to_front'[i].calls \cap to_front'[j].calls = {}
      <3> SUFFICES ASSUME NEW i \in Nat, NEW j \in Nat, At(i, "statistics")', At(j, "statistics")', i # j
                   PROVE  to_front'[i].calls \cap to_front'[j].calls = {}
        OBVIOUS
      <3>1. i + 1 # j + 1
        OBVIOUS
      <3> QED BY <1>1, <3>1 DEF SentApart
    <2> QED BY <2>1, <2>2 DEF SentApart
  <1>8. Kept'
    <2> SUFFICES ASSUME connection' = "none" \/ front' # "closed", NEW c \in made'
                 PROVE  c \in Held' \/ \E i \in Nat : At(i, "statistics")' /\ c \in to_front'[i].calls
      BY DEF Kept
    <2>1. c \in Held \/ \E i \in Nat : At(i, "statistics") /\ c \in to_front[i].calls
      BY DEF Kept
    <2>2. ASSUME NEW i \in Nat, At(i, "statistics"), c \in to_front[i].calls, i # 1
          PROVE  \E j \in Nat : At(j, "statistics")' /\ c \in to_front'[j].calls
      <3>1. i # 0
        BY <2>2 DEF At
      <3>2. PICK j \in Nat : j # 0 /\ j + 1 = i
        <4>1. i - 1 \in Nat /\ i - 1 # 0 /\ (i - 1) + 1 = i
          BY <2>2, <3>1
        <4> QED BY <4>1
      <3>3. At(j, "statistics")' /\ to_front'[j] = to_front[i]
        BY <2>2, <3>2 DEF ReportsShift
      <3> QED BY <2>2, <3>3
    <2> QED BY <1>3, <2>1, <2>2
  <1> QED BY <1>5, <1>6, <1>7, <1>8

\* The calls of the analyzer are sent.
LEMMA CallsAnswered ==
    ASSUME CallsTyped, SentApart, HeldApart, Kept, NEW p \in Nat, NEW t, NEW new, Answered(p, t, new),
           UNCHANGED <<made, open, buffered, unread, statistics, connection, front, due>>, analyzed' = {}, reported' = ModulesOf(made)
    PROVE  CallsTyped' /\ SentApart' /\ HeldApart' /\ Kept'
  <1>1. \A i \in Nat : At(i, "statistics")' => (At(i, "statistics") /\ to_front'[i] = to_front[i] /\ i # p) \/ (i = p /\ to_front'[i].calls = analyzed)
    BY DEF Answered
  <1>2. \A i \in Nat : At(i, "statistics") => to_front[i].calls \subseteq made /\ to_front[i].calls \cap Held = {}
    BY DEF CallsTyped, SentApart
  <1>3. Held' = Held \ analyzed /\ analyzed \subseteq Held
    BY DEF Held, HeldApart
  <1>4. CallsTyped'
    <2>1. \A i \in Nat : At(i, "statistics")' => to_front'[i].calls \subseteq made
      BY <1>1, <1>2 DEF CallsTyped
    <2> QED BY <2>1 DEF CallsTyped
  <1>5. HeldApart'
    BY DEF HeldApart
  <1>6. SentApart'
    <2>1. \A i \in Nat : At(i, "statistics")' => to_front'[i].calls \cap Held' = {}
      BY <1>1, <1>2, <1>3
    <2>2. \A i, j \in Nat : At(i, "statistics")' /\ At(j, "statistics")' /\ i # j => to_front'[i].calls \cap to_front'[j].calls = {}
      <3> SUFFICES ASSUME NEW i \in Nat, NEW j \in Nat, At(i, "statistics")', At(j, "statistics")', i # j
                   PROVE  to_front'[i].calls \cap to_front'[j].calls = {}
        OBVIOUS
      <3>1. CASE i = p
        BY <1>1, <1>2, <1>3, <3>1
      <3>2. CASE j = p
        BY <1>1, <1>2, <1>3, <3>2
      <3>3. CASE i # p /\ j # p
        BY <1>1, <3>3 DEF SentApart
      <3> QED BY <3>1, <3>2, <3>3
    <2> QED BY <2>1, <2>2 DEF SentApart
  <1>7. Kept'
    <2> SUFFICES ASSUME connection' = "none" \/ front' # "closed", NEW c \in made'
                 PROVE  c \in Held' \/ \E i \in Nat : At(i, "statistics")' /\ c \in to_front'[i].calls
      BY DEF Kept
    <2>1. c \in Held \/ \E i \in Nat : At(i, "statistics") /\ c \in to_front[i].calls
      BY DEF Kept
    <2>2. c \in analyzed => At(p, "statistics")' /\ c \in to_front'[p].calls
      BY DEF Answered
    <2>3. ASSUME NEW i \in Nat, At(i, "statistics"), c \in to_front[i].calls
          PROVE  At(i, "statistics")' /\ c \in to_front'[i].calls
      BY <2>3 DEF Answered
    <2> QED BY <1>3, <2>1, <2>2, <2>3
  <1> QED BY <1>4, <1>5, <1>6, <1>7


-----------------------------------------------------------------------------
(* Modules.                                                                *)

LEMMA MappedShift ==
    ASSUME Mapped, NEW d \in Nat, ReportsShift(d), reported' = reported, mappings \subseteq mappings',
           \A c \in statistics' : c[1] \in mappings',
           front' # "closed" => /\ front # "closed"
                                /\ \A j \in 1..d : At(j, "loaded") => to_front[j].modules \subseteq mappings'
    PROVE  Mapped'
  <1>1. ASSUME front' # "closed", NEW j \in Nat, At(j, "loaded"), NEW m \in to_front[j].modules, m \notin mappings'
        PROVE  \E i \in Nat : i + d = j /\ At(i, "loaded")' /\ m \in to_front'[i].modules
    <2>1. j \notin 1..d /\ j # 0
      BY <1>1 DEF At
    <2>2. PICK i \in Nat : i # 0 /\ i + d = j
      <3>1. j - d \in Nat /\ j - d # 0 /\ (j - d) + d = j
        BY <2>1
      <3> QED BY <3>1
    <2>3. At(i, "loaded")' /\ to_front'[i] = to_front[j]
      BY <1>1, <2>2 DEF ReportsShift
    <2> QED BY <1>1, <2>2, <2>3
  <1>2. ASSUME front' # "closed", NEW m \in reported'
        PROVE  m \in mappings' \/ \E i \in Nat : At(i, "loaded")' /\ m \in to_front'[i].modules
    <2>1. m \in mappings \/ \E i \in Nat : At(i, "loaded") /\ m \in to_front[i].modules
      BY <1>2 DEF Mapped
    <2> QED BY <1>1, <1>2, <2>1
  <1>3. ASSUME front' # "closed", NEW i \in Nat, At(i, "statistics")', NEW c \in to_front'[i].calls
        PROVE  c[1] \in mappings' \/ \E j \in Nat : j < i /\ At(j, "loaded")' /\ c[1] \in to_front'[j].modules
    <2>1. i + d \in Nat /\ At(i + d, "statistics") /\ to_front'[i] = to_front[i + d]
      BY <1>3 DEF ReportsShift
    <2>2. c[1] \in mappings \/ \E j \in Nat : j < i + d /\ At(j, "loaded") /\ c[1] \in to_front[j].modules
      BY <1>3, <2>1 DEF Mapped
    <2>3. ASSUME NEW j \in Nat, j < i + d, At(j, "loaded"), c[1] \in to_front[j].modules, c[1] \notin mappings'
          PROVE  \E n \in Nat : n < i /\ At(n, "loaded")' /\ c[1] \in to_front'[n].modules
      <3>1. PICK n \in Nat : n + d = j /\ At(n, "loaded")' /\ c[1] \in to_front'[n].modules
        BY <1>1, <1>3, <2>3
      <3>2. n < i
        BY <2>3, <3>1
      <3> QED BY <3>1, <3>2
    <2> QED BY <2>2, <2>3
  <1> QED BY <1>2, <1>3 DEF Mapped

LEMMA MappedAnswered ==
    ASSUME CallsTyped, Mapped, front # "closed", NEW p \in Nat, NEW t, NEW new, Answered(p, t, new), new = ModulesOf(made) \ reported,
           UNCHANGED <<front, mappings, statistics>>, reported' = ModulesOf(made)
    PROVE  Mapped'
  <1>1. ASSUME NEW m \in ModulesOf(made)
        PROVE  m \in mappings \/ \E i \in Nat : i < p /\ At(i, "loaded")' /\ m \in to_front'[i].modules
    <2>1. CASE m \in reported
      <3>1. m \in mappings \/ \E i \in Nat : At(i, "loaded") /\ m \in to_front[i].modules
        BY <2>1 DEF Mapped
      <3>2. ASSUME NEW i \in Nat, At(i, "loaded"), m \in to_front[i].modules
            PROVE  i < p /\ At(i, "loaded")' /\ m \in to_front'[i].modules
        BY <3>2 DEF Answered
      <3> QED BY <3>1, <3>2
    <2>2. CASE m \notin reported
      <3>1. new # {} /\ m \in new
        BY <2>2
      <3>2. At(p - 1, "loaded")' /\ m \in to_front'[p - 1].modules
        BY <3>1 DEF Answered
      <3>3. p - 1 \in Nat /\ p - 1 < p
        BY DEF Answered
      <3> QED BY <3>2, <3>3
    <2> QED BY <2>1, <2>2
  <1>2. ASSUME NEW i \in Nat, At(i, "statistics")', NEW c \in to_front'[i].calls
        PROVE  c[1] \in mappings' \/ \E j \in Nat : j < i /\ At(j, "loaded")' /\ c[1] \in to_front'[j].modules
    <2>1. CASE At(i, "statistics") /\ to_front'[i] = to_front[i]
      <3>1. c[1] \in mappings \/ \E j \in Nat : j < i /\ At(j, "loaded") /\ c[1] \in to_front[j].modules
        BY <1>2, <2>1 DEF Mapped
      <3>2. ASSUME NEW j \in Nat, At(j, "loaded"), c[1] \in to_front[j].modules
            PROVE  At(j, "loaded")' /\ c[1] \in to_front'[j].modules
        BY <3>2 DEF Answered
      <3> QED BY <3>1, <3>2
    <2>2. CASE i = p /\ to_front'[i].calls = analyzed
      <3>1. c[1] \in ModulesOf(made)
        BY <1>2, <2>2 DEF CallsTyped, ModulesOf
      <3> QED BY <1>1, <2>2, <3>1
    <2> QED BY <1>2, <2>1, <2>2 DEF Answered
  <1>3. \A c \in statistics' : c[1] \in mappings'
    BY DEF Mapped
  <1>4. \A m \in reported' : m \in mappings' \/ \E i \in Nat : At(i, "loaded")' /\ m \in to_front'[i].modules
    BY <1>1
  <1> QED BY <1>2, <1>3, <1>4 DEF Mapped

-----------------------------------------------------------------------------
(* finalize.                                                               *)

LEMMA FinalLastShift ==
    ASSUME FinalLast, NEW d \in Nat, ReportsShift(d), UNCHANGED <<final_request, due>>,
           final_request # 0 => due \cap analyzed' \subseteq analyzed,
           StateTyped
    PROVE  FinalLast'
  <1> SUFFICES ASSUME NEW i \in Nat, At(i, "statistics")', to_front'[i].token = final_request'
               PROVE  /\ due' \cap analyzed' = {}
                      /\ \A j \in Nat : At(j, "statistics")' /\ i < j => due' \cap to_front'[j].calls = {}
    BY DEF FinalLast
  <1>1. i + d \in Nat /\ At(i + d, "statistics") /\ to_front[i + d].token = final_request
    BY DEF ReportsShift
  <1>2. final_request # 0
    BY <1>1, AtFacts DEF Tokens
  <1>3. due \cap analyzed = {} /\ \A j \in Nat : At(j, "statistics") /\ i + d < j => due \cap to_front[j].calls = {}
    BY <1>1 DEF FinalLast
  <1>4. ASSUME NEW j \in Nat, At(j, "statistics")', i < j PROVE due' \cap to_front'[j].calls = {}
    <2>1. j + d \in Nat /\ At(j + d, "statistics") /\ to_front'[j] = to_front[j + d] /\ i + d < j + d
      BY <1>4 DEF ReportsShift
    <2> QED BY <1>3, <2>1
  <1>5. due' \cap analyzed' = {}
    BY <1>2, <1>3
  <1> QED BY <1>4, <1>5

LEMMA FinalLastAnswered ==
    ASSUME FinalLast, NEW p \in Nat, NEW t, NEW new, Answered(p, t, new), UNCHANGED <<final_request, due>>, analyzed' = {}
    PROVE  FinalLast'
  <1> SUFFICES ASSUME NEW i \in Nat, At(i, "statistics")', to_front'[i].token = final_request'
               PROVE  \A j \in Nat : At(j, "statistics")' /\ i < j => due' \cap to_front'[j].calls = {}
    BY DEF FinalLast
  <1> SUFFICES ASSUME NEW j \in Nat, At(j, "statistics")', i < j PROVE due' \cap to_front'[j].calls = {}
    OBVIOUS
  <1>1. \A n \in Nat : At(n, "statistics")' => (At(n, "statistics") /\ to_front'[n] = to_front[n] /\ n < p) \/ (n = p /\ to_front'[n].calls = analyzed)
    BY DEF Answered
  <1>2. j = p \/ j < p
    BY <1>1
  <1>3. At(i, "statistics") /\ to_front'[i] = to_front[i]
    <2>1. i # p
      BY <1>2
    <2> QED BY <1>1, <2>1
  <1>4. due \cap analyzed = {} /\ \A n \in Nat : At(n, "statistics") /\ i < n => due \cap to_front[n].calls = {}
    BY <1>3 DEF FinalLast
  <1> QED BY <1>1, <1>4

\* No update of finalize is under way, or what is waited for stays nothing.
LEMMA AwaitsShift ==
    ASSUME AwaitsAfter, final_request' = final_request, NotAwaited => NotAwaited',
           final_request = 0 => ~finalized',
           \A i \in Nat : TaskAt(i, "update")' /\ tasks'[i].token = final_request =>
               \E j \in Nat : TaskAt(j, "update") /\ tasks[j].token = final_request,
           \A i \in Nat : At(i, "statistics")' /\ to_front'[i].token = final_request =>
               \/ \E j \in Nat : At(j, "statistics") /\ to_front[j].token = final_request
               \/ \E j \in Nat : TaskAt(j, "update") /\ tasks[j].token = final_request
    PROVE  AwaitsAfter'
  <1>1. final_request' = 0 => NotAwaited' /\ ~finalized'
    BY DEF AwaitsAfter
  <1>2. \A i \in Nat : TaskAt(i, "update")' /\ tasks'[i].token = final_request' => NotAwaited'
    BY DEF AwaitsAfter
  <1>3. \A i \in Nat : At(i, "statistics")' /\ to_front'[i].token = final_request' => NotAwaited'
    BY DEF AwaitsAfter
  <1> QED BY <1>1, <1>2, <1>3 DEF AwaitsAfter

LEMMA AwaitsTasks == ASSUME NEW e \in Nat, TasksShift(e) PROVE
    \A i \in Nat : TaskAt(i, "update")' /\ tasks'[i].token = final_request =>
        \E j \in Nat : TaskAt(j, "update") /\ tasks[j].token = final_request
  <1> SUFFICES ASSUME NEW i \in Nat, TaskAt(i, "update")', tasks'[i].token = final_request
               PROVE  \E j \in Nat : TaskAt(j, "update") /\ tasks[j].token = final_request
    OBVIOUS
  <1>1. i + e \in Nat /\ TaskAt(i + e, "update") /\ tasks'[i] = tasks[i + e]
    BY DEF TasksShift
  <1> QED BY <1>1

LEMMA AwaitsReports == ASSUME NEW d \in Nat, ReportsShift(d) PROVE
    \A i \in Nat : At(i, "statistics")' /\ to_front'[i].token = final_request =>
        \E j \in Nat : At(j, "statistics") /\ to_front[j].token = final_request
  <1> SUFFICES ASSUME NEW i \in Nat, At(i, "statistics")', to_front'[i].token = final_request
               PROVE  \E j \in Nat : At(j, "statistics") /\ to_front[j].token = final_request
    OBVIOUS
  <1>1. i + d \in Nat /\ At(i + d, "statistics") /\ to_front'[i] = to_front[i + d]
    BY DEF ReportsShift
  <1> QED BY <1>1


-----------------------------------------------------------------------------
(* Requests for metadata.                                                  *)

Awaited == {m \in Modules \ metadata : "final" \in requests[m].callbacks}

LEMMA AwaitedFinite == IsFiniteSet(Awaited) /\ Cardinality(Awaited) \in Nat
  <1>1. Awaited \subseteq Modules
    BY DEF Awaited
  <1> QED BY <1>1, SessionModulesAssumption, FS_Subset, FS_CardinalityType

\* Requests are shared with the UI as finalize needs them.
LEMMA RequestsKept ==
    ASSUME CallsTyped, AwaitsAll, FinalizationSound,
           \A m \in Modules : "final" \in requests'[m].callbacks <=> "final" \in requests[m].callbacks,
           UNCHANGED <<metadata, remaining, enable, finalized, due>>, statistics \subseteq statistics',
           front' # "closed" => front # "closed"
    PROVE  AwaitsAll' /\ FinalizationSound' /\ (NotAwaited => NotAwaited')
  <1>1. \A c \in due : c[1] \in Modules
    BY DEF CallsTyped, Calls
  <1>2. AwaitsAll'
    BY <1>1 DEF AwaitsAll
  <1>3. FinalizationComplete'
    BY DEF FinalizationSound, FinalizationComplete
  <1>4. {m \in Modules \ metadata' : "final" \in requests'[m].callbacks} = {m \in Modules \ metadata : "final" \in requests[m].callbacks}
    OBVIOUS
  <1>5. RemainingIsAwaited'
    BY <1>4 DEF FinalizationSound, RemainingIsAwaited
  <1>6. NotAwaited => NotAwaited'
    BY DEF NotAwaited
  <1> QED BY <1>2, <1>3, <1>5, <1>6 DEF FinalizationSound

\* Metadata that were missing are there.
LEMMA RequestReady ==
    ASSUME StateTyped, CallsTyped, RequestsNeeded, AwaitsAll, FinalizationSound, front # "closed",
           NEW m \in Modules, m \notin metadata, Ready(m), UNCHANGED <<enable, statistics, due>>
    PROVE  /\ requests' \in [Modules -> RequestSet] /\ remaining' \in Nat
           /\ tasks' \in Seq(TaskSet) /\ TasksShift(0) /\ front' \in {"open", "closing", "closed"} /\ front' # "closed"
           /\ RequestsNeeded' /\ AwaitsAll' /\ FinalizationSound'
           /\ NotAwaited => NotAwaited' /\ (~finalized => ~finalized')
  <1> DEFINE counted == "final" \in requests[m].callbacks
             last == counted /\ LastOne(remaining - 1, enable)
  <1>1. /\ metadata' = metadata \cup {m}
        /\ requests' = [requests EXCEPT ![m].stage = "none", ![m].token = 0]
        /\ remaining' = IF counted THEN remaining - 1 ELSE remaining
        /\ finalized' = (finalized \/ last)
        /\ Send(<<>>, last)
    BY DEF Ready
  <1>2. /\ requests' \in [Modules -> RequestSet]
        /\ \A n \in Modules : requests'[n].callbacks = requests[n].callbacks
        /\ requests'[m].stage = "none" /\ requests'[m].token = 0
        /\ \A n \in Modules : n # m => requests'[n] = requests[n]
    BY <1>1 DEF StateTyped, RequestSet
  <1>3. m \in Awaited <=> counted
    BY DEF Awaited
  <1>4. Awaited' = Awaited \ {m}
    BY <1>1, <1>2 DEF Awaited
  <1>5. remaining = Cardinality(Awaited)
    BY DEF FinalizationSound, RemainingIsAwaited, Awaited
  <1>6. Cardinality(Awaited \ {m}) = IF counted THEN Cardinality(Awaited) - 1 ELSE Cardinality(Awaited)
    BY <1>3, AwaitedFinite, FS_RemoveElement
  <1>7. Cardinality(Awaited \ {m}) \in Nat
    BY AwaitedFinite, FS_RemoveElement, FS_CardinalityType
  <1>8. remaining' = Cardinality(Awaited') /\ remaining' \in Nat
    BY <1>1, <1>4, <1>5, <1>6, <1>7
  <1>9. RemainingIsAwaited'
    BY <1>8 DEF RemainingIsAwaited, Awaited
  <1>10. tasks' \in Seq(TaskSet) /\ TasksShift(0) /\ front' = IF last THEN "closing" ELSE front
    BY <1>1, SentNothing
  <1>11. front' \in {"open", "closing", "closed"} /\ front' # "closed"
    BY <1>10 DEF StateTyped
  <1>12. RequestsNeeded'
    BY <1>1, <1>2 DEF RequestsNeeded
  <1>13. \A c \in due : c[1] \in Modules
    BY DEF CallsTyped, Calls
  <1>14. AwaitsAll'
    BY <1>2, <1>13 DEF AwaitsAll
  <1>15. last => ModulesOf(due) \subseteq metadata' /\ due \subseteq statistics
    <2> SUFFICES ASSUME last, NEW c \in due PROVE c[1] \in metadata' /\ due \subseteq statistics
      BY DEF ModulesOf
    <2>0. counted /\ remaining - 1 = 0 /\ enable
      BY DEF LastOne
    <2>1. due \subseteq statistics /\ "final" \in requests[c[1]].callbacks
      BY <2>0 DEF AwaitsAll
    <2>2. Cardinality(Awaited \ {m}) = 0
      BY <1>5, <1>6, <2>0, AwaitedFinite
    <2>3. Awaited \ {m} = {}
      <3>1. IsFiniteSet(Awaited \ {m})
        BY AwaitedFinite, FS_RemoveElement
      <3> QED BY <2>2, <3>1, FS_EmptySet
    <2>4. c[1] \in metadata \/ c[1] = m
      BY <1>13, <2>1, <2>3 DEF Awaited
    <2> QED BY <1>1, <2>1, <2>4
  <1>16. FinalizationComplete'
    <2>1. finalized => due \subseteq statistics /\ ModulesOf(due) \subseteq metadata
      BY DEF FinalizationSound, FinalizationComplete
    <2> QED BY <1>1, <1>15, <2>1 DEF FinalizationComplete
  <1>17. NotAwaited => NotAwaited' /\ (~finalized => ~finalized')
    <2> SUFFICES ASSUME NotAwaited PROVE NotAwaited' /\ (~finalized => ~finalized')
      OBVIOUS
    <2>1. ~counted /\ ~last /\ remaining' = 0 /\ ~enable'
      BY <1>1 DEF NotAwaited
    <2>2. \A n \in Modules : "final" \notin requests'[n].callbacks
      BY <1>2 DEF NotAwaited
    <2>3. ~finalized => ~finalized'
      BY <1>1, <2>1
    <2> QED BY <2>1, <2>2, <2>3 DEF NotAwaited
  <1> QED BY <1>2, <1>8, <1>9, <1>10, <1>11, <1>12, <1>14, <1>16, <1>17 DEF FinalizationSound


\* The update of finalize is answered: it has all that was due, and waits for
\* the metadata that are missing.
LEMMA FinalAnswered ==
    ASSUME IInv, OnFinal
    PROVE  /\ requests' \in [Modules -> RequestSet] /\ remaining' \in Nat
           /\ tasks' \in Seq(TaskSet) /\ TasksShift(0) /\ front' \in {"open", "closing", "closed"} /\ front' # "closed"
           /\ RequestsNeeded' /\ AwaitsAll' /\ FinalizationSound' /\ AwaitsAfter'
  <1> DEFINE calls  == statistics \cup to_front[1].calls
             needed == ModulesOf(calls) \cap mappings
  <1>0. StateTyped /\ CallsTyped /\ UpdatesInOrder /\ Mapped /\ FinalLast /\ AwaitsAfter /\ ExitInOrder /\ Kept /\ RequestsNeeded /\ FinalizationSound
    BY DEF IInv
  <1>1. At(1, "statistics") /\ Head(to_front) = to_front[1] /\ MessagesShift(1) /\ front # "closed"
    BY <1>0, MessageTaken DEF OnFinal, Message
  <1>2. /\ to_front[1].token = final_request
        /\ statistics' = calls
        /\ requests' = [n \in Modules |-> IF n \in needed THEN Joined(requests[n], "final", n \in metadata) ELSE requests[n]]
        /\ remaining' = Cardinality(needed \ metadata)
        /\ enable' = ~Finishing(needed)
        /\ finalized' = (finalized \/ Finishing(needed))
        /\ Send(<<>>, Finishing(needed))
        /\ final_request' = final_request /\ metadata' = metadata /\ due' = due
    <2>1. /\ to_front[1].token = final_request
          /\ statistics' = calls
          /\ requests' = [n \in Modules |-> IF n \in needed THEN Joined(requests[n], "final", n \in metadata) ELSE requests[n]]
          /\ remaining' = Cardinality(needed \ metadata)
          /\ enable' = ~Finishing(needed)
          /\ final_request' = final_request /\ metadata' = metadata /\ due' = due
      BY <1>1 DEF OnFinal
    <2>2. PICK met : LET ends == Finishing(needed) \/ (\E first \in met : first \in metadata /\ LastOne(0, FALSE))
                     IN  finalized' = (finalized \/ ends) /\ Send(<<>>, ends)
      BY <1>1 DEF OnFinal
    <2> DEFINE ends == Finishing(needed) \/ (\E first \in met : first \in metadata /\ LastOne(0, FALSE))
    <2>3. finalized' = (finalized \/ ends) /\ Send(<<>>, ends)
      BY <2>2
    <2>4. ends = Finishing(needed)
      <3>1. ~LastOne(0, FALSE)
        BY DEF LastOne
      <3>2. Finishing(needed) \in BOOLEAN
        BY DEF Finishing
      <3> QED BY <3>1, <3>2
    <2> HIDE DEF ends, needed, calls
    <2> QED BY <2>1, <2>3, <2>4
  <1> HIDE DEF needed
  <1>3. NotAwaited
    BY <1>0, <1>1, <1>2 DEF AwaitsAfter
  <1>4. final_request # 0
    BY <1>0, <1>1, <1>2, AtFacts DEF Tokens
  <1>5. due \subseteq calls
    <2> SUFFICES ASSUME NEW c \in due, c \notin statistics PROVE c \in to_front[1].calls
      OBVIOUS
    <2>1. due \cap analyzed = {} /\ \A j \in Nat : At(j, "statistics") /\ 1 < j => due \cap to_front[j].calls = {}
      BY <1>0, <1>1, <1>2 DEF FinalLast
    <2>2. due \cap unread = {} /\ due \cap buffered = {} /\ open = {}
      BY <1>0, <1>4 DEF ExitInOrder, CallsTyped
    <2>3. c \notin Held
      BY <2>1, <2>2 DEF Held
    <2>4. PICK i \in Nat : At(i, "statistics") /\ c \in to_front[i].calls
      BY <1>0, <1>1, <2>3 DEF Kept, CallsTyped
    <2>5. ~(1 < i) /\ i # 0
      BY <2>1, <2>4 DEF At
    <2>6. i = 1
      BY <2>5
    <2> QED BY <2>4, <2>6
  <1>6. ModulesOf(calls) \subseteq mappings /\ ModulesOf(calls) \subseteq Modules
    <2>1. \A c \in to_front[1].calls : c[1] \in mappings
      <3> SUFFICES ASSUME NEW c \in to_front[1].calls, c[1] \notin mappings PROVE FALSE
        OBVIOUS
      <3>1. PICK j \in Nat : j < 1 /\ At(j, "loaded")
        BY <1>0, <1>1 DEF Mapped
      <3> QED BY <3>1 DEF At
    <2>2. \A c \in statistics : c[1] \in mappings
      BY <1>0 DEF Mapped
    <2>3. \A c \in calls : c[1] \in Modules
      BY <1>0, <1>1 DEF CallsTyped, Calls
    <2> QED BY <2>1, <2>2, <2>3 DEF ModulesOf
  <1>7. needed = ModulesOf(calls) /\ needed \subseteq Modules
    BY <1>6 DEF needed
  <1>8. \A c \in due : c[1] \in needed
    BY <1>5, <1>7 DEF ModulesOf
  <1>9. requests' \in [Modules -> RequestSet]
    <2>1. requests \in [Modules -> RequestSet]
      BY <1>0 DEF StateTyped
    <2>2. \A n \in Modules : Joined(requests[n], "final", n \in metadata) \in RequestSet
      BY <2>1 DEF Joined, RequestSet
    <2> QED BY <1>2, <2>1, <2>2
  <1>10. \A n \in Modules : "final" \in requests'[n].callbacks <=> n \in needed
    <2> SUFFICES ASSUME NEW n \in Modules PROVE "final" \in requests'[n].callbacks <=> n \in needed
      OBVIOUS
    <2>1. requests[n] \in RequestSet /\ "final" \notin requests[n].callbacks
      BY <1>0, <1>3 DEF StateTyped, NotAwaited
    <2>2. CASE n \in needed
      BY <1>2, <2>1, <2>2 DEF Joined, RequestSet
    <2>3. CASE n \notin needed
      BY <1>2, <2>1, <2>3
    <2> QED BY <2>2, <2>3
  <1>11. RequestsNeeded'
    <2> SUFFICES ASSUME NEW n \in Modules
                 PROVE  /\ requests'[n].stage # "none" => n \notin metadata
                        /\ requests'[n].token # 0 => requests'[n].stage # "none"
      BY <1>2 DEF RequestsNeeded
    <2>1. /\ requests[n] \in RequestSet
          /\ requests[n].stage # "none" => n \notin metadata
          /\ requests[n].token # 0 => requests[n].stage # "none"
      BY <1>0 DEF StateTyped, RequestsNeeded
    <2>2. CASE n \in needed
      BY <1>2, <2>1, <2>2 DEF Joined, RequestSet
    <2>3. CASE n \notin needed
      BY <1>2, <2>1, <2>3
    <2> QED BY <2>2, <2>3
  <1>12. AwaitsAll'
    <2>1. \A c \in due : c[1] \in Modules
      BY <1>7, <1>8
    <2> QED BY <1>2, <1>5, <1>8, <1>10, <2>1 DEF AwaitsAll
  <1>13. FinalizationComplete'
    <2>1. Finishing(needed) => ModulesOf(due) \subseteq metadata
      BY <1>8 DEF Finishing, ModulesOf
    <2>2. finalized => ModulesOf(due) \subseteq metadata
      BY <1>0 DEF FinalizationSound, FinalizationComplete
    <2> QED BY <1>2, <1>5, <2>1, <2>2 DEF FinalizationComplete
  <1>14. RemainingIsAwaited' /\ remaining' \in Nat
    <2>1. {n \in Modules \ metadata' : "final" \in requests'[n].callbacks} = needed \ metadata
      BY <1>2, <1>7, <1>10
    <2>2. IsFiniteSet(needed \ metadata)
      BY <1>7, SessionModulesAssumption, FS_Subset
    <2> QED BY <1>2, <2>1, <2>2, FS_CardinalityType DEF RemainingIsAwaited
  <1>15. tasks' \in Seq(TaskSet) /\ TasksShift(0) /\ front' = IF Finishing(needed) THEN "closing" ELSE front
    <2>1. Finishing(needed) \in BOOLEAN
      BY DEF Finishing
    <2> QED BY <1>0, <1>2, <2>1, SentNothing
  <1>16. front' \in {"open", "closing", "closed"} /\ front' # "closed"
    BY <1>0, <1>1, <1>15 DEF StateTyped
  <1>17. AwaitsAfter'
    <2>1. \A i \in Nat : TaskAt(i, "update")' => tasks'[i].token # final_request'
      <3> SUFFICES ASSUME NEW i \in Nat, TaskAt(i, "update")' PROVE tasks'[i].token # final_request
        BY <1>2
      <3>1. i + 0 \in Nat /\ TaskAt(i + 0, "update") /\ tasks'[i] = tasks[i + 0]
        BY <1>15 DEF TasksShift
      <3> QED BY <1>0, <1>1, <1>2, <3>1 DEF UpdatesInOrder
    <2>2. \A i \in Nat : At(i, "statistics")' => to_front'[i].token # final_request'
      <3> SUFFICES ASSUME NEW i \in Nat, At(i, "statistics")' PROVE to_front'[i].token # final_request
        BY <1>2
      <3>1. i + 1 \in Nat /\ At(i + 1, "statistics") /\ to_front'[i] = to_front[i + 1] /\ i + 1 # 1
        BY <1>1 DEF MessagesShift
      <3> QED BY <1>0, <1>1, <1>2, <3>1 DEF UpdatesInOrder
    <2> QED BY <1>2, <1>4, <2>1, <2>2 DEF AwaitsAfter
  <1> QED BY <1>9, <1>11, <1>12, <1>13, <1>14, <1>15, <1>16, <1>17 DEF FinalizationSound


-----------------------------------------------------------------------------
(* Every step keeps the invariant.                                         *)

LEMMA Later == \A a, b \in Nat : a <= b => \A n \in 0..(a - 1) : n \in 0..(b - 1)
  OBVIOUS

\* Steps that move no calls and ask for no update.
LEMMA OtherStep ==
    ASSUME IInv, NEW d \in Nat, NEW e \in Nat, MessagesShift(d), TasksShift(e),
           tasks' \in Seq(TaskSet), to_front' \in Seq(MessageSet), requests' \in [Modules -> RequestSet],
           token' \in Tokens, token <= token', remaining' \in Nat, front' \in {"open", "closing", "closed"},
           UNCHANGED <<collectorVars, due, owner, statistics, initialized, connection, exit_requested, update_request, final_request>>,
           mappings \subseteq mappings', connection # "none",
           front' # "closed" => /\ front # "closed"
                                /\ \A j \in 1..d : ~At(j, "statistics")
                                /\ \A j \in 1..d : At(j, "loaded") => to_front[j].modules \subseteq mappings',
           RequestsNeeded', AwaitsAll', FinalizationSound', NotAwaited => NotAwaited', final_request = 0 => ~finalized'
    PROVE  IInv'
  <1>0. StateTyped /\ CallsTyped /\ Started /\ ExitInOrder /\ UpdatesInOrder /\ HeldApart /\ SentApart /\ Kept /\ Mapped
        /\ FinalLast /\ AwaitsAfter
    BY DEF IInv
  <1>1. StateTyped'
    <2>0. token \in Nat /\ token' \in Nat
      BY <1>0 DEF StateTyped, Tokens
    <2>1. \A n \in 0..(token - 1) : n \in 0..(token' - 1)
      BY <2>0, Later
    <2>2. update_request' \in 0..(token' - 1) /\ final_request' \in 0..(token' - 1)
      BY <1>0, <2>1 DEF StateTyped
    <2>3. owner' \in {"alive", "joining", "joined"} /\ connection' \in {"none", "null", "live"}
      BY <1>0 DEF StateTyped
    <2> QED BY <2>2, <2>3 DEF StateTyped
  <1>2. ReportsShift(d)
    BY ReportsAmongMessages
  <1>3. UNCHANGED <<made, open, buffered, unread, analyzed, reported>> /\ connection' # "none"
    BY DEF collectorVars
  <1>4. Started'
    BY <1>3 DEF Started
  <1>5. ExitInOrder'
    <2>1. \A i \in Nat : TaskAt(i, "finalize")' => TaskAt(i + e, "finalize")
      BY DEF TasksShift
    <2>2. \A i \in Nat : At(i, "exiting")' => At(i + d, "exiting")
      BY DEF MessagesShift
    <2>3. exit_requested => due \cap unread' = {}
      BY <1>0, <1>3 DEF ExitInOrder
    <2> QED BY <1>0, <1>3, <2>1, <2>2, <2>3, ExitShift
  <1>6. UpdatesInOrder'
    BY <1>0, UpdatesShift
  <1>7. SentApart' /\ Kept' /\ \A i \in Nat : At(i, "statistics")' => to_front'[i].calls \subseteq made'
    <2>1. Held' = Held \cup {} /\ made' = made \cup {} /\ {} \cap made = {}
      BY <1>3 DEF Held
    <2> QED BY <1>0, <1>2, <1>3, <2>1, CallsShift
  <1>8. CallsTyped'
    BY <1>0, <1>3, <1>7 DEF CallsTyped
  <1>9. HeldApart'
    BY <1>0, <1>3 DEF HeldApart
  <1>10. Mapped'
    <2>1. \A c \in statistics' : c[1] \in mappings'
      BY <1>0 DEF Mapped
    <2> QED BY <1>0, <1>2, <1>3, <2>1, MappedShift
  <1>11. FinalLast'
    BY <1>0, <1>2, <1>3, FinalLastShift
  <1>12. AwaitsAfter'
    <2>1. \A i \in Nat : TaskAt(i, "update")' /\ tasks'[i].token = final_request =>
               \E j \in Nat : TaskAt(j, "update") /\ tasks[j].token = final_request
      BY AwaitsTasks
    <2>2. \A i \in Nat : At(i, "statistics")' /\ to_front'[i].token = final_request =>
               \E j \in Nat : At(j, "statistics") /\ to_front[j].token = final_request
      BY <1>2, AwaitsReports
    <2> QED BY <1>0, <2>1, <2>2, AwaitsShift
  <1> QED BY <1>1, <1>4, <1>5, <1>6, <1>7, <1>8, <1>9, <1>10, <1>11, <1>12 DEF IInv

\* Steps of the worker that only answer or drop a task.
LEMMA TaskStep == ASSUME IInv, Disconnected \/ RequestModuleMetadata PROVE IInv'
  <1>0. StateTyped /\ CallsTyped /\ AwaitsAll /\ FinalizationSound /\ AwaitsAfter /\ RequestsNeeded
    BY DEF IInv
  <1>1. tasks' \in Seq(TaskSet) /\ TasksShift(1)
    <2>1. CASE Disconnected
      BY <1>0, <2>1, TaskTaken DEF Disconnected
    <2>2. CASE RequestModuleMetadata
      BY <1>0, <2>2, TaskTaken DEF RequestModuleMetadata
    <2> QED BY <2>1, <2>2
  <1>2. to_front' \in Seq(MessageSet) /\ MessagesShift(0)
    <2>1. CASE Disconnected
      BY <1>0, <2>1, MessagesStay DEF Disconnected, StateTyped
    <2>2. CASE RequestModuleMetadata
      <3> DEFINE x == [kind |-> "metadata", token |-> Head(tasks).token, module |-> Head(tasks).module]
      <3>1. TaskAt(1, "metadata") /\ Head(tasks) = tasks[1]
        BY <1>0, <2>2, TaskTaken DEF RequestModuleMetadata
      <3>2. tasks[1] \in TaskSet /\ tasks[1].kind = "metadata"
        BY <1>0, <3>1, AtFacts DEF TaskAt
      <3>3. Head(tasks).token \in Tokens /\ Head(tasks).module \in Modules
        BY <3>1, <3>2, TaskFacts
      <3>4. x \in MessageSet /\ x.kind = "metadata"
        BY <3>3 DEF MessageSet
      <3>5. Deliver(<<x>>) \/ UNCHANGED to_front
        BY <2>2 DEF RequestModuleMetadata
      <3>6. CASE Deliver(<<x>>)
        BY <1>0, <3>4, <3>6, MessageBeside
      <3>7. CASE UNCHANGED to_front
        BY <1>0, <3>7, MessagesStay DEF StateTyped
      <3> QED BY <3>5, <3>6, <3>7
    <2> QED BY <2>1, <2>2
  <1>3. UNCHANGED <<collectorVars, due, owner, statistics, initialized, connection, exit_requested, update_request, final_request,
                    mappings, metadata, requests, token, remaining, enable, finalized, front>> /\ connection # "none"
    BY DEF Disconnected, RequestModuleMetadata, workerVars, finalVars, dataVars, Task, Working
  <1>4. AwaitsAll' /\ FinalizationSound' /\ (NotAwaited => NotAwaited')
    BY <1>0, <1>3, RequestsKept
  <1>5. RequestsNeeded'
    BY <1>0, <1>3 DEF RequestsNeeded
  <1>6. final_request = 0 => ~finalized'
    BY <1>0, <1>3 DEF AwaitsAfter
  <1>7. /\ requests' \in [Modules -> RequestSet] /\ token' \in Tokens /\ token <= token' /\ remaining' \in Nat
        /\ front' \in {"open", "closing", "closed"}
    BY <1>0, <1>3 DEF StateTyped, Tokens
  <1>8. \A j \in 1..0 : ~At(j, "statistics") /\ ~At(j, "loaded")
    OBVIOUS
  <1> QED BY <1>1, <1>2, <1>3, <1>4, <1>5, <1>6, <1>7, <1>8, OtherStep

\* The connection is there as long as the frontend is.
LEMMA Connected == ASSUME Started, front # "closed" PROVE connection # "none"
  BY DEF Started

\* Messages that bring neither calls nor an update.
LEMMA MessageStep == ASSUME IInv, OnLoaded \/ OnStaleMetadata PROVE IInv'
  <1>0. StateTyped /\ CallsTyped /\ Started /\ UpdatesInOrder /\ AwaitsAll /\ FinalizationSound /\ AwaitsAfter /\ RequestsNeeded
    BY DEF IInv
  <1>1. tasks' \in Seq(TaskSet) /\ TasksShift(0)
    BY <1>0, TasksStay DEF OnLoaded, OnStaleMetadata, StateTyped
  <1>2. /\ to_front' \in Seq(MessageSet) /\ MessagesShift(1) /\ Head(to_front) = to_front[1] /\ front # "closed"
        /\ \/ OnLoaded /\ At(1, "loaded")
           \/ OnStaleMetadata /\ At(1, "metadata")
    BY <1>0, MessageTaken DEF OnLoaded, OnStaleMetadata, Message
  <1>3. UNCHANGED <<collectorVars, due, owner, statistics, initialized, connection, exit_requested, update_request, final_request,
                    metadata, requests, token, remaining, enable, finalized, front>>
    BY DEF OnLoaded, OnStaleMetadata, workerVars, finalVars, dataVars
  <1>4. AwaitsAll' /\ FinalizationSound' /\ (NotAwaited => NotAwaited')
    BY <1>0, <1>3, RequestsKept
  <1>5. RequestsNeeded'
    BY <1>0, <1>3 DEF RequestsNeeded
  <1>6. final_request = 0 => ~finalized'
    BY <1>0, <1>3 DEF AwaitsAfter
  <1>7. /\ requests' \in [Modules -> RequestSet] /\ token' \in Tokens /\ token <= token' /\ remaining' \in Nat
        /\ front' \in {"open", "closing", "closed"}
    BY <1>0, <1>3 DEF StateTyped, Tokens
  <1>8. mappings \subseteq mappings' /\ \A j \in 1..1 : ~At(j, "statistics") /\ (At(j, "loaded") => to_front[j].modules \subseteq mappings')
    <2>1. CASE OnLoaded /\ At(1, "loaded")
      <3>1. At(1 + 1, "statistics") /\ to_front[1].token = to_front[1 + 1].token
        BY <1>0, <2>1 DEF UpdatesInOrder
      <3>2. to_front[1].token \in {update_request, final_request}
        BY <1>0, <3>1 DEF UpdatesInOrder
      <3>3. mappings' = mappings \cup to_front[1].modules
        BY <1>2, <2>1, <3>2 DEF OnLoaded
      <3>4. ~At(1, "statistics")
        BY <2>1 DEF At
      <3> QED BY <3>3, <3>4
    <2>2. CASE OnStaleMetadata /\ At(1, "metadata")
      <3>1. mappings' = mappings
        BY <2>2 DEF OnStaleMetadata, dataVars
      <3>2. ~At(1, "statistics") /\ ~At(1, "loaded")
        BY <2>2 DEF At
      <3> QED BY <3>1, <3>2
    <2> QED BY <1>2, <2>1, <2>2
  <1>9. connection # "none"
    BY <1>0, <1>2, Connected
  <1> QED BY <1>1, <1>2, <1>3, <1>4, <1>5, <1>6, <1>7, <1>8, <1>9, OtherStep


\* What a step may make of one request without finalize noticing.
Alike(r, q, m) ==
    /\ q \in RequestSet
    /\ "final" \in q.callbacks <=> "final" \in r.callbacks
    /\ q.stage # "none" => m \notin metadata
    /\ q.token # 0 => q.stage # "none"

LEMMA AlikeRequests == ASSUME StateTyped, RequestsNeeded, NEW m \in Modules PROVE
    /\ Alike(requests[m], requests[m], m)
    /\ Alike(requests[m], Joined(requests[m], "ui", m \in metadata), m)
    /\ Alike(requests[m], Without(requests[m], "ui"), m)
    /\ requests[m].stage = "file" => Alike(requests[m], [requests[m] EXCEPT !.stage = "network", !.token = token], m)
  <1>1. /\ requests[m] \in RequestSet
        /\ requests[m].stage # "none" => m \notin metadata
        /\ requests[m].token # 0 => requests[m].stage # "none"
        /\ token \in Nat
    BY DEF StateTyped, RequestsNeeded, Tokens
  <1>2. Alike(requests[m], requests[m], m)
    BY <1>1 DEF Alike
  <1>3. Alike(requests[m], Joined(requests[m], "ui", m \in metadata), m)
    BY <1>1 DEF Alike, Joined, RequestSet
  <1>4. Alike(requests[m], Without(requests[m], "ui"), m)
    <2>1. CASE requests[m].callbacks \subseteq {"ui"}
      <3>1. Without(requests[m], "ui") = Idle
        BY <2>1 DEF Without
      <3>2. Idle \in RequestSet /\ Idle.callbacks = {} /\ Idle.stage = "none" /\ Idle.token = 0
        BY DEF Idle, RequestSet
      <3>3. "final" \notin requests[m].callbacks
        BY <2>1
      <3> QED BY <3>1, <3>2, <3>3 DEF Alike
    <2>2. CASE ~(requests[m].callbacks \subseteq {"ui"})
      <3>1. Without(requests[m], "ui") = [requests[m] EXCEPT !.callbacks = @ \ {"ui"}]
        BY <2>2 DEF Without
      <3> QED BY <1>1, <3>1 DEF Alike, RequestSet
    <2> QED BY <2>1, <2>2
  <1>5. requests[m].stage = "file" => Alike(requests[m], [requests[m] EXCEPT !.stage = "network", !.token = token], m)
    BY <1>1 DEF Alike, RequestSet
  <1> QED BY <1>2, <1>3, <1>4, <1>5

\* The UI asks for metadata, gives up or closes; a file is not in the cache.
LEMMA UiStep ==
    ASSUME IInv, (\E m \in Modules : UiRequest(m) \/ UiCancel(m) \/ CacheMiss(m)) \/ UserCloses
    PROVE  IInv'
  <1>0. StateTyped /\ CallsTyped /\ Started /\ AwaitsAll /\ FinalizationSound /\ AwaitsAfter /\ RequestsNeeded
    BY DEF IInv
  <1>1. requests \in [Modules -> RequestSet] /\ token \in Tokens /\ token \in Nat /\ tasks \in Seq(TaskSet)
        /\ front \in {"open", "closing", "closed"} /\ to_front \in Seq(MessageSet)
    BY <1>0 DEF StateTyped, Tokens
  <1>2. /\ DOMAIN requests' = Modules /\ requests' = [n \in Modules |-> requests'[n]]
        /\ \A n \in Modules : Alike(requests[n], requests'[n], n)
    <2>1. ASSUME NEW m \in Modules, UiRequest(m) PROVE <1>2!:
      <3>1. requests' = [requests EXCEPT ![m] = Joined(requests[m], "ui", m \in metadata)]
        BY <2>1 DEF UiRequest
      <3>2. requests' = [n \in Modules |-> IF n = m THEN Joined(requests[m], "ui", m \in metadata) ELSE requests[n]]
        BY <1>1, <3>1
      <3> QED BY <1>0, <3>2, AlikeRequests
    <2>2. ASSUME NEW m \in Modules, UiCancel(m) PROVE <1>2!:
      <3>1. requests' = [requests EXCEPT ![m] = Without(requests[m], "ui")]
        BY <2>2 DEF UiCancel
      <3>2. requests' = [n \in Modules |-> IF n = m THEN Without(requests[m], "ui") ELSE requests[n]]
        BY <1>1, <3>1
      <3> QED BY <1>0, <3>2, AlikeRequests
    <2>3. ASSUME NEW m \in Modules, CacheMiss(m) PROVE <1>2!:
      <3>1. requests' = [requests EXCEPT ![m].stage = "network", ![m].token = token] /\ requests[m].stage = "file"
        BY <2>3 DEF CacheMiss
      <3>2. requests' = [n \in Modules |-> IF n = m THEN [requests[m] EXCEPT !.stage = "network", !.token = token] ELSE requests[n]]
        BY <1>1, <3>1
      <3> QED BY <1>0, <3>1, <3>2, AlikeRequests
    <2>4. CASE UserCloses
      <3>1. requests' = [n \in Modules |-> Without(requests[n], "ui")]
        BY <2>4 DEF UserCloses
      <3> QED BY <1>0, <3>1, AlikeRequests
    <2> QED BY <2>1, <2>2, <2>3, <2>4
  <1>3. /\ requests' \in [Modules -> RequestSet]
        /\ \A n \in Modules : "final" \in requests'[n].callbacks <=> "final" \in requests[n].callbacks
    <2>1. \A n \in Modules : requests'[n] \in RequestSet
      BY <1>2 DEF Alike
    <2> QED BY <1>2, <2>1 DEF Alike
  <1>4. UNCHANGED <<collectorVars, due, owner, statistics, initialized, connection, exit_requested, update_request, final_request,
                    mappings, metadata, remaining, enable, finalized, to_front>>
    BY DEF UiRequest, UiCancel, CacheMiss, UserCloses, workerVars, finalVars, dataVars
  <1>5. /\ tasks' \in Seq(TaskSet) /\ TasksShift(0)
        /\ front' \in {"open", "closing", "closed"} /\ front # "closed" /\ token' \in Tokens /\ token <= token'
    <2>1. ASSUME NEW m \in Modules, UiRequest(m) \/ UiCancel(m) PROVE <1>5!:
      <3>1. tasks' = tasks /\ front' = front /\ front # "closed" /\ token' = token
        BY <2>1 DEF UiRequest, UiCancel
      <3> QED BY <1>1, <3>1, TasksStay
    <2>2. ASSUME NEW m \in Modules, CacheMiss(m) PROVE <1>5!:
      <3> DEFINE x == [kind |-> "metadata", token |-> token, module |-> m]
      <3>1. x \in TaskSet /\ x.kind = "metadata"
        BY <1>1 DEF TaskSet
      <3>2. Send(<<x>>, FALSE) /\ front # "closed" /\ token' = token + 1
        BY <2>2 DEF CacheMiss
      <3>3. tasks' \in Seq(TaskSet) /\ TasksShift(0) /\ front' = front
        BY <1>0, <3>1, <3>2, SentRequest
      <3>4. token + 1 \in Tokens /\ token <= token + 1
        BY <1>1 DEF Tokens
      <3> QED BY <1>1, <3>2, <3>3, <3>4
    <2>3. CASE UserCloses
      <3>1. Send(<<>>, TRUE) /\ front = "open" /\ token' = token
        BY <2>3 DEF UserCloses
      <3>2. tasks' \in Seq(TaskSet) /\ TasksShift(0) /\ front' = "closing"
        BY <1>0, <3>1, SentNothing
      <3> QED BY <1>1, <3>1, <3>2
    <2> QED BY <2>1, <2>2, <2>3
  <1>6. to_front' \in Seq(MessageSet) /\ MessagesShift(0)
    BY <1>1, <1>4, MessagesStay
  <1>7. AwaitsAll' /\ FinalizationSound' /\ (NotAwaited => NotAwaited')
    BY <1>0, <1>3, <1>4, <1>5, RequestsKept
  <1>8. RequestsNeeded'
    BY <1>2, <1>4 DEF RequestsNeeded, Alike
  <1>9. final_request = 0 => ~finalized'
    BY <1>0, <1>4 DEF AwaitsAfter
  <1>10. \A j \in 1..0 : ~At(j, "statistics") /\ ~At(j, "loaded")
    OBVIOUS
  <1>11. remaining' \in Nat /\ connection # "none" /\ mappings \subseteq mappings'
    BY <1>0, <1>4, <1>5, Connected DEF StateTyped
  <1> QED BY <1>3, <1>4, <1>5, <1>6, <1>7, <1>8, <1>9, <1>10, <1>11, OtherStep

\* Metadata are there.
LEMMA ReadyStays ==
    ASSUME IInv, NEW m \in Modules, NEW d \in Nat,
           Ready(m), requests[m].stage # "none", front # "closed",
           to_front' \in Seq(MessageSet), MessagesShift(d), \A j \in 1..d : ~At(j, "statistics") /\ ~At(j, "loaded"),
           UNCHANGED <<collectorVars, due, owner, statistics, initialized, connection, exit_requested, update_request,
                       final_request, mappings, enable, token>>
    PROVE  IInv'
  <1>0. StateTyped /\ CallsTyped /\ Started /\ AwaitsAll /\ FinalizationSound /\ AwaitsAfter /\ RequestsNeeded
    BY DEF IInv
  <1>3. m \notin metadata
    BY <1>0 DEF RequestsNeeded
  <1>4. /\ requests' \in [Modules -> RequestSet] /\ remaining' \in Nat
        /\ tasks' \in Seq(TaskSet) /\ TasksShift(0) /\ front' \in {"open", "closing", "closed"} /\ front' # "closed"
        /\ RequestsNeeded' /\ AwaitsAll' /\ FinalizationSound'
        /\ NotAwaited => NotAwaited' /\ (~finalized => ~finalized')
    BY <1>0, <1>3, RequestReady
  <1>5. final_request = 0 => ~finalized'
    BY <1>0, <1>4 DEF AwaitsAfter
  <1>6. connection # "none" /\ token' \in Tokens /\ token <= token' /\ mappings \subseteq mappings'
    BY <1>0, Connected DEF StateTyped, Tokens
  <1> QED BY <1>4, <1>5, <1>6, OtherStep

\* They come from the cache or in answer to a request.
LEMMA ReadyStep == ASSUME IInv, (\E m \in Modules : CacheHit(m)) \/ OnMetadata PROVE IInv'
  <1>0. StateTyped /\ RequestsNeeded
    BY DEF IInv
  <1>1. UNCHANGED <<collectorVars, due, owner, statistics, initialized, connection, exit_requested, update_request,
                    final_request, mappings, enable, token>>
    BY DEF CacheHit, OnMetadata, workerVars
  <1>2. ASSUME NEW m \in Modules, CacheHit(m) PROVE IInv'
    <2>1. Ready(m) /\ requests[m].stage # "none" /\ front # "closed" /\ UNCHANGED to_front
      BY <1>2 DEF CacheHit
    <2>2. to_front' \in Seq(MessageSet) /\ MessagesShift(0)
      BY <1>0, <2>1, MessagesStay DEF StateTyped
    <2>3. \A j \in 1..0 : ~At(j, "statistics") /\ ~At(j, "loaded")
      OBVIOUS
    <2> QED BY <1>1, <2>1, <2>2, <2>3, ReadyStays
  <1>3. CASE OnMetadata
    <2>1. /\ At(1, "metadata") /\ Head(to_front) = to_front[1] /\ front # "closed"
          /\ to_front' \in Seq(MessageSet) /\ MessagesShift(1)
      BY <1>0, <1>3, MessageTaken DEF OnMetadata, Message
    <2>2. to_front[1] \in MessageSet /\ to_front[1].kind = "metadata"
      BY <1>0, <2>1, AtFacts DEF At
    <2>3. to_front[1].token \in Tokens /\ to_front[1].module \in Modules
      BY <2>2, MessageFacts
    <2>4. Ready(to_front[1].module) /\ requests[to_front[1].module].token = to_front[1].token
      BY <1>3, <2>1 DEF OnMetadata
    <2>5. requests[to_front[1].module].stage # "none"
      BY <1>0, <2>3, <2>4 DEF RequestsNeeded, Tokens
    <2>6. \A j \in 1..1 : ~At(j, "statistics") /\ ~At(j, "loaded")
      BY <2>2 DEF At
    <2>7. PICK n \in Modules : n = to_front[1].module
      BY <2>3
    <2>8. Ready(n) /\ requests[n].stage # "none"
      BY <2>4, <2>5, <2>7
    <2> QED BY <1>1, <2>1, <2>6, <2>8, ReadyStays
  <1> QED BY <1>2, <1>3

\* The frontend is gone with what was on the way to it.
LEMMA GoneStep == ASSUME IInv, FrontDestroyed PROVE IInv'
  <1>0. StateTyped /\ CallsTyped /\ Started /\ AwaitsAll /\ FinalizationSound /\ AwaitsAfter /\ RequestsNeeded
    BY DEF IInv
  <1>1. /\ UNCHANGED <<collectorVars, due, owner, statistics, initialized, connection, exit_requested, update_request, final_request,
                       mappings, metadata, remaining, enable, finalized, token, tasks>>
        /\ front' = "closed" /\ front = "closing" /\ to_front' = <<>> /\ requests' = [n \in Modules |-> Idle]
    BY DEF FrontDestroyed, workerVars, finalVars, dataVars
  <1>2. tasks' \in Seq(TaskSet) /\ TasksShift(0) /\ to_front' \in Seq(MessageSet) /\ Len(to_front') = 0
    BY <1>0, <1>1, TasksStay, EmptySeq DEF StateTyped
  <1>3. PICK d \in Nat : d = Len(to_front)
    BY <1>0, LenProperties DEF StateTyped
  <1>4. MessagesShift(d)
    <2> SUFFICES ASSUME NEW i \in Nat, NEW k PROVE ~At(i, k)' /\ (i # 0 => ~At(i + d, k))
      BY DEF MessagesShift
    <2>1. i \notin 1..0 /\ (i # 0 => i + d \notin 1..d)
      OBVIOUS
    <2> QED BY <1>2, <1>3, <2>1 DEF At
  <1>5. Idle \in RequestSet /\ Idle.callbacks = {} /\ Idle.stage = "none" /\ Idle.token = 0
    BY DEF Idle, RequestSet
  <1>6. requests' \in [Modules -> RequestSet] /\ \A n \in Modules : requests'[n] = Idle
    BY <1>1, <1>5
  <1>7. RequestsNeeded'
    BY <1>5, <1>6 DEF RequestsNeeded
  <1>8. AwaitsAll' /\ RemainingIsAwaited'
    BY <1>1 DEF AwaitsAll, RemainingIsAwaited
  <1>9. FinalizationSound'
    BY <1>0, <1>1, <1>8 DEF FinalizationSound, FinalizationComplete
  <1>10. NotAwaited => NotAwaited'
    BY <1>1, <1>5, <1>6 DEF NotAwaited
  <1>11. final_request = 0 => ~finalized'
    BY <1>0, <1>1 DEF AwaitsAfter
  <1>12. remaining' \in Nat /\ connection # "none" /\ mappings \subseteq mappings' /\ token' \in Tokens /\ token <= token'
    BY <1>0, <1>1, Connected DEF StateTyped, Tokens
  <1> QED BY <1>1, <1>2, <1>4, <1>6, <1>7, <1>8, <1>9, <1>10, <1>11, <1>12, OtherStep


\* Steps of the profiled process that leave the frontend as it is.
LEMMA CollectorStep ==
    ASSUME IInv, NEW e \in Nat, NEW extra,
           UNCHANGED <<connection, front, initialized, token, update_request, final_request, remaining, enable, finalized,
                       statistics, mappings, metadata, requests, reported>>,
           tasks' \in Seq(TaskSet), to_front' \in Seq(MessageSet), owner' \in {"alive", "joining", "joined"},
           \A i \in Nat : At(i, "init")' => At(i + 0, "init"), ReportsShift(0), UpdateTasksShift(e),
           ExitInOrder', Started',
           extra \cap made = {}, made' = made \cup extra,
           made' \in SUBSET Calls, IsFiniteSet(made'), \A c \in made' : c[2] <= Cardinality(made'),
           open' \subseteq made', buffered' \subseteq made', unread' \subseteq made', analyzed' \subseteq made', due' \subseteq made' \ buffered',
           Held' = Held \cup extra, HeldApart',
           final_request # 0 => due' = due /\ due \cap analyzed' \subseteq analyzed
    PROVE  IInv'
  <1>0. StateTyped /\ CallsTyped /\ UpdatesInOrder /\ SentApart /\ Kept /\ Mapped
        /\ FinalLast /\ AwaitsAfter /\ RequestsNeeded /\ AwaitsAll /\ FinalizationSound
    BY DEF IInv
  <1>1. StateTyped'
    BY <1>0 DEF StateTyped
  <1>2. UpdatesInOrder'
    BY <1>0, UpdatesMoved
  <1>3. \A j \in 1..0 : ~At(j, "statistics") /\ ~At(j, "loaded")
    OBVIOUS
  <1>4. SentApart' /\ Kept' /\ \A i \in Nat : At(i, "statistics")' => to_front'[i].calls \subseteq made'
    BY <1>0, <1>3, CallsShift
  <1>5. CallsTyped'
    <2>1. statistics' \subseteq made' /\ reported' \subseteq ModulesOf(made')
      BY <1>0 DEF CallsTyped, ModulesOf
    <2> QED BY <1>4, <2>1 DEF CallsTyped
  <1>6. Mapped'
    <2>1. \A c \in statistics' : c[1] \in mappings'
      BY <1>0 DEF Mapped
    <2> QED BY <1>0, <1>3, <2>1, MappedShift
  <1>7. NotAwaited => NotAwaited'
    BY DEF NotAwaited
  <1>8. final_request = 0 => ~finalized /\ ~enable
    BY <1>0 DEF AwaitsAfter, NotAwaited
  <1>9. FinalLast'
    <2>1. CASE final_request # 0
      <3>1. due' = due /\ due \cap analyzed' \subseteq analyzed
        BY <2>1
      <3> QED BY <1>0, <3>1, FinalLastShift
    <2>2. CASE final_request = 0
      <3>1. \A i \in Nat : At(i, "statistics")' => to_front'[i].token # 0
        <4> SUFFICES ASSUME NEW i \in Nat, At(i, "statistics")' PROVE to_front'[i].token # 0
          OBVIOUS
        <4>1. i + 0 \in Nat /\ At(i + 0, "statistics") /\ to_front'[i] = to_front[i + 0]
          BY DEF ReportsShift
        <4>2. to_front'[i].token \in Tokens
          BY <1>0, <4>1, AtFacts
        <4> QED BY <4>2 DEF Tokens
      <3> QED BY <2>2, <3>1 DEF FinalLast
    <2> QED BY <2>1, <2>2
  <1>10. AwaitsAfter'
    <2>1. \A i \in Nat : TaskAt(i, "update")' /\ tasks'[i].token = final_request =>
               \E j \in Nat : TaskAt(j, "update") /\ tasks[j].token = final_request
      <3> SUFFICES ASSUME NEW i \in Nat, TaskAt(i, "update")', tasks'[i].token = final_request
                   PROVE  \E j \in Nat : TaskAt(j, "update") /\ tasks[j].token = final_request
        OBVIOUS
      <3>1. i + e \in Nat /\ TaskAt(i + e, "update") /\ tasks'[i] = tasks[i + e]
        BY DEF UpdateTasksShift
      <3> QED BY <3>1
    <2>2. \A i \in Nat : At(i, "statistics")' /\ to_front'[i].token = final_request =>
               \E j \in Nat : At(j, "statistics") /\ to_front[j].token = final_request
      BY AwaitsReports
    <2> QED BY <1>0, <1>7, <1>8, <2>1, <2>2, AwaitsShift
  <1>11. RequestsNeeded'
    BY <1>0 DEF RequestsNeeded
  <1>12. AwaitsAll'
    BY <1>0, <1>8 DEF AwaitsAll
  <1>13. FinalizationSound'
    <2>1. FinalizationComplete'
      BY <1>0, <1>8 DEF FinalizationSound, FinalizationComplete
    <2>2. RemainingIsAwaited'
      BY <1>0 DEF FinalizationSound, RemainingIsAwaited
    <2> QED BY <2>1, <2>2 DEF FinalizationSound
  <1> QED BY <1>1, <1>2, <1>4, <1>5, <1>6, <1>9, <1>10, <1>11, <1>12, <1>13 DEF IInv

LEMMA NoNewMessages == ASSUME StateTyped, UNCHANGED to_front PROVE
    /\ to_front' \in Seq(MessageSet) /\ ReportsShift(0)
    /\ \A i \in Nat : At(i, "init")' => At(i + 0, "init")
    /\ \A i \in Nat : At(i, "exiting")' => At(i + 0, "exiting")
  BY MessagesStay, ReportsAmongMessages DEF StateTyped, MessagesShift

LEMMA NoNewTasks == ASSUME StateTyped, UNCHANGED tasks PROVE
    /\ tasks' \in Seq(TaskSet) /\ UpdateTasksShift(0)
    /\ \A i \in Nat : TaskAt(i, "finalize")' => TaskAt(i + 0, "finalize")
  BY TasksStay DEF StateTyped, TasksShift, UpdateTasksShift

LEMMA RecordStep == ASSUME IInv, NEW m \in Modules, Record(m) PROVE IInv'
  <1>0. StateTyped /\ CallsTyped /\ Started /\ ExitInOrder /\ HeldApart /\ FinalLast
    BY DEF IInv
  <1> DEFINE c == <<m, Cardinality(made) + 1>>
  <1>1. UNCHANGED <<connection, front, initialized, token, update_request, final_request, remaining, enable, finalized,
                    statistics, mappings, metadata, requests, reported, unread, analyzed, tasks, to_front, owner, due, exit_requested>>
    BY DEF Record, workerVars, finalVars, dataVars
  <1>2. /\ Cardinality(made) < MaxCalls /\ made' = made \cup {c}
        /\ \/ owner = "alive" /\ open' = open \cup {c} /\ buffered' = buffered
           \/ buffered' = buffered \cup {c} /\ open' = open
    BY DEF Record
  <1>3. Cardinality(made) \in Nat /\ IsFiniteSet(made)
    BY <1>0, FS_CardinalityType DEF CallsTyped
  <1>4. c \notin made /\ c \in Calls
    <2>1. c[2] = Cardinality(made) + 1 /\ ~(Cardinality(made) + 1 <= Cardinality(made))
      BY <1>3
    <2>2. c \notin made
      BY <1>0, <2>1 DEF CallsTyped
    <2>3. Cardinality(made) + 1 \in 1..MaxCalls
      BY <1>2, <1>3, SessionBoundsAssumption
    <2> QED BY <2>2, <2>3 DEF Calls
  <1> HIDE DEF c
  <1>5. made' \in SUBSET Calls /\ IsFiniteSet(made') /\ Cardinality(made') = Cardinality(made) + 1
    BY <1>0, <1>2, <1>3, <1>4, FS_AddElement DEF CallsTyped
  <1>6. \A q \in made' : q[2] <= Cardinality(made')
    <2> SUFFICES ASSUME NEW q \in made' PROVE q[2] <= Cardinality(made) + 1
      BY <1>5
    <2>1. CASE q = c
      <3>1. q[2] = Cardinality(made) + 1
        BY <2>1 DEF c
      <3> QED BY <1>3, <3>1
    <2>2. CASE q \in made
      <3>1. q \in Calls /\ q[2] <= Cardinality(made)
        BY <1>0, <2>2 DEF CallsTyped
      <3>2. q[2] \in Nat
        BY <3>1 DEF Calls
      <3> QED BY <1>3, <3>1, <3>2
    <2> QED BY <1>2, <2>1, <2>2
  <1>7. /\ open \subseteq made /\ buffered \subseteq made /\ unread \subseteq made /\ analyzed \subseteq made
        /\ due \subseteq made \ buffered /\ statistics \subseteq made
    BY <1>0 DEF CallsTyped
  <1>8. /\ open' \subseteq made' /\ buffered' \subseteq made' /\ unread' \subseteq made' /\ analyzed' \subseteq made' /\ due' \subseteq made' \ buffered'
        /\ Held' = Held \cup {c}
    BY <1>1, <1>2, <1>4, <1>7 DEF Held
  <1>9. HeldApart'
    BY <1>0, <1>1, <1>2, <1>4, <1>7 DEF HeldApart
  <1>10. ExitInOrder'
    <2>1. exit_requested => due \cap unread' = {}
      BY <1>0, <1>1 DEF ExitInOrder
    <2>2. owner # "alive" => open' = open
      BY <1>2
    <2> QED BY <1>0, <1>1, <2>1, <2>2, NoNewMessages, NoNewTasks, ExitShift
  <1>11. Started'
    BY <1>0, <1>1 DEF Started
  <1>12. {c} \cap made = {} /\ due \cap analyzed' \subseteq analyzed
    BY <1>1, <1>4
  <1>13. owner' \in {"alive", "joining", "joined"}
    BY <1>0, <1>1 DEF StateTyped
  <1> QED BY <1>0, <1>1, <1>2, <1>5, <1>6, <1>8, <1>9, <1>10, <1>11, <1>12, <1>13, NoNewMessages, NoNewTasks, CollectorStep

LEMMA SameCalls == ASSUME CallsTyped, made' = made PROVE
    /\ {} \cap made = {} /\ made' = made \cup {}
    /\ made' \in SUBSET Calls /\ IsFiniteSet(made') /\ \A c \in made' : c[2] <= Cardinality(made')
  BY DEF CallsTyped

\* What is published is not due once the exit was told: the exiting thread has
\* nothing left by then, and what others had not published before is not due.
LEMMA PublishStep == ASSUME IInv, NEW calls, Publish(calls) PROVE IInv'
  <1>0. StateTyped /\ CallsTyped /\ Started /\ ExitInOrder /\ HeldApart
    BY DEF IInv
  <1>1. UNCHANGED <<connection, front, initialized, token, update_request, final_request, remaining, enable, finalized,
                    statistics, mappings, metadata, requests, reported, made, analyzed, due, tasks, to_front, owner, exit_requested>>
    BY DEF Publish, workerVars, finalVars, dataVars
  <1>2. /\ calls # {} /\ (calls \subseteq buffered \/ calls = open)
        /\ unread' = unread \cup calls /\ buffered' = buffered \ calls /\ open' = open \ calls
    BY DEF Publish
  <1>3. /\ open' \subseteq made' /\ buffered' \subseteq made' /\ unread' \subseteq made' /\ analyzed' \subseteq made' /\ due' \subseteq made' \ buffered'
        /\ Held' = Held \cup {}
    BY <1>0, <1>1, <1>2 DEF Held, CallsTyped
  <1>4. HeldApart'
    BY <1>0, <1>1, <1>2 DEF HeldApart
  <1>5. Started'
    BY <1>0, <1>1 DEF Started
  <1>6. ExitInOrder'
    <2>1. exit_requested => owner # "alive" /\ open = {} /\ due \cap unread = {}
      BY <1>0 DEF ExitInOrder
    <2>2. due \cap buffered = {}
      BY <1>0 DEF CallsTyped
    <2>3. exit_requested => due \cap unread' = {}
      BY <1>2, <2>1, <2>2
    <2>4. owner # "alive" => open' = open
      BY <1>0, <1>2 DEF ExitInOrder
    <2> QED BY <1>0, <1>1, <2>3, <2>4, NoNewMessages, NoNewTasks, ExitShift
  <1>7. due \cap analyzed' \subseteq analyzed
    BY <1>1
  <1>8. owner' \in {"alive", "joining", "joined"}
    BY <1>0, <1>1 DEF StateTyped
  <1> QED BY <1>0, <1>1, <1>3, <1>4, <1>5, <1>6, <1>7, <1>8, SameCalls, NoNewMessages, NoNewTasks, CollectorStep

LEMMA DestroyStep == ASSUME IInv, Destroy PROVE IInv'
  <1>0. StateTyped /\ CallsTyped /\ Started /\ ExitInOrder /\ HeldApart
    BY DEF IInv
  <1> DEFINE x == [kind |-> "finalize"]
  <1>1. UNCHANGED <<connection, front, initialized, token, update_request, final_request, remaining, enable, finalized,
                    statistics, mappings, metadata, requests, reported, made, buffered, analyzed, to_front, exit_requested>>
    BY DEF Destroy, workerVars, finalVars, dataVars
  <1>2. owner = "alive" /\ unread' = unread \cup open /\ open' = {} /\ due' = made \ buffered /\ owner' = "joining"
    BY DEF Destroy
  <1>3. x \in TaskSet /\ x.kind = "finalize"
    BY DEF TaskSet
  <1>4. tasks' = tasks \o <<x>>
    <2>1. tasks \in Seq(TaskSet) /\ tasks' = Append(tasks, x)
      BY <1>0 DEF StateTyped, Destroy
    <2> QED BY <1>3, <2>1, AppendIsConcat
  <1>5. tasks' \in Seq(TaskSet) /\ UpdateTasksShift(0)
    <2>1. tasks' \in Seq(TaskSet)
      BY <1>0, <1>3, <1>4, TaskAdded
    <2>2. ASSUME NEW i \in Nat, TaskAt(i, "update")' PROVE TaskAt(i + 0, "update") /\ tasks'[i] = tasks[i + 0]
      <3>1. i + 0 = i
        OBVIOUS
      <3>2. TaskAt(i, "update") /\ tasks'[i] = tasks[i]
        BY <1>0, <1>3, <1>4, <2>2, TaskAdded
      <3> QED BY <3>1, <3>2
    <2> QED BY <2>1, <2>2 DEF UpdateTasksShift
  <1>6. /\ open' \subseteq made' /\ buffered' \subseteq made' /\ unread' \subseteq made' /\ analyzed' \subseteq made' /\ due' \subseteq made' \ buffered'
        /\ Held' = Held \cup {}
    BY <1>0, <1>1, <1>2 DEF Held, CallsTyped
  <1>7. HeldApart'
    BY <1>0, <1>1, <1>2 DEF HeldApart
  <1>8. ExitInOrder'
    BY <1>0, ExitDestroy
  <1>9. Started'
    BY <1>0, <1>1 DEF Started
  <1>10. final_request = 0
    BY <1>0, <1>2 DEF ExitInOrder
  <1> QED BY <1>0, <1>1, <1>2, <1>5, <1>6, <1>7, <1>8, <1>9, <1>10, SameCalls, NoNewMessages, CollectorStep

LEMMA JoinStep == ASSUME IInv, Join PROVE IInv'
  <1>0. StateTyped /\ CallsTyped /\ Started /\ ExitInOrder /\ HeldApart
    BY DEF IInv
  <1>1. UNCHANGED <<connection, front, initialized, token, update_request, final_request, remaining, enable, finalized,
                    statistics, mappings, metadata, requests, reported, made, open, buffered, unread, analyzed, due, tasks, to_front,
                    exit_requested>>
    BY DEF Join, collectorVars, workerVars, finalVars, dataVars
  <1>2. owner = "joining" /\ owner' = "joined"
    BY DEF Join
  <1>3. /\ open' \subseteq made' /\ buffered' \subseteq made' /\ unread' \subseteq made' /\ analyzed' \subseteq made' /\ due' \subseteq made' \ buffered'
        /\ Held' = Held \cup {}
    BY <1>0, <1>1 DEF Held, CallsTyped
  <1>4. HeldApart' /\ Started'
    BY <1>0, <1>1 DEF HeldApart, Started
  <1>5. ExitInOrder'
    BY <1>0, <1>1, <1>2 DEF ExitInOrder, TaskAt, At
  <1> QED BY <1>0, <1>1, <1>2, <1>3, <1>4, <1>5, SameCalls, NoNewMessages, NoNewTasks, CollectorStep

\* A pass moves published calls on; none of them is due once the exit was told.
LEMMA CollectStep == ASSUME IInv, Collect PROVE IInv'
  <1>0. StateTyped /\ CallsTyped /\ Started /\ ExitInOrder /\ HeldApart
    BY DEF IInv
  <1>1. UNCHANGED <<connection, front, initialized, token, update_request, final_request, remaining, enable, finalized,
                    statistics, mappings, metadata, requests, reported, made, open, buffered, due, tasks, to_front, owner, exit_requested>>
    BY DEF Collect, workerVars, finalVars, dataVars
  <1>2. connection # "none" /\ analyzed' = analyzed \cup unread /\ unread' = {}
    BY DEF Collect, Working
  <1>3. /\ open' \subseteq made' /\ buffered' \subseteq made' /\ unread' \subseteq made' /\ analyzed' \subseteq made' /\ due' \subseteq made' \ buffered'
        /\ Held' = Held \cup {}
    BY <1>0, <1>1, <1>2 DEF Held, CallsTyped
  <1>4. HeldApart' /\ Started'
    BY <1>0, <1>1, <1>2 DEF HeldApart, Started
  <1>5. ExitInOrder'
    BY <1>0, <1>1, <1>2, NoNewMessages, NoNewTasks, ExitShift
  <1>6. final_request # 0 => due' = due /\ due \cap analyzed' \subseteq analyzed
    BY <1>0, <1>1, <1>2 DEF ExitInOrder
  <1>7. owner' \in {"alive", "joining", "joined"}
    BY <1>0, <1>1 DEF StateTyped
  <1> QED BY <1>0, <1>1, <1>3, <1>4, <1>5, <1>6, <1>7, SameCalls, NoNewMessages, NoNewTasks, CollectorStep


\* The calls that are due are analyzed before the frontend is told of the exit.
LEMMA FinalizeStep == ASSUME IInv, Finalize PROVE IInv'
  <1>0. StateTyped /\ CallsTyped /\ Started /\ ExitInOrder /\ HeldApart
    BY DEF IInv
  <1> DEFINE x == [kind |-> "exiting"]
             y == [kind |-> "disconnected"]
  <1>1. UNCHANGED <<connection, front, initialized, token, update_request, final_request, remaining, enable, finalized,
                    statistics, mappings, metadata, requests, reported, made, open, buffered, due, owner>>
    BY DEF Finalize, finalVars, dataVars
  <1>2. /\ connection # "none"
        /\ \/ analyzed' = analyzed \cup unread /\ unread' = {}
           \/ analyzed' = analyzed /\ unread' = unread
        /\ to_front' = to_front \/ to_front' = to_front \o <<x>>
    BY DEF Finalize, Task, Working, Deliver
  <1>3. x \in MessageSet /\ x.kind = "exiting" /\ y \in TaskSet /\ y.kind = "disconnected"
    BY DEF MessageSet, TaskSet
  <1>4. /\ to_front' \in Seq(MessageSet) /\ ReportsShift(0)
        /\ \A i \in Nat : At(i, "init")' => At(i + 0, "init")
    <2>1. CASE to_front' = to_front
      BY <1>0, <2>1, NoNewMessages
    <2>2. CASE to_front' = to_front \o <<x>>
      <3>1. to_front' \in Seq(MessageSet)
        BY <1>0, <1>3, <2>2, MessageAdded
      <3>2. ASSUME NEW i \in Nat, NEW k \in {"init", "loaded", "statistics"}
            PROVE  /\ At(i, k)' <=> i # 0 /\ At(i + 0, k)
                   /\ At(i, k)' => to_front'[i] = to_front[i + 0]
        <4>1. i + 0 = i /\ x.kind # k
          BY <1>3
        <4>2. (At(i, k)' <=> At(i, k)) /\ (At(i, k) => to_front'[i] = to_front[i])
          BY <1>0, <1>3, <2>2, <4>1, MessageAdded
        <4>3. At(i, k) => i # 0
          BY DEF At
        <4> QED BY <4>1, <4>2, <4>3
      <3> QED BY <3>1, <3>2 DEF ReportsShift
    <2> QED BY <1>2, <2>1, <2>2
  <1>5. TaskAt(1, "finalize") /\ tasks' \in Seq(TaskSet) /\ TasksShift(1)
    <2>1. tasks \in Seq(TaskSet) /\ tasks # <<>> /\ Head(tasks).kind = "finalize"
      BY <1>0 DEF Finalize, Task, StateTyped
    <2>2. PICK s \in Seq(TaskSet) : s = Tail(tasks) /\ Len(s) = Len(tasks) - 1 /\ \A i \in 1..Len(s) : s[i] = tasks[i + 1]
      BY <2>1, HeadTailProperties
    <2>3. Len(tasks) \in Nat /\ Len(tasks) > 0 /\ Head(tasks) = tasks[1] /\ Len(s) \in Nat
      BY <2>1, HeadTailProperties, LenProperties, EmptySeq
    <2>4. tasks' = s \/ tasks' = s \o <<y>>
      <3>1. s \o <<>> = s
        BY ConcatEmptySeq
      <3> QED BY <2>2, <3>1 DEF Finalize
    <2>5. /\ tasks' \in Seq(TaskSet) /\ Len(tasks') \in Nat /\ Len(tasks') >= Len(s)
          /\ \A i \in 1..Len(s) : tasks'[i] = s[i]
          /\ \A i \in 1..Len(tasks') : i \in 1..Len(s) \/ tasks'[i].kind = "disconnected"
      <3>1. CASE tasks' = s
        BY <2>3, <3>1
      <3>2. CASE tasks' = s \o <<y>>
        <4>1. /\ tasks' \in Seq(TaskSet) /\ Len(tasks') = Len(s) + 1
              /\ \A i \in 1..Len(s) : tasks'[i] = s[i]
              /\ tasks'[Len(s) + 1] = y
          BY <1>3, <3>2, Appended
        <4> QED BY <1>3, <2>3, <4>1
      <3> QED BY <2>4, <3>1, <3>2
    <2>6. ASSUME NEW i \in Nat, NEW k \in {"finalize", "update"}
          PROVE  (TaskAt(i, k)' <=> i # 0 /\ TaskAt(i + 1, k)) /\ (TaskAt(i, k)' => tasks'[i] = tasks[i + 1])
      <3>1. i \in 1..Len(s) <=> i # 0 /\ i + 1 \in 1..Len(tasks)
        BY <2>2, <2>3
      <3>2. CASE i \in 1..Len(s)
        <4>1. tasks'[i] = tasks[i + 1] /\ i \in 1..Len(tasks')
          BY <2>2, <2>3, <2>5, <3>2
        <4> QED BY <3>1, <3>2, <4>1 DEF TaskAt
      <3>3. CASE i \notin 1..Len(s)
        <4>1. ~TaskAt(i, k)'
          BY <2>5, <3>3 DEF TaskAt
        <4> QED BY <3>1, <3>3, <4>1 DEF TaskAt
      <3> QED BY <3>2, <3>3
    <2>7. TaskAt(1, "finalize")
      BY <2>1, <2>3 DEF TaskAt
    <2> QED BY <2>5, <2>6, <2>7 DEF TasksShift
  <1>6. UpdateTasksShift(1)
    BY <1>5 DEF TasksShift, UpdateTasksShift
  <1>7. /\ open' \subseteq made' /\ buffered' \subseteq made' /\ unread' \subseteq made' /\ analyzed' \subseteq made' /\ due' \subseteq made' \ buffered'
        /\ Held' = Held \cup {}
    BY <1>0, <1>1, <1>2 DEF Held, CallsTyped
  <1>8. HeldApart' /\ Started'
    BY <1>0, <1>1, <1>2 DEF HeldApart, Started
  <1>9. ExitInOrder'
    BY <1>0, <1>5, ExitFinalize
  <1>10. final_request = 0
    BY <1>0, <1>5 DEF ExitInOrder
  <1>11. owner' \in {"alive", "joining", "joined"}
    BY <1>0, <1>1 DEF StateTyped
  <1> QED BY <1>0, <1>1, <1>4, <1>5, <1>6, <1>7, <1>8, <1>9, <1>10, <1>11, SameCalls, CollectorStep

\* The worker connects: nothing has been reported or asked for.
LEMMA StartStep == ASSUME IInv, StartWorker PROVE IInv'
  <1>0. StateTyped /\ CallsTyped /\ Started /\ ExitInOrder /\ UpdatesInOrder /\ HeldApart /\ SentApart /\ Kept /\ Mapped
        /\ AwaitsAfter /\ RequestsNeeded /\ FinalizationSound
    BY DEF IInv
  <1> DEFINE x == [kind |-> "init"]
             y == [kind |-> "disconnected"]
  <1>1. UNCHANGED <<initialized, token, update_request, final_request, remaining, enable, finalized,
                    statistics, mappings, metadata, requests, reported, made, open, buffered, unread, analyzed, due, owner, exit_requested>>
    BY DEF StartWorker, collectorVars, finalVars, dataVars
  <1>2. /\ connection = "none" /\ connection' \in {"null", "live"}
        /\ \/ front' = "open" /\ to_front' = <<x>> /\ tasks' = tasks
           \/ tasks' = Append(tasks, y) /\ front' = front /\ to_front' = to_front
    BY DEF StartWorker
  <1>3. /\ front = "closed" /\ to_front = <<>> /\ ~initialized /\ ~exit_requested
        /\ analyzed = {} /\ statistics = {} /\ reported = {}
    BY <1>0, <1>2 DEF Started
  <1>4. final_request = 0 /\ NotAwaited /\ ~finalized
    BY <1>0, <1>3 DEF ExitInOrder, AwaitsAfter
  <1>5. x \in MessageSet /\ y \in TaskSet /\ y.kind = "disconnected"
    BY DEF MessageSet, TaskSet
  <1>6. tasks' \in Seq(TaskSet) /\ TasksShift(0)
    <2>1. tasks \in Seq(TaskSet)
      BY <1>0 DEF StateTyped
    <2>2. CASE tasks' = tasks
      BY <2>1, <2>2, TasksStay
    <2>3. CASE tasks' = Append(tasks, y)
      <3>1. tasks' = tasks \o <<y>>
        BY <1>5, <2>1, <2>3, AppendIsConcat
      <3> QED BY <1>0, <1>5, <3>1, TaskBeside
    <2> QED BY <1>2, <2>2, <2>3
  <1>7. /\ to_front' \in Seq(MessageSet)
        /\ \A i \in Nat : \A k : ~At(i, k)
        /\ \A i \in Nat : \A k : At(i, k)' => i = 1 /\ k = "init"
    <2>1. Len(<<>>) = 0 /\ Len(<<x>>) = 1 /\ <<x>>[1] = x /\ <<x>> \in Seq(MessageSet) /\ <<>> \in Seq(MessageSet)
      BY <1>5, EmptySeq
    <2>2. \A i \in Nat : i \notin 1..0 /\ (i \in 1..1 => i = 1)
      OBVIOUS
    <2>3. \A i \in Nat : \A k : ~At(i, k)
      BY <1>3, <2>1, <2>2 DEF At
    <2>4. CASE to_front' = <<x>>
      BY <2>1, <2>2, <2>3, <2>4 DEF At
    <2>5. CASE to_front' = to_front
      BY <1>3, <2>1, <2>3, <2>5 DEF At
    <2> QED BY <1>2, <2>4, <2>5
  <1>8. StateTyped'
    BY <1>0, <1>1, <1>2, <1>6, <1>7 DEF StateTyped
  <1>9. ReportsShift(0)
    BY <1>7 DEF ReportsShift
  <1>10. Held' = Held \cup {} /\ made' = made \cup {} /\ {} \cap made = {}
    BY <1>1 DEF Held
  <1>11. \A j \in 1..0 : ~At(j, "statistics")
    OBVIOUS
  <1>12. SentApart' /\ Kept' /\ \A i \in Nat : At(i, "statistics")' => to_front'[i].calls \subseteq made'
    BY <1>0, <1>2, <1>9, <1>10, <1>11, CallsShift
  <1>13. CallsTyped'
    BY <1>0, <1>1, <1>12 DEF CallsTyped
  <1>14. Started' /\ HeldApart'
    BY <1>0, <1>1, <1>2 DEF Started, HeldApart
  <1>15. ExitInOrder'
    <2>1. \A i \in Nat : TaskAt(i, "finalize")' => TaskAt(i + 0, "finalize")
      BY <1>6 DEF TasksShift
    <2>2. \A i \in Nat : At(i, "exiting")' => At(i + 0, "exiting")
      BY <1>7
    <2> QED BY <1>0, <1>1, <1>3, <2>1, <2>2, ExitShift
  <1>16. UpdatesInOrder'
    <2>1. \A i \in Nat : TaskAt(i, "update")' => i + 0 = i /\ TaskAt(i, "update") /\ tasks'[i] = tasks[i]
      <3> SUFFICES ASSUME NEW i \in Nat, TaskAt(i, "update")' PROVE i + 0 = i /\ TaskAt(i, "update") /\ tasks'[i] = tasks[i]
        OBVIOUS
      <3>1. i + 0 = i
        OBVIOUS
      <3> QED BY <1>6, <3>1 DEF TasksShift
    <2>2. /\ \A i \in Nat : At(i, "init")' => i = 1 /\ ~initialized'
          /\ \A i \in Nat : ~At(i, "statistics")' /\ ~At(i, "loaded")'
      BY <1>1, <1>3, <1>7
    <2> QED BY <1>0, <1>1, <2>1, <2>2 DEF UpdatesInOrder
  <1>17. Mapped'
    <2>1. \A i \in Nat : ~At(i, "statistics")'
      BY <1>7
    <2> QED BY <1>1, <1>3, <2>1 DEF Mapped
  <1>18. FinalLast'
    <2>1. \A i \in Nat : ~At(i, "statistics")'
      BY <1>7
    <2> QED BY <2>1 DEF FinalLast
  <1>19. NotAwaited' /\ ~finalized'
    BY <1>1, <1>4 DEF NotAwaited
  <1>20. AwaitsAfter'
    BY <1>19 DEF AwaitsAfter
  <1>21. RequestsNeeded'
    BY <1>0, <1>1 DEF RequestsNeeded
  <1>22. AwaitsAll'
    BY <1>19 DEF AwaitsAll, NotAwaited
  <1>23. FinalizationSound'
    <2>1. {m \in Modules \ metadata' : "final" \in requests'[m].callbacks} = {}
      BY <1>19 DEF NotAwaited
    <2>2. RemainingIsAwaited'
      BY <1>19, <2>1, FS_EmptySet DEF RemainingIsAwaited, NotAwaited
    <2> QED BY <1>19, <2>2 DEF FinalizationSound, FinalizationComplete
  <1> QED BY <1>8, <1>12, <1>13, <1>14, <1>15, <1>16, <1>17, <1>18, <1>20, <1>21, <1>22, <1>23 DEF IInv


\* An update is asked for, by the UI or by finalize.
LEMMA AskStep ==
    ASSUME IInv, NEW d \in Nat, MessagesShift(d), to_front' \in Seq(MessageSet),
           \A j \in 1..d : ~At(j, "statistics") /\ ~At(j, "loaded"),
           Send(<<[kind |-> "update", token |-> token]>>, FALSE), token' = token + 1, front # "closed",
           \/ update_request = 0 /\ update_request' = token /\ final_request' = final_request
           \/ final_request = 0 /\ final_request' = token /\ update_request' = update_request,
           UNCHANGED <<made, open, buffered, unread, analyzed, reported, connection, exit_requested, owner, due,
                       remaining, enable, finalized, statistics, mappings, metadata, requests>>,
           UpdatesInOrder', ExitInOrder'
    PROVE  IInv'
  <1>0. StateTyped /\ CallsTyped /\ Started /\ UpdatesInOrder /\ HeldApart /\ SentApart /\ Kept /\ Mapped
        /\ FinalLast /\ AwaitsAfter /\ RequestsNeeded /\ AwaitsAll /\ FinalizationSound
    BY DEF IInv
  <1>1. /\ \A i \in Nat : TaskAt(i, "update")' => (TaskAt(i, "update") /\ tasks'[i] = tasks[i]) \/ tasks'[i].token = token
        /\ tasks' \in Seq(TaskSet)
        /\ front' = front
    BY <1>0, OnlyUpdateAsked
  <1>2. token \in Nat /\ token # 0 /\ token' \in Tokens /\ update_request \in 0..(token - 1) /\ final_request \in 0..(token - 1)
    BY <1>0 DEF StateTyped, Tokens
  <1>3. StateTyped'
    <2>1. update_request' \in 0..(token' - 1) /\ final_request' \in 0..(token' - 1)
      BY <1>2
    <2>2. /\ requests' \in [Modules -> RequestSet] /\ remaining' \in Nat
          /\ front' \in {"open", "closing", "closed"} /\ owner' \in {"alive", "joining", "joined"}
          /\ connection' \in {"none", "null", "live"}
      BY <1>0, <1>1 DEF StateTyped
    <2> QED BY <1>1, <1>2, <2>1, <2>2 DEF StateTyped
  <1>4. connection # "none"
    BY <1>0, Connected
  <1>5. Started' /\ HeldApart'
    BY <1>0, <1>4 DEF Started, HeldApart
  <1>6. ReportsShift(d)
    BY ReportsAmongMessages
  <1>7. SentApart' /\ Kept' /\ \A i \in Nat : At(i, "statistics")' => to_front'[i].calls \subseteq made'
    <2>1. Held' = Held \cup {} /\ made' = made \cup {} /\ {} \cap made = {}
      BY DEF Held
    <2> QED BY <1>0, <1>1, <1>4, <1>6, <2>1, CallsShift
  <1>8. CallsTyped'
    BY <1>0, <1>7 DEF CallsTyped
  <1>9. Mapped'
    <2>1. \A c \in statistics' : c[1] \in mappings'
      BY <1>0 DEF Mapped
    <2> QED BY <1>0, <1>1, <1>6, <2>1, MappedShift
  <1>10. AwaitsAll' /\ FinalizationSound' /\ (NotAwaited => NotAwaited')
    BY <1>0, <1>1, RequestsKept
  <1>11. RequestsNeeded'
    BY <1>0 DEF RequestsNeeded
  <1>12. CASE final_request' = final_request
    <2>1. FinalLast'
      BY <1>0, <1>6, <1>12, FinalLastShift
    <2>2. final_request # token
      BY <1>2
    <2>3. \A i \in Nat : TaskAt(i, "update")' /\ tasks'[i].token = final_request =>
               \E j \in Nat : TaskAt(j, "update") /\ tasks[j].token = final_request
      BY <1>1, <2>2
    <2>4. \A i \in Nat : At(i, "statistics")' /\ to_front'[i].token = final_request =>
               \E j \in Nat : At(j, "statistics") /\ to_front[j].token = final_request
      BY <1>6, AwaitsReports
    <2>5. final_request = 0 => ~finalized'
      BY <1>0 DEF AwaitsAfter
    <2>6. AwaitsAfter'
      BY <1>0, <1>10, <1>12, <2>3, <2>4, <2>5, AwaitsShift
    <2> QED BY <1>3, <1>5, <1>7, <1>8, <1>9, <1>10, <1>11, <2>1, <2>6 DEF IInv
  <1>13. CASE final_request = 0 /\ final_request' = token
    <2>1. \A i \in Nat : At(i, "statistics")' => to_front'[i].token # final_request'
      <3> SUFFICES ASSUME NEW i \in Nat, At(i, "statistics")' PROVE to_front'[i].token # token
        BY <1>13
      <3>1. i + d \in Nat /\ At(i + d, "statistics") /\ to_front'[i] = to_front[i + d]
        BY <1>6 DEF ReportsShift
      <3>2. to_front'[i].token \in {update_request, final_request}
        BY <1>0, <3>1 DEF UpdatesInOrder
      <3> QED BY <1>2, <3>2
    <2>2. FinalLast'
      BY <2>1 DEF FinalLast
    <2>3. NotAwaited' /\ ~finalized'
      BY <1>0, <1>10, <1>13 DEF AwaitsAfter
    <2>4. AwaitsAfter'
      BY <2>3 DEF AwaitsAfter
    <2> QED BY <1>3, <1>5, <1>7, <1>8, <1>9, <1>10, <1>11, <2>2, <2>4 DEF IInv
  <1> QED BY <1>12, <1>13

LEMMA PollStep == ASSUME IInv, Poll PROVE IInv'
  <1>0. StateTyped /\ ExitInOrder /\ UpdatesInOrder
    BY DEF IInv
  <1>1. /\ Send(<<[kind |-> "update", token |-> token]>>, FALSE) /\ token' = token + 1 /\ front # "closed" /\ initialized
        /\ update_request = 0 /\ update_request' = token /\ final_request' = final_request
        /\ UNCHANGED <<made, open, buffered, unread, analyzed, reported, connection, exit_requested, owner, due,
                       remaining, enable, finalized, statistics, mappings, metadata, requests, to_front, initialized>>
    BY DEF Poll, collectorVars, workerVars, finalVars, dataVars
  <1>2. MessagesShift(0) /\ to_front' \in Seq(MessageSet)
    BY <1>0, <1>1, MessagesStay DEF StateTyped
  <1>3. \A j \in 1..0 : ~At(j, "statistics") /\ ~At(j, "loaded")
    OBVIOUS
  <1>4. UpdatesInOrder'
    <2>1. \A i \in Nat : At(i, "init")' => i = 1 /\ ~initialized'
      BY <1>0, <1>1 DEF UpdatesInOrder, At
    <2> QED BY <1>0, <1>1, <1>2, <2>1, UpdatesAsked
  <1>5. ExitInOrder'
    <2>1. \A i \in Nat : TaskAt(i, "finalize")' => TaskAt(i + 0, "finalize")
      BY <1>0, <1>1, OnlyUpdateAsked
    <2>2. \A i \in Nat : At(i, "exiting")' => At(i + 0, "exiting")
      BY <1>2 DEF MessagesShift
    <2>3. exit_requested => due \cap unread' = {}
      BY <1>0, <1>1 DEF ExitInOrder
    <2> QED BY <1>0, <1>1, <2>1, <2>2, <2>3, ExitShift
  <1> QED BY <1>1, <1>2, <1>3, <1>4, <1>5, AskStep

LEMMA InitStep == ASSUME IInv, OnInit PROVE IInv'
  <1>0. StateTyped /\ ExitInOrder /\ UpdatesInOrder
    BY DEF IInv
  <1>1. /\ Message("init") /\ front # "closed"
        /\ Send(<<[kind |-> "update", token |-> token]>>, FALSE) /\ token' = token + 1 /\ initialized'
        /\ update_request' = token /\ final_request' = final_request
        /\ UNCHANGED <<made, open, buffered, unread, analyzed, reported, connection, exit_requested, owner, due,
                       remaining, enable, finalized, statistics, mappings, metadata, requests>>
    BY DEF OnInit, Message, collectorVars, workerVars, finalVars, dataVars
  <1>2. MessagesShift(1) /\ to_front' \in Seq(MessageSet) /\ At(1, "init")
    BY <1>0, <1>1, MessageTaken
  <1>3. \A j \in 1..1 : ~At(j, "statistics") /\ ~At(j, "loaded")
    BY <1>2 DEF At
  <1>4. update_request = 0
    BY <1>0, <1>2 DEF UpdatesInOrder
  <1>5. UpdatesInOrder'
    <2>1. \A i \in Nat : ~At(i, "init")'
      <3> SUFFICES ASSUME NEW i \in Nat, At(i, "init")' PROVE FALSE
        OBVIOUS
      <3>1. i # 0 /\ i + 1 \in Nat /\ i + 1 # 1 /\ At(i + 1, "init")
        BY <1>2 DEF MessagesShift
      <3> QED BY <1>0, <3>1 DEF UpdatesInOrder
    <2> QED BY <1>0, <1>1, <1>2, <1>4, <2>1, UpdatesAsked
  <1>6. ExitInOrder'
    <2>1. \A i \in Nat : TaskAt(i, "finalize")' => TaskAt(i + 0, "finalize")
      BY <1>0, <1>1, OnlyUpdateAsked
    <2>2. \A i \in Nat : At(i, "exiting")' => At(i + 1, "exiting")
      BY <1>2 DEF MessagesShift
    <2>3. exit_requested => due \cap unread' = {}
      BY <1>0, <1>1 DEF ExitInOrder
    <2> QED BY <1>0, <1>1, <2>1, <2>2, <2>3, ExitShift
  <1> QED BY <1>1, <1>2, <1>3, <1>4, <1>5, <1>6, AskStep

LEMMA ExitingStep == ASSUME IInv, OnExiting PROVE IInv'
  <1>0. StateTyped /\ ExitInOrder /\ UpdatesInOrder
    BY DEF IInv
  <1>1. /\ Message("exiting") /\ front # "closed"
        /\ Send(<<[kind |-> "update", token |-> token]>>, FALSE) /\ token' = token + 1
        /\ update_request' = update_request /\ final_request' = token
        /\ UNCHANGED <<made, open, buffered, unread, analyzed, reported, connection, exit_requested, owner, due,
                       remaining, enable, finalized, statistics, mappings, metadata, requests, initialized>>
    BY DEF OnExiting, Message, collectorVars, workerVars, dataVars
  <1>2. MessagesShift(1) /\ to_front' \in Seq(MessageSet) /\ At(1, "exiting")
    BY <1>0, <1>1, MessageTaken
  <1>3. \A j \in 1..1 : ~At(j, "statistics") /\ ~At(j, "loaded")
    BY <1>2 DEF At
  <1>4. final_request = 0
    BY <1>0, <1>2 DEF ExitInOrder
  <1>5. UpdatesInOrder'
    <2>1. \A i \in Nat : ~At(i, "init")'
      <3> SUFFICES ASSUME NEW i \in Nat, At(i, "init")' PROVE FALSE
        OBVIOUS
      <3>1. i # 0 /\ i + 1 \in Nat /\ i + 1 # 1 /\ At(i + 1, "init")
        BY <1>2 DEF MessagesShift
      <3> QED BY <1>0, <3>1 DEF UpdatesInOrder
    <2>2. ~initialized' => update_request' = 0
      BY <1>0, <1>1 DEF UpdatesInOrder
    <2> QED BY <1>0, <1>1, <1>2, <1>4, <2>1, <2>2, UpdatesAsked
  <1>6. ExitInOrder'
    BY <1>0, ExitExiting
  <1> QED BY <1>1, <1>2, <1>3, <1>4, <1>5, <1>6, AskStep


\* The calls of the first message are of mapped modules.
LEMMA FirstMapped == ASSUME Mapped, front # "closed", At(1, "statistics") PROVE
    \A c \in statistics \cup to_front[1].calls : c[1] \in mappings
  <1>1. ASSUME NEW c \in to_front[1].calls PROVE c[1] \in mappings
    <2>1. c[1] \in mappings \/ \E j \in Nat : j < 1 /\ At(j, "loaded") /\ c[1] \in to_front[j].modules
      BY DEF Mapped
    <2>2. \A j \in Nat : j < 1 => ~At(j, "loaded")
      BY DEF At
    <2> QED BY <2>1, <2>2
  <1> QED BY <1>1 DEF Mapped

\* The answer to an update of the UI.
LEMMA PolledStep == ASSUME IInv, OnPolled PROVE IInv'
  <1>0. StateTyped /\ CallsTyped /\ Started /\ ExitInOrder /\ UpdatesInOrder /\ HeldApart /\ SentApart /\ Kept /\ Mapped
        /\ FinalLast /\ AwaitsAfter /\ RequestsNeeded /\ AwaitsAll /\ FinalizationSound
    BY DEF IInv
  <1>1. /\ Message("statistics") /\ front # "closed" /\ update_request' = 0
        /\ statistics' = statistics \cup Head(to_front).calls
        /\ UNCHANGED <<made, open, buffered, unread, analyzed, reported, tasks, connection, exit_requested, owner, due, front, initialized,
                       token, final_request, remaining, enable, finalized, mappings, metadata, requests>>
    BY DEF OnPolled, Message, collectorVars, workerVars, finalVars
  <1>2. /\ MessagesShift(1) /\ to_front' \in Seq(MessageSet) /\ At(1, "statistics")
        /\ statistics' = statistics \cup to_front[1].calls
    BY <1>0, <1>1, MessageTaken
  <1>3. ReportsShift(1) /\ TasksShift(0) /\ ~At(1, "loaded")
    BY <1>1, <1>2, ReportsAmongMessages, TasksStay DEF At
  <1>4. StateTyped'
    <2>1. 0 \in 0..(token - 1)
      BY <1>0 DEF StateTyped, Tokens
    <2> QED BY <1>0, <1>1, <1>2, <2>1 DEF StateTyped
  <1>5. connection # "none"
    BY <1>0, <1>1, Connected
  <1>6. Started'
    BY <1>1, <1>5 DEF Started
  <1>7. UpdatesInOrder'
    BY <1>0, UpdatesPolled
  <1>8. ExitInOrder'
    <2>1. \A i \in Nat : TaskAt(i, "finalize")' => TaskAt(i + 0, "finalize")
      BY <1>3 DEF TasksShift
    <2>2. \A i \in Nat : At(i, "exiting")' => At(i + 1, "exiting")
      BY <1>2 DEF MessagesShift
    <2>3. exit_requested => due \cap unread' = {}
      BY <1>0, <1>1 DEF ExitInOrder
    <2> QED BY <1>0, <1>1, <2>1, <2>2, <2>3, ExitShift
  <1>9. CallsTyped' /\ SentApart' /\ HeldApart' /\ Kept'
    BY <1>0, <1>1, <1>2, <1>3, CallsMerged
  <1>10. Mapped'
    <2>1. \A c \in statistics' : c[1] \in mappings'
      BY <1>0, <1>1, <1>2, FirstMapped
    <2>2. \A j \in 1..1 : ~At(j, "loaded")
      BY <1>3
    <2> QED BY <1>0, <1>1, <1>3, <2>1, <2>2, MappedShift
  <1>11. FinalLast'
    BY <1>0, <1>1, <1>3, FinalLastShift
  <1>12. AwaitsAll' /\ FinalizationSound' /\ (NotAwaited => NotAwaited')
    BY <1>0, <1>1, RequestsKept
  <1>13. AwaitsAfter'
    <2>1. final_request = 0 => ~finalized'
      BY <1>0, <1>1 DEF AwaitsAfter
    <2>2. \A i \in Nat : TaskAt(i, "update")' /\ tasks'[i].token = final_request =>
               \E j \in Nat : TaskAt(j, "update") /\ tasks[j].token = final_request
      BY <1>3, AwaitsTasks
    <2>3. \A i \in Nat : At(i, "statistics")' /\ to_front'[i].token = final_request =>
               \E j \in Nat : At(j, "statistics") /\ to_front[j].token = final_request
      BY <1>3, AwaitsReports
    <2> QED BY <1>0, <1>1, <1>12, <2>1, <2>2, <2>3, AwaitsShift
  <1>14. RequestsNeeded'
    BY <1>0, <1>1 DEF RequestsNeeded
  <1> QED BY <1>4, <1>6, <1>7, <1>8, <1>9, <1>10, <1>11, <1>12, <1>13, <1>14 DEF IInv

\* The answer to the update of finalize.
LEMMA FinalStep == ASSUME IInv, OnFinal PROVE IInv'
  <1>0. StateTyped /\ CallsTyped /\ Started /\ ExitInOrder /\ UpdatesInOrder /\ HeldApart /\ SentApart /\ Kept /\ Mapped
        /\ FinalLast
    BY DEF IInv
  <1>1. /\ Message("statistics") /\ front # "closed"
        /\ statistics' = statistics \cup Head(to_front).calls
        /\ UNCHANGED <<made, open, buffered, unread, analyzed, reported, connection, exit_requested, owner, due, initialized,
                       token, update_request, final_request, mappings, metadata>>
    BY DEF OnFinal, Message, collectorVars, workerVars
  <1>2. /\ MessagesShift(1) /\ to_front' \in Seq(MessageSet) /\ At(1, "statistics")
        /\ statistics' = statistics \cup to_front[1].calls
    BY <1>0, <1>1, MessageTaken
  <1>3. ReportsShift(1) /\ ~At(1, "loaded")
    BY <1>2, ReportsAmongMessages DEF At
  <1>4. /\ requests' \in [Modules -> RequestSet] /\ remaining' \in Nat
        /\ tasks' \in Seq(TaskSet) /\ TasksShift(0) /\ front' \in {"open", "closing", "closed"} /\ front' # "closed"
        /\ RequestsNeeded' /\ AwaitsAll' /\ FinalizationSound' /\ AwaitsAfter'
    BY FinalAnswered
  <1>5. StateTyped'
    BY <1>0, <1>1, <1>2, <1>4 DEF StateTyped
  <1>6. connection # "none"
    BY <1>0, <1>1, Connected
  <1>7. Started'
    BY <1>1, <1>6 DEF Started
  <1>8. UpdatesInOrder'
    BY <1>0, <1>1, <1>2, <1>4, UpdatesShift
  <1>9. ExitInOrder'
    <2>1. \A i \in Nat : TaskAt(i, "finalize")' => TaskAt(i + 0, "finalize")
      BY <1>4 DEF TasksShift
    <2>2. \A i \in Nat : At(i, "exiting")' => At(i + 1, "exiting")
      BY <1>2 DEF MessagesShift
    <2>3. exit_requested => due \cap unread' = {}
      BY <1>0, <1>1 DEF ExitInOrder
    <2> QED BY <1>0, <1>1, <2>1, <2>2, <2>3, ExitShift
  <1>10. CallsTyped' /\ SentApart' /\ HeldApart' /\ Kept'
    BY <1>0, <1>1, <1>2, <1>3, <1>6, CallsMerged
  <1>11. Mapped'
    <2>1. \A c \in statistics' : c[1] \in mappings'
      BY <1>0, <1>1, <1>2, FirstMapped
    <2>2. \A j \in 1..1 : ~At(j, "loaded")
      BY <1>3
    <2> QED BY <1>0, <1>1, <1>3, <2>1, <2>2, MappedShift
  <1>12. FinalLast'
    BY <1>0, <1>1, <1>3, FinalLastShift
  <1> QED BY <1>4, <1>5, <1>7, <1>8, <1>9, <1>10, <1>11, <1>12 DEF IInv

\* An update is answered: to the frontend, to one that is gone, or not at all.
LEMMA UpdateStep == ASSUME IInv, RequestUpdate PROVE IInv'
  <1>0. StateTyped /\ CallsTyped /\ Started /\ ExitInOrder /\ UpdatesInOrder /\ HeldApart /\ SentApart /\ Kept /\ Mapped
        /\ FinalLast /\ AwaitsAfter /\ RequestsNeeded /\ AwaitsAll /\ FinalizationSound
    BY DEF IInv
  <1>1. /\ Task("update") /\ tasks' = Tail(tasks) /\ connection # "none"
        /\ UNCHANGED <<made, open, buffered, unread, connection, exit_requested, owner, due, front, initialized, token,
                       update_request, final_request, remaining, enable, finalized, statistics, mappings, metadata, requests>>
    BY DEF RequestUpdate, Task, Working, workerVars, finalVars, dataVars
  <1>2. tasks' \in Seq(TaskSet) /\ TaskAt(1, "update") /\ Head(tasks) = tasks[1] /\ TasksShift(1)
    BY <1>0, <1>1, TaskTaken
  <1>3. tasks[1].token \in Tokens
    BY <1>0, <1>2, AtFacts
  <1>4. Started'
    BY <1>1 DEF Started
  <1>5. AwaitsAll' /\ FinalizationSound' /\ (NotAwaited => NotAwaited') /\ RequestsNeeded'
    BY <1>0, <1>1, RequestsKept DEF RequestsNeeded
  <1>6. \A i \in Nat : TaskAt(i, "finalize")' => TaskAt(i + 1, "finalize")
    BY <1>2 DEF TasksShift
  <1>7. exit_requested => due \cap unread' = {}
    BY <1>0, <1>1 DEF ExitInOrder
  <1>8. final_request = 0 => ~finalized'
    BY <1>0, <1>1 DEF AwaitsAfter
  <1>9. \A i \in Nat : TaskAt(i, "update")' /\ tasks'[i].token = final_request =>
             \E j \in Nat : TaskAt(j, "update") /\ tasks[j].token = final_request
    BY <1>2, AwaitsTasks
  <1>10. CASE session /\ front # "closed"
    <2>1. to_front' = to_front \o UpdateMessages(tasks[1].token) /\ reported' = ModulesOf(made) /\ analyzed' = {}
      BY <1>2, <1>10 DEF RequestUpdate, Deliver
    <2>2. PICK new : new = ModulesOf(made) \ reported
      OBVIOUS
    <2>3. PICK p \in Nat : Answered(p, tasks[1].token, new)
      BY <1>0, <1>3, <2>1, <2>2, AnswerAdded
    <2>4. StateTyped'
      BY <1>0, <1>1, <1>2, <2>3 DEF StateTyped, Answered
    <2>5. UpdatesInOrder'
      BY <1>0, <1>1, <1>2, <2>3, UpdatesAnswered
    <2>6. CallsTyped' /\ SentApart' /\ HeldApart' /\ Kept'
      BY <1>0, <1>1, <2>1, <2>3, CallsAnswered
    <2>7. Mapped'
      BY <1>0, <1>1, <1>10, <2>1, <2>2, <2>3, MappedAnswered
    <2>8. FinalLast'
      BY <1>0, <1>1, <2>1, <2>3, FinalLastAnswered
    <2>9. ExitInOrder'
      <3>1. \A i \in Nat : At(i, "exiting")' => At(i + 0, "exiting")
        <4>1. \A i \in Nat : i + 0 = i
          OBVIOUS
        <4> QED BY <2>3, <4>1 DEF Answered
      <3> QED BY <1>0, <1>1, <1>6, <1>7, <3>1, ExitShift
    <2>10. AwaitsAfter'
      <3>1. ASSUME NEW i \in Nat, At(i, "statistics")', to_front'[i].token = final_request
            PROVE  \/ \E j \in Nat : At(j, "statistics") /\ to_front[j].token = final_request
                   \/ \E j \in Nat : TaskAt(j, "update") /\ tasks[j].token = final_request
        <4>1. CASE i = p
          <5>1. tasks[1].token = final_request
            BY <2>3, <3>1, <4>1 DEF Answered
          <5> QED BY <1>2, <5>1
        <4>2. CASE i # p
          <5>1. At(i, "statistics") /\ to_front'[i] = to_front[i]
            BY <2>3, <3>1, <4>2 DEF Answered
          <5> QED BY <3>1, <5>1
        <4> QED BY <4>1, <4>2
      <3> QED BY <1>0, <1>1, <1>5, <1>8, <1>9, <3>1, AwaitsShift
    <2> QED BY <1>4, <1>5, <2>4, <2>5, <2>6, <2>7, <2>8, <2>9, <2>10 DEF IInv
  <1>11. CASE ~(session /\ front # "closed")
    <2>1. /\ to_front' = to_front
          /\ \/ front = "closed" /\ reported' = ModulesOf(made) /\ analyzed' = {}
             \/ reported' = reported /\ analyzed' = analyzed
      BY <1>11 DEF RequestUpdate, Deliver
    <2>2. to_front' \in Seq(MessageSet) /\ MessagesShift(0) /\ ReportsShift(0)
          /\ \A i \in Nat : At(i, "exiting")' => At(i + 0, "exiting")
      BY <1>0, <2>1, MessagesStay, NoNewMessages
    <2>3. StateTyped'
      BY <1>0, <1>1, <1>2, <2>2 DEF StateTyped
    <2>4. UpdatesInOrder'
      BY <1>0, <1>1, <1>2, <2>2, UpdatesShift
    <2>5. \A i \in Nat : \A k : At(i, k)' <=> At(i, k)
      BY <2>1 DEF At
    <2>6. CallsTyped'
      BY <1>0, <1>1, <2>1, <2>5 DEF CallsTyped
    <2>7. HeldApart' /\ Held' \subseteq Held
      BY <1>0, <1>1, <2>1 DEF HeldApart, Held
    <2>8. SentApart'
      BY <1>0, <2>1, <2>5, <2>7 DEF SentApart
    <2>9. Kept'
      <3>1. front # "closed" => Held' = Held
        BY <1>1, <2>1 DEF Held
      <3> QED BY <1>0, <1>1, <2>1, <2>5, <3>1 DEF Kept
    <2>10. Mapped'
      BY <1>0, <1>1, <2>1, <2>5 DEF Mapped
    <2>11. FinalLast'
      BY <1>0, <1>1, <2>1, <2>2, FinalLastShift
    <2>12. ExitInOrder'
      BY <1>0, <1>1, <1>6, <1>7, <2>2, ExitShift
    <2>13. AwaitsAfter'
      <3>1. \A i \in Nat : At(i, "statistics")' /\ to_front'[i].token = final_request =>
                 \E j \in Nat : At(j, "statistics") /\ to_front[j].token = final_request
        BY <2>2, AwaitsReports
      <3> QED BY <1>0, <1>1, <1>5, <1>8, <1>9, <3>1, AwaitsShift
    <2> QED BY <1>4, <1>5, <2>3, <2>4, <2>6, <2>7, <2>8, <2>9, <2>10, <2>11, <2>12, <2>13 DEF IInv
  <1> QED BY <1>10, <1>11


LEMMA Initially == ASSUME Init PROVE IInv
  <1>1. /\ made = {} /\ open = {} /\ buffered = {} /\ unread = {} /\ analyzed = {} /\ reported = {} /\ statistics = {} /\ due = {}
        /\ connection = "none" /\ front = "closed" /\ owner = "alive" /\ tasks = <<>> /\ to_front = <<>>
        /\ ~initialized /\ ~exit_requested /\ token = 1 /\ update_request = 0 /\ final_request = 0
        /\ remaining = 0 /\ ~enable /\ ~finalized /\ requests = [m \in Modules |-> Idle]
    BY DEF Init
  <1>2. Len(<<>>) = 0 /\ tasks \in Seq(TaskSet) /\ to_front \in Seq(MessageSet)
    BY <1>1, EmptySeq
  <1>3. \A i \in Nat : \A k : ~At(i, k) /\ ~TaskAt(i, k)
    <2>1. \A i \in Nat : i \notin 1..0
      OBVIOUS
    <2> QED BY <1>1, <1>2, <2>1 DEF At, TaskAt
  <1>4. Idle \in RequestSet /\ Idle.callbacks = {} /\ Idle.stage = "none" /\ Idle.token = 0
    BY DEF Idle, RequestSet
  <1>5. requests \in [Modules -> RequestSet] /\ \A m \in Modules : requests[m] = Idle
    BY <1>1, <1>4
  <1>6. StateTyped
    BY <1>1, <1>2, <1>5 DEF StateTyped, Tokens
  <1>7. CallsTyped /\ Started /\ HeldApart
    BY <1>1, <1>3, FS_EmptySet DEF CallsTyped, Started, HeldApart
  <1>8. ExitInOrder /\ UpdatesInOrder
    BY <1>1, <1>3 DEF ExitInOrder, UpdatesInOrder
  <1>9. SentApart /\ Kept /\ Mapped
    BY <1>1, <1>3 DEF SentApart, Kept, Mapped
  <1>10. NotAwaited
    BY <1>1, <1>4, <1>5 DEF NotAwaited
  <1>11. FinalLast /\ AwaitsAfter
    BY <1>1, <1>3, <1>10 DEF FinalLast, AwaitsAfter
  <1>12. RequestsNeeded /\ AwaitsAll /\ FinalizationSound
    BY <1>1, <1>4, <1>5 DEF RequestsNeeded, AwaitsAll, FinalizationSound, FinalizationComplete, RemainingIsAwaited
  <1> QED BY <1>6, <1>7, <1>8, <1>9, <1>11, <1>12 DEF IInv

LEMMA Stuttering == ASSUME IInv, UNCHANGED vars PROVE IInv'
  <1>1. UNCHANGED <<made, open, buffered, unread, analyzed, reported, tasks, connection, exit_requested, owner, due, to_front, front,
                    initialized, token, update_request, final_request, remaining, enable, finalized, statistics, mappings,
                    metadata, requests>>
    BY DEF vars, collectorVars, workerVars, finalVars, dataVars
  <1>2. StateTyped' /\ CallsTyped' /\ Started'
    BY <1>1 DEF IInv, StateTyped, CallsTyped, Started, At
  <1>3. ExitInOrder' /\ UpdatesInOrder'
    BY <1>1 DEF IInv, ExitInOrder, UpdatesInOrder, At, TaskAt
  <1>4. HeldApart' /\ SentApart' /\ Kept' /\ Mapped'
    BY <1>1 DEF IInv, HeldApart, SentApart, Kept, Mapped, Held, At
  <1>5. FinalLast' /\ AwaitsAfter' /\ RequestsNeeded' /\ AwaitsAll'
    BY <1>1 DEF IInv, FinalLast, AwaitsAfter, NotAwaited, RequestsNeeded, AwaitsAll, At, TaskAt
  <1>6. FinalizationSound'
    BY <1>1 DEF IInv, FinalizationSound, FinalizationComplete, RemainingIsAwaited
  <1> QED BY <1>2, <1>3, <1>4, <1>5, <1>6 DEF IInv

LEMMA EveryStep == ASSUME IInv, [Next]_vars PROVE IInv'
  <1>1. ASSUME NEW m \in Modules, Record(m) PROVE IInv'
    BY <1>1, RecordStep
  <1>2. CASE (\E m \in Modules : UiRequest(m) \/ UiCancel(m) \/ CacheMiss(m)) \/ UserCloses
    BY <1>2, UiStep
  <1>3. CASE (\E m \in Modules : CacheHit(m)) \/ OnMetadata
    BY <1>3, ReadyStep
  <1>4. CASE Destroy
    BY <1>4, DestroyStep
  <1>5. CASE Join
    BY <1>5, JoinStep
  <1>6. CASE StartWorker
    BY <1>6, StartStep
  <1>7. CASE Collect
    BY <1>7, CollectStep
  <1>8. CASE Finalize
    BY <1>8, FinalizeStep
  <1>9. CASE Disconnected \/ RequestModuleMetadata
    BY <1>9, TaskStep
  <1>10. CASE RequestUpdate
    BY <1>10, UpdateStep
  <1>11. CASE OnInit
    BY <1>11, InitStep
  <1>12. CASE OnExiting
    BY <1>12, ExitingStep
  <1>13. CASE OnLoaded \/ OnStaleMetadata
    BY <1>13, MessageStep
  <1>14. CASE OnPolled
    BY <1>14, PolledStep
  <1>15. CASE OnFinal
    BY <1>15, FinalStep
  <1>16. CASE Poll
    BY <1>16, PollStep
  <1>17. CASE FrontDestroyed
    BY <1>17, GoneStep
  <1>18. CASE UNCHANGED vars
    BY <1>18, Stuttering
  <1>19. ASSUME NEW calls, Publish(calls) PROVE IInv'
    BY <1>19, PublishStep
  <1> QED
    BY <1>1, <1>2, <1>3, <1>4, <1>5, <1>6, <1>7, <1>8, <1>9, <1>10, <1>11, <1>12, <1>13, <1>14, <1>15, <1>16, <1>17, <1>18, <1>19
    DEF Next, Finished

LEMMA SessionInvariance == Spec => []IInv
  <1>1. Init => IInv
    BY Initially
  <1>2. IInv /\ [Next]_vars => IInv'
    BY EveryStep
  <1> QED BY <1>1, <1>2, PTL DEF Spec

-----------------------------------------------------------------------------
(* The results.                                                            *)

LEMMA CallsFollow == ASSUME IInv PROVE CallsConserved
  <1>0. StateTyped /\ Started /\ HeldApart /\ SentApart /\ Kept
    BY DEF IInv
  <1> DEFINE sent == [i \in 1..Len(to_front) |-> IF i \in Sent THEN to_front[i].calls ELSE {}]
             held == <<open, buffered, unread, analyzed, statistics>>
             places == held \o sent
             Group == {open, buffered, unread, analyzed, statistics} \cup {sent[i] : i \in 1..Len(to_front)}
  <1>1. Len(to_front) \in Nat
    BY <1>0, LenProperties DEF StateTyped
  <1>2. held \in Seq(Group) /\ Len(held) = 5 /\ held[1] = open /\ held[2] = buffered /\ held[3] = unread
        /\ held[4] = analyzed /\ held[5] = statistics
    OBVIOUS
  <1>3. sent \in Seq(Group) /\ Len(sent) = Len(to_front)
    <2>1. sent \in [1..Len(to_front) -> Group]
      OBVIOUS
    <2>2. sent \in Seq(Group)
      BY <1>1, <2>1, SeqDef
    <2>3. DOMAIN sent = 1..Len(to_front)
      OBVIOUS
    <2> QED BY <1>1, <2>2, <2>3, LenProperties
  <1>4. /\ Len(places) = 5 + Len(to_front)
        /\ \A i \in 1..(5 + Len(to_front)) : places[i] = IF i <= 5 THEN held[i] ELSE sent[i - 5]
    BY <1>2, <1>3, ConcatProperties
  <1>5. \A i \in Nat : i \in Sent <=> At(i, "statistics")
    BY <1>1 DEF Sent, At
  <1>6. \A i \in 1..Len(to_front) : sent[i] = IF At(i, "statistics") THEN to_front[i].calls ELSE {}
    BY <1>1, <1>5
  <1> HIDE DEF sent, held, Group
  <1>7. ASSUME NEW i \in 1..Len(places), NEW j \in 1..Len(places), i < j PROVE places[i] \cap places[j] = {}
    <2>0. i \in Nat /\ j \in Nat /\ i \in 1..(5 + Len(to_front)) /\ j \in 1..(5 + Len(to_front))
      BY <1>1, <1>4
    <2>1. CASE j <= 5
      <3>1. i <= 5 /\ places[i] = held[i] /\ places[j] = held[j]
        BY <1>4, <1>7, <2>0, <2>1
      <3>2. \/ i = 1 /\ j \in {2, 3, 4, 5}
            \/ i = 2 /\ j \in {3, 4, 5}
            \/ i = 3 /\ j \in {4, 5}
            \/ i = 4 /\ j = 5
        BY <1>7, <2>0, <2>1
      <3> QED BY <1>0, <1>2, <3>1, <3>2 DEF HeldApart
    <2>2. CASE i <= 5 /\ ~(j <= 5)
      <3>1. places[i] = held[i] /\ places[j] = sent[j - 5] /\ j - 5 \in 1..Len(to_front) /\ i \in {1, 2, 3, 4, 5}
        BY <1>1, <1>4, <2>0, <2>2
      <3>2. places[i] \subseteq Held
        BY <1>2, <3>1 DEF Held
      <3>3. sent[j - 5] \cap Held = {}
        BY <1>0, <1>6, <3>1 DEF SentApart
      <3> QED BY <3>1, <3>2, <3>3
    <2>3. CASE ~(i <= 5)
      <3>1. /\ places[i] = sent[i - 5] /\ i - 5 \in 1..Len(to_front)
            /\ places[j] = sent[j - 5] /\ j - 5 \in 1..Len(to_front) /\ i - 5 # j - 5
        BY <1>1, <1>4, <1>7, <2>0, <2>3
      <3> QED BY <1>0, <1>6, <3>1 DEF SentApart
    <2> QED BY <2>1, <2>2, <2>3
  <1>8. \A i, j \in 1..Len(places) : i # j => places[i] \cap places[j] = {}
    <2> SUFFICES ASSUME NEW i \in 1..Len(places), NEW j \in 1..Len(places), i # j PROVE places[i] \cap places[j] = {}
      OBVIOUS
    <2>1. i < j \/ j < i
      BY <1>1, <1>4
    <2> QED BY <1>7, <2>1
  <1>9. ASSUME session, front = "open" PROVE made = UNION {places[i] : i \in 1..Len(places)}
    <2>1. ASSUME NEW c \in made PROVE \E i \in 1..Len(places) : c \in places[i]
      <3>1. c \in Held \/ \E i \in Nat : At(i, "statistics") /\ c \in to_front[i].calls
        BY <1>0, <1>9 DEF Kept
      <3>2. CASE c \in Held
        <4>1. \A i \in {1, 2, 3, 4, 5} : i \in 1..Len(places) /\ places[i] = held[i]
          BY <1>1, <1>4
        <4> QED BY <1>2, <3>2, <4>1 DEF Held
      <3>3. ASSUME NEW i \in Nat, At(i, "statistics"), c \in to_front[i].calls PROVE \E j \in 1..Len(places) : c \in places[j]
        <4>1. i \in 1..Len(to_front) /\ c \in sent[i]
          BY <1>6, <3>3 DEF At
        <4>2. i + 5 \in 1..Len(places) /\ places[i + 5] = sent[i]
          <5>1. i + 5 \in 1..(5 + Len(to_front)) /\ ~(i + 5 <= 5) /\ (i + 5) - 5 = i
            BY <1>1, <4>1
          <5> QED BY <1>4, <5>1
        <4> QED BY <4>1, <4>2
      <3> QED BY <3>1, <3>2, <3>3
    <2>2. ASSUME NEW i \in 1..Len(places), NEW c \in places[i] PROVE c \in made
      <3>0. i \in Nat /\ i \in 1..(5 + Len(to_front))
        BY <1>1, <1>4
      <3>1. CASE i <= 5
        <4>1. places[i] = held[i] /\ i \in {1, 2, 3, 4, 5}
          BY <1>4, <3>0, <3>1
        <4> QED BY <1>2, <2>2, <4>1 DEF IInv, CallsTyped
      <3>2. CASE ~(i <= 5)
        <4>1. places[i] = sent[i - 5] /\ i - 5 \in 1..Len(to_front) /\ i - 5 \in Nat
          BY <1>1, <1>4, <3>0, <3>2
        <4>2. At(i - 5, "statistics") /\ c \in to_front[i - 5].calls
          BY <1>6, <2>2, <4>1
        <4> QED BY <4>1, <4>2 DEF IInv, CallsTyped
      <3> QED BY <3>1, <3>2
    <2> QED BY <2>1, <2>2
  <1> QED BY <1>8, <1>9 DEF CallsConserved, sent, held

\* A call is in one place at any moment, from the buffer it was recorded in
\* to the table of the frontend, and none is lost while the session lasts:
\* for any number of modules, calls, polls and requests, whoever disconnects
\* when and whenever the process exits.
THEOREM CallsKept == Spec => []CallsConserved
  <1>1. IInv => CallsConserved
    BY CallsFollow
  <1> QED BY <1>1, SessionInvariance, PTL

\* frontend::finalize ends the session only when the frontend has every call that
\* the exiting thread had made and every call that other threads had published when
\* ~collector_app began, and the metadata of their modules; and what it counts in
\* *remaining are exactly the requests it still has under way.
THEOREM FinalizationTrue == Spec => []FinalizationSound
  <1>1. IInv => FinalizationSound
    BY DEF IInv
  <1> QED BY <1>1, SessionInvariance, PTL

=================================================================================
