----------------------------- MODULE CallsCollector -----------------------------
(***************************************************************************)
(* calls_collector: the traces of all profiled threads                     *)
(* (thread_queue_manager), the registry of threads (thread_monitor) and    *)
(* the callbacks run on a thread's exit (thread_callbacks).                *)
(*                                                                         *)
(* A profiled thread finds its trace through a TLS slot and makes it on    *)
(* its first call.  A trace is used here for what TraceChannel says of it: *)
(* a bounded channel of batches.  A native thread identifier is reused by  *)
(* the system once its thread has ended; the successive threads of one     *)
(* identifier are its lives.                                               *)
(***************************************************************************)
EXTENDS Naturals, Sequences, SequencesExt, FiniteSets

CONSTANTS Natives,     \* native thread identifiers
          Policies,    \* buffering policies, the initial one included
          Initial,     \* buffering_policy(trace_limit, 1, 1)
          BatchSize,   \* calls in a buffer
          Capacity,    \* buffers of one trace that may wait for the reader
          MaxLives,    \* bound: threads started
          MaxCalls,    \* bound: calls recorded by one thread
          MaxChanges   \* bound: changes of the policy

ASSUME InitialAssumption == Initial \in Policies
ASSUME ChannelAssumption == BatchSize \in Nat \ {0} /\ Capacity \in Nat \ {0}
ASSUME LivesAssumption == MaxLives \in Nat /\ MaxCalls \in Nat /\ MaxChanges \in Nat

None == 0

VARIABLES
    pc,          \* per native thread: "none", "running", "made", "exiting"
    life,        \* per native thread: the number of its current life
    lives,       \* lives started
    calls,       \* per life: calls recorded
    queue_tls,   \* per native thread: _queue_pointers_tls, an index into traces
    exits,       \* per native thread: the handlers of at_thread_exit
    traces,      \* every trace made: [id, policy, open, ready]
    queues,      \* _queues: indexes into traces
    policy,      \* _policy
    changes,     \* changes of the policy
    threads,     \* _threads: the thread_info of the identifiers 1, 2, ...
    alive,       \* _alive_threads: per native thread, its identifier or None
    reading,     \* read_collected: how many queues are left, with _mtx held
    batches,     \* read_collected: buffers left to take from the current queue
    accepted     \* per thread identifier: the calls accept_calls was given

threadVars == <<pc, life, lives, calls, queue_tls, exits>>
readVars == <<reading, batches, accepted>>
vars == <<threadVars, traces, queues, policy, changes, threads, alive, readVars>>

Init ==
    /\ pc = [n \in Natives |-> "none"]
    /\ life = [n \in Natives |-> 0]
    /\ lives = 0
    /\ calls = [l \in 1..MaxLives |-> 0]
    /\ queue_tls = [n \in Natives |-> None]
    /\ exits = [n \in Natives |-> <<>>]
    /\ traces = <<>>
    /\ queues = <<>>
    /\ policy = Initial
    /\ changes = 0
    /\ threads = <<>>
    /\ alive = [n \in Natives |-> None]
    /\ reading = 0
    /\ batches = 0
    /\ accepted = [i \in 1..MaxLives |-> <<>>]

-----------------------------------------------------------------------------
(* The profiled threads.                                                   *)

\* The system starts a thread and may give it an identifier used before.
Start(n) ==
    /\ pc[n] = "none"
    /\ lives < MaxLives
    /\ lives' = lives + 1
    /\ life' = [life EXCEPT ![n] = lives + 1]
    /\ pc' = [pc EXCEPT ![n] = "running"]
    /\ UNCHANGED <<calls, queue_tls, exits, traces, queues, policy, changes, threads, alive, readVars>>

\* thread_monitor::register_self, under the lock of the manager: a thread not
\* known to be alive gets a new identifier.
RegisterSelf(n) ==
    IF alive[n] # None
      THEN UNCHANGED <<threads, alive>>
      ELSE /\ threads' = Append(threads, [native |-> n, complete |-> FALSE])
           /\ alive' = [alive EXCEPT ![n] = Len(threads) + 1]

\* Mutant: no flush is asked for at the exit of the thread.
MutantNoExitFlush(n) == IF alive[n] = None THEN <<"thread_exited">> ELSE <<>>

\* What construct_queue passes to at_thread_exit: through register_self, for
\* a thread that is new, and for the trace.
ExitHandlers(n) ==
    IF alive[n] = None THEN <<"thread_exited", "flush">> ELSE <<"flush">>

\* construct_queue: the identifier and the policy are taken under the lock,
\* which is then released; the trace is made, its flush is asked for and the
\* TLS slot is set, all of it out of sight of other threads.
ConstructQueue(n) ==
    /\ pc[n] = "running"
    /\ queue_tls[n] = None
    /\ reading = 0
    /\ RegisterSelf(n)
    /\ traces' = Append(traces, [id |-> alive'[n], policy |-> policy, open |-> <<>>, ready |-> <<>>])
    /\ exits' = [exits EXCEPT ![n] = @ \o ExitHandlers(n)]
    /\ queue_tls' = [queue_tls EXCEPT ![n] = Len(traces) + 1]
    /\ pc' = [pc EXCEPT ![n] = "made"]
    /\ UNCHANGED <<life, lives, calls, queues, policy, changes, readVars>>

\* The trace joins the others, under the lock.
PushBack(n) ==
    /\ pc[n] = "made"
    /\ reading = 0
    /\ queues' = Append(queues, queue_tls[n])
    /\ pc' = [pc EXCEPT ![n] = "running"]
    /\ UNCHANGED <<life, lives, calls, queue_tls, exits, traces, policy, changes, threads, alive, readVars>>

Full(t) == Len(t.open) = BatchSize

\* The active buffer enters the ring and an empty one is started; the thread
\* waits while there is none.
Publish(t) == [t EXCEPT !.ready = Append(@, t.open), !.open = <<>>]

\* track: a call is recorded, and a buffer that is full is flushed.
Track(n) ==
    LET q == queue_tls[n]
        l == life[n]
        t == [traces[q] EXCEPT !.open = Append(@, <<l, calls[l] + 1>>)]
    IN  /\ pc[n] = "running"
        /\ q # None
        /\ calls[l] < MaxCalls
        /\ Full(t) => Len(t.ready) < Capacity
        /\ traces' = [traces EXCEPT ![q] = IF Full(t) THEN Publish(t) ELSE t]
        /\ calls' = [calls EXCEPT ![l] = @ + 1]
        /\ UNCHANGED <<pc, life, lives, queue_tls, exits, queues, policy, changes, threads, alive, readVars>>

\* calls_collector::flush, called by the thread itself, possibly with nothing
\* recorded since the last one.
Flush(n) ==
    LET q == queue_tls[n]
    IN  /\ pc[n] = "running"
        /\ q # None
        /\ Len(traces[q].ready) < Capacity
        /\ traces' = [traces EXCEPT ![q] = Publish(@)]
        /\ UNCHANGED <<threadVars, queues, policy, changes, threads, alive, readVars>>

\* A thread ends.
Exit(n) ==
    /\ pc[n] = "running"
    /\ pc' = [pc EXCEPT ![n] = "exiting"]
    /\ UNCHANGED <<life, lives, calls, queue_tls, exits, traces, queues, policy, changes, threads, alive, readVars>>

\* invoke_destructors calls the handler added last.
NextHandler(n) == Last(exits[n])

DropHandler(n) == exits' = [exits EXCEPT ![n] = Front(@)]

\* The trace's own handler: flush, which waits for an empty buffer.
ExitFlush(n) ==
    LET q == queue_tls[n]
    IN  /\ pc[n] = "exiting"
        /\ exits[n] # <<>>
        /\ NextHandler(n) = "flush"
        /\ Len(traces[q].ready) < Capacity
        /\ traces' = [traces EXCEPT ![q] = Publish(@)]
        /\ DropHandler(n)
        /\ UNCHANGED <<pc, life, lives, calls, queue_tls, queues, policy, changes, threads, alive, readVars>>

\* Mutant: the thread is reported complete but remains among the live ones.
MutantStaysAlive(n) ==
    /\ pc[n] = "exiting"
    /\ exits[n] # <<>>
    /\ NextHandler(n) = "thread_exited"
    /\ threads' = [threads EXCEPT ![alive[n]].complete = TRUE]
    /\ DropHandler(n)
    /\ UNCHANGED <<pc, life, lives, calls, queue_tls, traces, queues, policy, changes, alive, readVars>>

\* thread_monitor::thread_exited.
ThreadExited(n) ==
    /\ pc[n] = "exiting"
    /\ exits[n] # <<>>
    /\ NextHandler(n) = "thread_exited"
    /\ threads' = [threads EXCEPT ![alive[n]].complete = TRUE]
    /\ alive' = [alive EXCEPT ![n] = None]
    /\ DropHandler(n)
    /\ UNCHANGED <<pc, life, lives, calls, queue_tls, traces, queues, policy, changes, readVars>>

\* The thread and its TLS slots are gone, and the system may reuse n.
Gone(n) ==
    /\ pc[n] = "exiting"
    /\ exits[n] = <<>>
    /\ pc' = [pc EXCEPT ![n] = "none"]
    /\ queue_tls' = [queue_tls EXCEPT ![n] = None]
    /\ UNCHANGED <<life, lives, calls, exits, traces, queues, policy, changes, threads, alive, readVars>>

-----------------------------------------------------------------------------
(* The collector's own thread.                                             *)

\* set_buffering_policy, under the lock: the listed traces, then _policy.
SetBufferingPolicy ==
    /\ reading = 0
    /\ changes < MaxChanges
    /\ \E p \in Policies :
          /\ policy' = p
          /\ traces' = [i \in 1..Len(traces) |->
                          IF \E k \in 1..Len(queues) : queues[k] = i
                            THEN [traces[i] EXCEPT !.policy = p]
                            ELSE traces[i]]
    /\ changes' = changes + 1
    /\ UNCHANGED <<threadVars, queues, threads, alive, readVars>>

\* read_collected takes the lock; every queue is read in turn.
ReadCollected ==
    /\ reading = 0
    /\ reading' = Len(queues)
    /\ batches' = IF queues = <<>> THEN 0 ELSE Capacity
    /\ UNCHANGED <<threadVars, traces, queues, policy, changes, threads, alive, accepted>>

\* The queue being read: they are taken in the order of the list.
Current == queues[Len(queues) + 1 - reading]

\* A buffer of the current queue is given to accept_calls under the queue's id.
AcceptCalls ==
    LET t == traces[Current]
    IN  /\ reading > 0
        /\ batches > 0
        /\ t.ready # <<>>
        /\ traces' = [traces EXCEPT ![Current].ready = Tail(@)]
        /\ accepted' = [accepted EXCEPT ![t.id] = @ \o Head(t.ready)]
        /\ batches' = batches - 1
        /\ UNCHANGED <<threadVars, queues, policy, changes, threads, alive, reading>>

\* Mutant: the last queue is not read.
MutantNextQueue ==
    /\ reading > 0
    /\ batches = 0 \/ traces[Current].ready = <<>>
    /\ reading' = IF reading <= 2 THEN 0 ELSE reading - 1
    /\ batches' = Capacity
    /\ UNCHANGED <<threadVars, traces, queues, policy, changes, threads, alive, accepted>>

\* The current queue is empty or its share was read; after the last one the
\* lock is released.
NextQueue ==
    /\ reading > 0
    /\ batches = 0 \/ traces[Current].ready = <<>>
    /\ reading' = reading - 1
    /\ batches' = IF reading = 1 THEN 0 ELSE Capacity
    /\ UNCHANGED <<threadVars, traces, queues, policy, changes, threads, alive, accepted>>

-----------------------------------------------------------------------------

Ending(n) == ExitFlush(n) \/ ThreadExited(n) \/ Gone(n)
Reader == ReadCollected \/ AcceptCalls \/ NextQueue

Next ==
    \/ \E n \in Natives :
          \/ Start(n) \/ Track(n) \/ Flush(n) \/ Exit(n)
          \/ ConstructQueue(n) \/ PushBack(n)
          \/ ExitFlush(n) \/ ThreadExited(n) \/ Gone(n)
    \/ SetBufferingPolicy
    \/ ReadCollected \/ AcceptCalls \/ NextQueue

Spec == Init /\ [][Next]_vars

\* The collector reads every 10 ms, and the system runs every thread: one
\* that waits for the lock gets it in the end, and one that ends goes on.
Fairness ==
    /\ WF_vars(Reader)
    /\ \A n \in Natives : SF_vars(PushBack(n)) /\ WF_vars(Ending(n))

FairSpec == Spec /\ Fairness

-----------------------------------------------------------------------------
(* Properties.                                                             *)

\* Every variable keeps its type.
TypeOK ==
    /\ pc \in [Natives -> {"none", "running", "made", "exiting"}]
    /\ life \in [Natives -> 0..MaxLives]
    /\ lives \in 0..MaxLives
    /\ calls \in [1..MaxLives -> 0..MaxCalls]
    /\ queue_tls \in [Natives -> 0..Len(traces)]
    /\ \A n \in Natives : \A k \in 1..Len(exits[n]) : exits[n][k] \in {"thread_exited", "flush"}
    /\ \A i \in 1..Len(traces) :
          /\ traces[i].id \in 1..Len(threads)
          /\ traces[i].policy \in Policies
          /\ Len(traces[i].open) < BatchSize
          /\ Len(traces[i].ready) <= Capacity
    /\ \A k \in 1..Len(queues) : queues[k] \in 1..Len(traces)
    /\ policy \in Policies
    /\ alive \in [Natives -> 0..Len(threads)]
    /\ reading \in 0..Len(queues)
    /\ batches \in 0..Capacity

\* What accept_calls is given under one identifier is the beginning of what
\* one single thread recorded, in order, although native identifiers are
\* reused and traces are listed while others are read.
OneThreadPerId ==
    \A i \in 1..MaxLives :
        \A k \in 1..Len(accepted[i]) : accepted[i][k] = <<accepted[i][1][1], k>>

\* A thread that thread_monitor reports complete has nothing left in a buffer
\* that nobody will publish any more: the trace is flushed first because the
\* handlers are called in reverse order.
CompleteIsPublished ==
    \A i \in 1..Len(traces) :
        threads[traces[i].id].complete => traces[i].open = <<>>

\* The calls are attributed: to one thread each, in order, and to a thread
\* reported complete all of them.
CallsAttributed == TypeOK /\ OneThreadPerId /\ CompleteIsPublished

\* The calls of life l have all been accepted.
Collected(l) ==
    calls[l] > 0 =>
        \E i \in 1..MaxLives : Len(accepted[i]) = calls[l] /\ accepted[i][1][1] = l

\* Everything a thread recorded is collected after it has ended.
EndedThreadsCollected ==
    \A l \in 1..MaxLives :
        (l <= lives /\ \A n \in Natives : life[n] = l => pc[n] = "none") ~> Collected(l)

\* A thread that ends does end: the flush of its exit waits for the reader
\* only as long as the ring is full.
ThreadsEnd == \A n \in Natives : pc[n] = "exiting" ~> pc[n] = "none"

================================================================================
