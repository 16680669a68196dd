------------------------------ MODULE BuffersQueue ------------------------------
(***************************************************************************)
(* buffers_queue<E>: the single-producer single-consumer queue of trace    *)
(* buffers that a profiled thread fills (push, flush), the collector's     *)
(* worker drains (read_collected) and a policy setter resizes              *)
(* (set_buffering_policy).                                                 *)
(*                                                                         *)
(* A buffer is active (the writer fills it), ready (in the ring), held by  *)
(* the reader, or empty (on the stack of spare buffers).  Buffers are      *)
(* counted, not named; a ready one is the interval of record numbers it    *)
(* holds.  Each critical section of _mtx is one atomic step, and so is     *)
(* each lock-free operation of the ring; an event set after the unlock is  *)
(* a step of its own.                                                      *)
(***************************************************************************)
EXTENDS BufferingPolicy, Sequences, FiniteSets

CONSTANTS InitialPolicy,    \* the policy the queue is constructed with
          Policies,         \* the policies set_buffering_policy is called with
          SizeMod,          \* 2^w: the modulus of size_t
          MaxRecords,       \* bound: records the writer pushes
          MaxPolicyChanges  \* bound: calls of set_buffering_policy

\* The ring and the stack of empties are sized by the initial policy, so a
\* later policy may not ask for more buffers (the code does not check it).
ASSUME PolicyAssumption ==
    /\ InitialPolicy \in Policy
    /\ Policies \subseteq {p \in Policy : p.max_buffers <= InitialPolicy.max_buffers}
ASSUME SizeModAssumption == SizeMod \in Nat \ {0}
ASSUME BoundsAssumption == MaxRecords \in Nat /\ MaxPolicyChanges \in Nat

VARIABLES
    pushed,      \* records pushed so far; the next one is number `pushed'
    n_left,      \* _n_left: free entries of the active buffer
    wpc,         \* writer: "run", "start" (flush's loop head) or "wait"
    ready,       \* _ready_buffers
    empty,       \* _empty_buffers_top - _empty_buffers
    allocated,   \* _allocated_buffers
    policy,      \* _policy
    signaled,    \* _continue, an auto-reset event
    rpc,         \* reader: "idle", "loop", "give", "notify" or "adjust"
    budget,      \* read_collected: n
    ready_n,     \* read_collected: ready_n
    read,        \* the record after the last one given to the reader
    changes      \* calls of set_buffering_policy made

writerVars == <<pushed, n_left, wpc>>
poolVars == <<empty, allocated>>
readerVars == <<rpc, budget, ready_n, read>>
vars == <<writerVars, ready, poolVars, policy, signaled, readerVars, changes>>

Capacity == InitialPolicy.max_buffers

Batch == [first : Nat, size : 0..BufferSize]

HasActive == wpc = "run"
Holding == rpc = "give"

-----------------------------------------------------------------------------
(* The pool of empty buffers.                                              *)

\* adjust_empty_buffers: how many of e empties are left and how many buffers
\* are allocated, after trimming to the high and filling to the low water.
Trimmed(p, e, base) == Least(e, (p.max_empty + base) % SizeMod)

Created(p, e, a, base) ==
    LET low == (p.min_empty + base) % SizeMod
    IN  IF a < p.max_buffers /\ e < low THEN Least(p.max_buffers - a, low - e) ELSE 0

\* Mutant: trimming frees a buffer without counting it.
MutantTrimKeepsCount(p, e, a, base) ==
    LET kept == Trimmed(p, e, base)
        new  == Created(p, kept, a, base)
    IN  [empty |-> kept + new, allocated |-> a + new]

AdjustEmptyBuffers(p, e, a, base) ==
    LET kept == Trimmed(p, e, base)
        left == a - (e - kept)
        new  == Created(p, kept, left, base)
    IN  [empty |-> kept + new, allocated |-> left + new]

Adjust(p, base) ==
    LET r == AdjustEmptyBuffers(p, empty, allocated, base)
    IN  empty' = r.empty /\ allocated' = r.allocated

-----------------------------------------------------------------------------

\* The constructor: one buffer is started, then the empties are filled.
Init ==
    /\ pushed = 0
    /\ n_left = BufferSize
    /\ wpc = "run"
    /\ ready = <<>>
    /\ LET r == AdjustEmptyBuffers(InitialPolicy, 0, 1, 0)
       IN  empty = r.empty /\ allocated = r.allocated
    /\ policy = InitialPolicy
    /\ signaled = FALSE
    /\ rpc = "idle"
    /\ budget = 0
    /\ ready_n = 0
    /\ read = 0
    /\ changes = 0

-----------------------------------------------------------------------------
(* The writer.                                                             *)

\* flush, first half: the active buffer, with n entries left free, enters
\* the ring.  `upTo' is the number of the record after its last one.
Produce(n, upTo) ==
    /\ ready' = Append(ready, [first |-> upTo - (BufferSize - n), size |-> BufferSize - n])
    /\ wpc' = "start"

\* push: the entry filled through current() is accepted.
Push ==
    /\ HasActive
    /\ pushed < MaxRecords
    /\ pushed' = pushed + 1
    /\ n_left' = n_left - 1
    /\ IF n_left - 1 = 0 THEN Produce(n_left - 1, pushed + 1) ELSE UNCHANGED <<wpc, ready>>
    /\ UNCHANGED <<poolVars, policy, signaled, readerVars, changes>>

\* flush called by its owner: explicitly, or on the exit of the thread.
Flush ==
    /\ HasActive
    /\ Produce(n_left, pushed)
    /\ UNCHANGED <<pushed, n_left, poolVars, policy, signaled, readerVars, changes>>

\* flush, the loop body: take an empty buffer, or go and wait for one.
StartBuffer ==
    /\ wpc = "start"
    /\ IF empty = 0
         THEN /\ wpc' = "wait"
              /\ UNCHANGED <<n_left, empty>>
         ELSE /\ empty' = empty - 1
              /\ n_left' = BufferSize
              /\ wpc' = "run"
    /\ UNCHANGED <<pushed, ready, allocated, policy, signaled, readerVars, changes>>

\* _continue.wait() returns and resets the event.
Wake ==
    /\ wpc = "wait"
    /\ signaled
    /\ signaled' = FALSE
    /\ wpc' = "start"
    /\ UNCHANGED <<pushed, n_left, ready, poolVars, policy, readerVars, changes>>

-----------------------------------------------------------------------------
(* The reader.  thread_queue_manager calls read_collected under a lock of  *)
(* its own, the one it also sets the policy under.                         *)

\* read_collected is entered.
BeginRead ==
    /\ rpc = "idle"
    /\ budget' = policy.max_buffers
    /\ ready_n' = 0
    /\ rpc' = "loop"
    /\ UNCHANGED <<writerVars, ready, poolVars, policy, signaled, read, changes>>

\* Mutant: the youngest buffer is taken.
MutantConsumeYoungest ==
    /\ rpc = "loop"
    /\ budget > 0
    /\ ready # <<>>
    /\ budget' = budget - 1
    /\ ready_n' = IF Len(ready) > ready_n THEN Len(ready) ELSE ready_n
    /\ LET b == ready[Len(ready)] IN read' = b.first + b.size
    /\ ready' = SubSeq(ready, 1, Len(ready) - 1)
    /\ rpc' = "give"
    /\ UNCHANGED <<writerVars, poolVars, policy, signaled, changes>>

\* A buffer is taken out of the ring and its records are given to the reader.
Consume ==
    /\ rpc = "loop"
    /\ budget > 0
    /\ ready # <<>>
    /\ budget' = budget - 1
    /\ ready_n' = IF Len(ready) > ready_n THEN Len(ready) ELSE ready_n
    /\ read' = Head(ready).first + Head(ready).size
    /\ ready' = Tail(ready)
    /\ rpc' = "give"
    /\ UNCHANGED <<writerVars, poolVars, policy, signaled, changes>>

\* Mutant: nobody is told about the first empty buffer.
MutantGiveBackSilently ==
    /\ rpc = "give"
    /\ empty' = empty + 1
    /\ rpc' = "loop"
    /\ UNCHANGED <<writerVars, ready, allocated, policy, signaled, budget, ready_n, read, changes>>

\* The buffer goes to the empties; whether to notify is decided under the lock.
GiveBack ==
    /\ rpc = "give"
    /\ empty' = empty + 1
    /\ rpc' = IF empty = 0 THEN "notify" ELSE "loop"
    /\ UNCHANGED <<writerVars, ready, allocated, policy, signaled, budget, ready_n, read, changes>>

\* ... and the event is set after the unlock.
Notify ==
    /\ rpc = "notify"
    /\ signaled' = TRUE
    /\ rpc' = "loop"
    /\ UNCHANGED <<writerVars, ready, poolVars, policy, budget, ready_n, read, changes>>

\* The budget is spent or the ring is seen empty.
EndLoop ==
    /\ rpc = "loop"
    /\ budget = 0 \/ ready = <<>>
    /\ rpc' = "adjust"
    /\ UNCHANGED <<writerVars, ready, poolVars, policy, signaled, budget, ready_n, read, changes>>

\* Mutant: buffers made after reading are not announced.
MutantAdjustSilently ==
    /\ rpc = "adjust"
    /\ Adjust(policy, ready_n)
    /\ rpc' = "idle"
    /\ budget' = 0
    /\ ready_n' = 0
    /\ UNCHANGED <<writerVars, ready, policy, signaled, read, changes>>

\* The closing critical section; the event is set before the unlock.
AdjustAfterRead ==
    /\ rpc = "adjust"
    /\ Adjust(policy, ready_n)
    /\ signaled' = IF empty = 0 THEN TRUE ELSE signaled
    /\ rpc' = "idle"
    /\ budget' = 0
    /\ ready_n' = 0
    /\ UNCHANGED <<writerVars, ready, policy, read, changes>>

-----------------------------------------------------------------------------
(* The policy setter.                                                      *)

\* set_buffering_policy.  All buffers but the empties and the active one are
\* taken for ready; the difference wraps when there is no active buffer.
SetBufferingPolicy(p) ==
    /\ rpc = "idle"
    /\ changes < MaxPolicyChanges
    /\ changes' = changes + 1
    /\ Adjust(p, (allocated - empty - 1) % SizeMod)
    /\ policy' = p
    /\ UNCHANGED <<writerVars, ready, signaled, readerVars>>

-----------------------------------------------------------------------------

Reader == BeginRead \/ Consume \/ GiveBack \/ Notify \/ EndLoop \/ AdjustAfterRead

Next ==
    \/ Push
    \/ Flush
    \/ StartBuffer
    \/ Wake
    \/ BeginRead
    \/ Consume
    \/ GiveBack
    \/ Notify
    \/ EndLoop
    \/ AdjustAfterRead
    \/ \E p \in Policies : SetBufferingPolicy(p)

Spec == Init /\ [][Next]_vars

\* The collector's worker reads every 10 ms for as long as it lives, and a
\* thread inside flush keeps running; nobody is obliged to push or to flush.
Fairness == WF_vars(Reader) /\ WF_vars(StartBuffer) /\ WF_vars(Wake)

FairSpec == Spec /\ Fairness

-----------------------------------------------------------------------------
(* Properties.                                                             *)

\* Every variable keeps its type; size_t counters never go below zero.
TypeOK ==
    /\ pushed \in Nat
    /\ n_left \in 0..BufferSize
    /\ wpc \in {"run", "start", "wait"}
    /\ ready \in Seq(Batch)
    /\ empty \in Nat
    /\ allocated \in Nat
    /\ policy \in Policies \cup {InitialPolicy}
    /\ signaled \in BOOLEAN
    /\ rpc \in {"idle", "loop", "give", "notify", "adjust"}
    /\ budget \in Nat
    /\ ready_n \in Nat
    /\ read \in Nat
    /\ changes \in Nat

Ones(b) == IF b THEN 1 ELSE 0

\* _allocated_buffers always equals the buffers that exist: the active one,
\* the ready ones, the one in the reader's hands and the empty ones.  push,
\* flush, read_collected and set_buffering_policy each move buffers between
\* these places, and only adjust_empty_buffers makes or frees one.
BuffersConserved ==
    allocated = Ones(HasActive) + Len(ready) + Ones(Holding) + empty

\* Neither the stack of empties nor the ring, both sized once by the initial
\* policy, is ever overrun by flush, read_collected or adjust_empty_buffers,
\* whatever policies are set later.  The slot the reader consumes is counted
\* until the buffer is given back.
WithinCapacity ==
    /\ allocated <= Capacity
    /\ empty <= Capacity
    /\ Len(ready) + Ones(Holding) <= Capacity

\* The buffers are accounted for: the counter that set_buffering_policy and
\* read_collected compute with is that of the buffers there are, and the arrays
\* they are kept in, and with them the length of a thread's trace, are bounded
\* by what was allocated at first.
BuffersAccounted == BuffersConserved /\ WithinCapacity

EndOf(b) == b.first + b.size
FirstOpen == IF HasActive THEN pushed - (BufferSize - n_left) ELSE pushed

\* The ring holds, in order and without gap or overlap, exactly the records
\* between the last one read_collected gave out and the first one of the
\* active buffer: no record pushed is lost, repeated or reordered.
TraceContiguous ==
    /\ ready = <<>> => read = FirstOpen
    /\ ready # <<>> => ready[1].first = read /\ EndOf(ready[Len(ready)]) = FirstOpen
    /\ \A i \in 1..(Len(ready) - 1) : ready[i + 1].first = EndOf(ready[i])

\* A writer that waits in flush with empties available has been notified, or
\* the reader is about to notify it: nobody sleeps on a missed event.
NoMissedWakeup ==
    wpc = "wait" /\ empty > 0 => signaled \/ rpc = "notify"

\* Every call of flush, so also every push that fills a buffer, returns.
FlushReturns == wpc # "run" ~> wpc = "run"

Channel == INSTANCE TraceChannel
    WITH BatchSize <- BufferSize,
         written   <- pushed,
         open      <- IF HasActive THEN BufferSize - n_left ELSE 0,
         queue     <- [i \in 1..Len(ready) |-> ready[i].size],
         delivered <- read

\* The queue implements a bounded FIFO channel of batches: every step of the
\* writer, the reader and the policy setter is a step of the channel or is
\* invisible to it.
ImplementsChannel == Channel!Spec
================================================================================
