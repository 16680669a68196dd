--------------------------- MODULE BuffersQueueProofs ---------------------------
(***************************************************************************)
(* Proofs about buffers_queue, for every buffer size, initial policy, set  *)
(* of later policies and bound: types, conservation and capacity of the    *)
(* buffers, the contiguity of the trace and the implementation of the      *)
(* channel; and, for the way the program uses the queue (all buffers       *)
(* allocated ahead, at most one change of policy), that no wakeup of a     *)
(* blocked writer is missed.                                               *)
(***************************************************************************)
EXTENDS BuffersQueue, TLAPS, SequenceTheorems

-----------------------------------------------------------------------------
(* The policy and the pool.                                                *)

\* Whatever arguments buffering_policy accepts, at least one empty buffer may
\* be kept and fewer empties than buffers are required.
THEOREM MadePolicyIsPolicy ==
    ASSUME NEW allocation \in Nat, NEW maxPct \in Nat, NEW minPct \in Nat
    PROVE  MakePolicy(allocation, maxPct, minPct) \in Policy
  <1> DEFINE n == BuffersFor(allocation)
             u == (maxPct * n) \div 100
             l == (minPct * n) \div 100
  <1>1. (allocation + BufferSize - 1) \div BufferSize \in Int
    BY BufferSizeAssumption
  <1>2. n \in Nat /\ n >= 1
    BY <1>1 DEF BuffersFor, Greatest
  <1>3. maxPct * n \in Nat /\ minPct * n \in Nat
    BY <1>2
  <1>4. u \in Nat /\ l \in Nat
    <2> HIDE DEF n
    <2> QED BY <1>3
  <1>5. Greatest(u, 1) \in Nat /\ Greatest(u, 1) >= 1
    BY <1>4 DEF Greatest
  <1>6. Least(l, n - 1) \in Nat /\ Least(l, n - 1) < n
    BY <1>2, <1>4 DEF Least
  <1>7. MakePolicy(allocation, maxPct, minPct) =
          [max_buffers |-> n, max_empty |-> Greatest(u, 1), min_empty |-> Least(l, n - 1)]
    BY DEF MakePolicy
  <1> HIDE DEF n, u, l
  <1> QED BY <1>2, <1>5, <1>6, <1>7 DEF Policy

\* adjust_empty_buffers changes the empties and the count of all buffers by
\* the same amount, and never past the limit.
LEMMA AdjustFacts ==
    ASSUME NEW p \in Policy, NEW e \in Nat, NEW a \in Nat, NEW base \in Nat, e <= a,
           NEW c \in Nat, a <= c, p.max_buffers <= c
    PROVE  LET r == AdjustEmptyBuffers(p, e, a, base)
           IN  /\ r.empty \in Nat
               /\ r.allocated \in Nat
               /\ r.allocated - r.empty = a - e
               /\ r.allocated <= c
  <1> DEFINE high == (p.max_empty + base) % SizeMod
             low  == (p.min_empty + base) % SizeMod
             kept == Trimmed(p, e, base)
             left == a - (e - kept)
             new  == Created(p, kept, left, base)
  <1>1. p.max_buffers \in Nat /\ p.max_empty \in Nat /\ p.min_empty \in Nat
    BY DEF Policy
  <1>2. high \in Nat /\ low \in Nat
    BY <1>1, SizeModAssumption
  <1>3. kept \in Nat /\ kept <= e
    BY <1>2 DEF Trimmed, Least
  <1>4. left \in Nat /\ left <= c /\ left - kept = a - e
    BY <1>3
  <1>5. new \in Nat /\ (new > 0 => left + new <= p.max_buffers)
    <2>1. new = IF left < p.max_buffers /\ kept < low
                  THEN Least(p.max_buffers - left, low - kept) ELSE 0
      BY DEF Created
    <2> HIDE DEF new, left, kept, low
    <2> QED BY <2>1, <1>1, <1>2, <1>3, <1>4 DEF Least
  <1>6. AdjustEmptyBuffers(p, e, a, base) = [empty |-> kept + new, allocated |-> left + new]
    BY DEF AdjustEmptyBuffers
  <1> HIDE DEF new, left, kept, high, low
  <1> QED BY <1>1, <1>3, <1>4, <1>5, <1>6

-----------------------------------------------------------------------------
(* The inductive invariant.                                                *)

\* A running writer has room in its active buffer.
ActiveHasRoom == HasActive => n_left >= 1

IInv ==
    /\ TypeOK
    /\ BuffersConserved
    /\ WithinCapacity
    /\ ActiveHasRoom
    /\ TraceContiguous

LEMMA ConstantFacts ==
    /\ BufferSize \in Nat /\ BufferSize >= 1
    /\ Capacity \in Nat /\ Capacity >= 1
    /\ InitialPolicy \in Policy
    /\ \A p \in Policies \cup {InitialPolicy} :
          /\ p \in Policy
          /\ p.max_buffers \in Nat
          /\ p.max_buffers <= Capacity
  BY BufferSizeAssumption, PolicyAssumption DEF Policy, Capacity

LEMMA InitIInv == Init => IInv
  <1> SUFFICES ASSUME Init PROVE IInv
    OBVIOUS
  <1> USE ConstantFacts
  <1>1. /\ empty \in Nat /\ allocated \in Nat
        /\ allocated - empty = 1 /\ allocated <= Capacity
    <2>1. LET r == AdjustEmptyBuffers(InitialPolicy, 0, 1, 0)
          IN  /\ r.empty \in Nat
              /\ r.allocated \in Nat
              /\ r.allocated - r.empty = 1 - 0
              /\ r.allocated <= Capacity
      BY AdjustFacts, 0 \in Nat, 1 \in Nat, 0 <= 1, 1 <= Capacity
    <2> QED BY <2>1 DEF Init
  <1>2. TypeOK
    <2>1. ready \in Seq(Batch)
      BY DEF Init
    <2>2. signaled \in BOOLEAN
      BY Zenon DEF Init
    <2>3. n_left \in 0..BufferSize /\ policy \in Policies \cup {InitialPolicy}
      BY DEF Init
    <2>4. /\ wpc \in {"run", "start", "wait"}
          /\ rpc \in {"idle", "loop", "give", "notify", "adjust"}
          /\ pushed \in Nat /\ budget \in Nat /\ ready_n \in Nat
          /\ read \in Nat /\ changes \in Nat
      BY DEF Init
    <2> QED BY <1>1, <2>1, <2>2, <2>3, <2>4, Zenon DEF TypeOK
  <1>3. BuffersConserved /\ WithinCapacity
    BY <1>1 DEF Init, BuffersConserved, WithinCapacity, Ones, HasActive, Holding
  <1>4. ActiveHasRoom /\ TraceContiguous
    BY DEF Init, ActiveHasRoom, TraceContiguous, HasActive, FirstOpen
  <1> QED BY <1>2, <1>3, <1>4 DEF IInv

-----------------------------------------------------------------------------
(* Preservation of the invariant, one lemma per action or kind of action.  *)

\* The first record of the active buffer has a number.
LEMMA FirstOpenNat == IInv => FirstOpen \in Nat /\ FirstOpen <= pushed
  <1> SUFFICES ASSUME IInv PROVE FirstOpen \in Nat /\ FirstOpen <= pushed
    OBVIOUS
  <1> USE ConstantFacts DEF IInv, TypeOK
  <1>1. FirstOpen \in Int /\ FirstOpen <= pushed
    BY DEF FirstOpen
  <1>2. CASE ready = <<>>
    BY <1>1, <1>2 DEF TraceContiguous
  <1>3. CASE ready # <<>>
    <2>1. ready[Len(ready)] \in Batch
      BY <1>3
    <2>2. EndOf(ready[Len(ready)]) \in Nat
      BY <2>1 DEF Batch, EndOf
    <2> QED BY <1>1, <1>3, <2>2 DEF TraceContiguous
  <1> QED BY <1>2, <1>3

\* What produce leaves behind when the active buffer ends before `upTo'.
LEMMA ProduceFacts ==
    ASSUME IInv, HasActive, NEW n \in 0..BufferSize, NEW upTo \in Nat,
           upTo - (BufferSize - n) = FirstOpen, Produce(n, upTo)
    PROVE  /\ ready' \in Seq(Batch)
           /\ Len(ready') = Len(ready) + 1
           /\ wpc' = "start"
           /\ ready'[1].first = read
           /\ EndOf(ready'[Len(ready')]) = upTo
           /\ \A i \in 1..(Len(ready') - 1) : ready'[i + 1].first = EndOf(ready'[i])
  <1> DEFINE b == [first |-> upTo - (BufferSize - n), size |-> BufferSize - n]
  <1> USE ConstantFacts DEF IInv, TypeOK
  <1>1. b \in Batch
    BY FirstOpenNat DEF Batch
  <1>2. ready' = Append(ready, b) /\ wpc' = "start"
    BY DEF Produce
  <1>3. b.first = FirstOpen /\ EndOf(b) = upTo
    BY FirstOpenNat DEF EndOf
  <1> HIDE DEF b
  <1>4. /\ ready' \in Seq(Batch)
        /\ Len(ready') = Len(ready) + 1
        /\ \A i \in 1..Len(ready) : ready'[i] = ready[i]
        /\ ready'[Len(ready) + 1] = b
    BY <1>1, <1>2
  <1>5. ready'[1].first = read
    BY <1>3, <1>4 DEF TraceContiguous
  <1>6. \A i \in 1..(Len(ready') - 1) : ready'[i + 1].first = EndOf(ready'[i])
    <2> SUFFICES ASSUME NEW i \in 1..Len(ready)
                 PROVE  ready'[i + 1].first = EndOf(ready'[i])
      BY <1>4
    <2>1. CASE i = Len(ready)
      <3>1. ready # <<>> /\ ready'[i] = ready[i] /\ ready'[i + 1] = b
        BY <1>4, <2>1
      <3> QED BY <1>3, <2>1, <3>1 DEF TraceContiguous
    <2>2. CASE i # Len(ready)
      <3>1. i \in 1..(Len(ready) - 1) /\ ready'[i] = ready[i] /\ ready'[i + 1] = ready[i + 1]
        BY <1>4, <2>2
      <3> QED BY <3>1 DEF TraceContiguous
    <2> QED BY <2>1, <2>2
  <1> QED BY <1>2, <1>3, <1>4, <1>5, <1>6

\* A call of adjust_empty_buffers keeps the difference and the limit.
LEMMA AdjustStep ==
    ASSUME IInv, NEW p \in Policies \cup {InitialPolicy}, NEW base \in Nat, Adjust(p, base)
    PROVE  /\ empty' \in Nat
           /\ allocated' \in Nat
           /\ allocated' - empty' = allocated - empty
           /\ allocated' <= Capacity
  <1>1. p \in Policy /\ p.max_buffers <= Capacity /\ Capacity \in Nat
    BY ConstantFacts
  <1>2. empty \in Nat /\ allocated \in Nat /\ allocated <= Capacity
    BY DEF IInv, TypeOK, WithinCapacity
  <1>3. Len(ready) \in Nat /\ Ones(HasActive) \in Nat /\ Ones(Holding) \in Nat
    BY DEF IInv, TypeOK, Ones
  <1>4. empty <= allocated
    BY <1>2, <1>3 DEF IInv, BuffersConserved
  <1>5. LET r == AdjustEmptyBuffers(p, empty, allocated, base)
        IN  /\ r.empty \in Nat
            /\ r.allocated \in Nat
            /\ r.allocated - r.empty = allocated - empty
            /\ r.allocated <= Capacity
    BY <1>1, <1>2, <1>4, AdjustFacts
  <1> QED BY <1>5 DEF Adjust


\* push and flush.
LEMMA ProducerStep == IInv /\ (Push \/ Flush) => IInv'
  <1> SUFFICES ASSUME IInv, Push \/ Flush PROVE IInv'
    OBVIOUS
  <1> USE ConstantFacts
  <1>1. CASE Push /\ n_left - 1 # 0
    <2>1. /\ n_left \in 2..BufferSize /\ n_left' = n_left - 1
          /\ pushed \in Nat /\ pushed' = pushed + 1 /\ wpc = "run"
      BY <1>1 DEF IInv, TypeOK, ActiveHasRoom, Push, HasActive
    <2>2. UNCHANGED <<wpc, ready, empty, allocated, policy, signaled, rpc, budget, ready_n, read, changes>>
      BY <1>1 DEF Push, poolVars, readerVars
    <2>3. TypeOK'
      BY <2>1, <2>2 DEF IInv, TypeOK
    <2>4. BuffersConserved' /\ WithinCapacity'
      BY <2>2 DEF IInv, BuffersConserved, WithinCapacity, HasActive, Holding
    <2>5. ActiveHasRoom'
      BY <2>1 DEF ActiveHasRoom
    <2>6. TraceContiguous'
      <3>1. FirstOpen' = FirstOpen
        BY <2>1, <2>2 DEF FirstOpen, HasActive
      <3> QED BY <2>2, <3>1 DEF IInv, TraceContiguous
    <2> QED BY <2>3, <2>4, <2>5, <2>6 DEF IInv
  <1>2. CASE (Push /\ n_left - 1 = 0) \/ Flush
    <2>1. /\ UNCHANGED <<empty, allocated, policy, signaled, rpc, budget, ready_n, read, changes>>
          /\ HasActive
      BY <1>2 DEF Push, Flush, poolVars, readerVars
    <2>2. pushed' \in Nat /\ n_left' \in 0..BufferSize
      BY <1>2 DEF Push, Flush, IInv, TypeOK
    <2>3. /\ ready' \in Seq(Batch)
          /\ Len(ready') = Len(ready) + 1
          /\ wpc' = "start"
          /\ ready'[1].first = read
          /\ EndOf(ready'[Len(ready')]) = pushed'
          /\ \A i \in 1..(Len(ready') - 1) : ready'[i + 1].first = EndOf(ready'[i])
      <3>1. CASE Push /\ n_left - 1 = 0
        <4>1. Produce(n_left - 1, pushed') /\ n_left - 1 \in 0..BufferSize
          BY <3>1 DEF Push, IInv, TypeOK
        <4>2. pushed' - (BufferSize - (n_left - 1)) = FirstOpen
          BY <3>1 DEF Push, IInv, TypeOK, FirstOpen
        <4> QED BY <2>1, <2>2, <4>1, <4>2, ProduceFacts
      <3>2. CASE Flush
        <4>1. Produce(n_left, pushed') /\ n_left \in 0..BufferSize
          BY <3>2 DEF Flush, IInv, TypeOK
        <4>2. pushed' - (BufferSize - n_left) = FirstOpen
          BY <3>2 DEF Flush, FirstOpen
        <4> QED BY <2>1, <2>2, <4>1, <4>2, ProduceFacts
      <3> QED BY <1>2, <3>1, <3>2
    <2>4. TypeOK'
      BY <2>1, <2>2, <2>3 DEF IInv, TypeOK
    <2>5. BuffersConserved' /\ WithinCapacity'
      BY <2>1, <2>3 DEF IInv, TypeOK, BuffersConserved, WithinCapacity, Ones, HasActive, Holding
    <2>6. ActiveHasRoom'
      BY <2>3 DEF ActiveHasRoom, HasActive
    <2>7. TraceContiguous'
      <3>1. FirstOpen' = pushed'
        BY <2>3 DEF FirstOpen, HasActive
      <3>2. ready' # <<>>
        BY <2>3 DEF IInv, TypeOK
      <3> QED BY <2>1, <2>3, <3>1, <3>2 DEF TraceContiguous
    <2> QED BY <2>4, <2>5, <2>6, <2>7 DEF IInv
  <1> QED BY <1>1, <1>2

\* The loop of flush.
LEMMA WriterStep == IInv /\ (StartBuffer \/ Wake) => IInv'
  <1> SUFFICES ASSUME IInv, StartBuffer \/ Wake PROVE IInv'
    OBVIOUS
  <1> USE ConstantFacts
  <1>1. CASE StartBuffer
    <2>1. UNCHANGED <<pushed, ready, allocated, policy, signaled, rpc, budget, ready_n, read, changes>>
      BY <1>1 DEF StartBuffer, readerVars
    <2>2. /\ wpc = "start"
          /\ \/ wpc' = "wait" /\ n_left' = n_left /\ empty' = empty
             \/ wpc' = "run" /\ n_left' = BufferSize /\ empty' = empty - 1 /\ empty # 0
      BY <1>1 DEF StartBuffer
    <2>3. TypeOK'
      BY <2>1, <2>2 DEF IInv, TypeOK
    <2>4. BuffersConserved' /\ WithinCapacity'
      <3>1. Len(ready) \in Nat /\ empty \in Nat /\ allocated \in Nat
        BY DEF IInv, TypeOK
      <3>2. CASE wpc' = "wait"
        BY <2>1, <2>2, <3>2 DEF IInv, BuffersConserved, WithinCapacity, Ones, HasActive, Holding
      <3>3. CASE wpc' = "run"
        BY <2>1, <2>2, <3>1, <3>3 DEF IInv, BuffersConserved, WithinCapacity, Ones, HasActive, Holding
      <3> QED BY <2>2, <3>2, <3>3
    <2>5. ActiveHasRoom'
      BY <2>2 DEF ActiveHasRoom, HasActive
    <2>6. TraceContiguous'
      <3>1. FirstOpen' = FirstOpen
        BY <2>1, <2>2 DEF FirstOpen, HasActive, IInv, TypeOK
      <3> QED BY <2>1, <3>1 DEF IInv, TraceContiguous
    <2> QED BY <2>3, <2>4, <2>5, <2>6 DEF IInv
  <1>2. CASE Wake
    <2>1. UNCHANGED <<pushed, n_left, ready, empty, allocated, policy, rpc, budget, ready_n, read, changes>>
      BY <1>2 DEF Wake, poolVars, readerVars
    <2>2. wpc = "wait" /\ wpc' = "start" /\ signaled' = FALSE
      BY <1>2 DEF Wake
    <2>3. TypeOK'
      BY <2>1, <2>2 DEF IInv, TypeOK
    <2>4. BuffersConserved' /\ WithinCapacity' /\ ActiveHasRoom'
      BY <2>1, <2>2 DEF IInv, BuffersConserved, WithinCapacity, ActiveHasRoom, HasActive, Holding, Ones
    <2>5. TraceContiguous'
      <3>1. FirstOpen' = FirstOpen
        BY <2>1, <2>2 DEF FirstOpen, HasActive
      <3> QED BY <2>1, <3>1 DEF IInv, TraceContiguous
    <2> QED BY <2>3, <2>4, <2>5 DEF IInv
  <1> QED BY <1>1, <1>2


\* Taking the oldest buffer out of the ring.
LEMMA ConsumeStep == IInv /\ Consume => IInv'
  <1> SUFFICES ASSUME IInv, Consume PROVE IInv'
    OBVIOUS
  <1> USE ConstantFacts
  <1>1. /\ UNCHANGED <<pushed, n_left, wpc, empty, allocated, policy, signaled, changes>>
        /\ rpc = "loop" /\ rpc' = "give" /\ ready # <<>> /\ budget > 0 /\ budget' = budget - 1
        /\ ready' = Tail(ready)
        /\ read' = EndOf(Head(ready))
        /\ ready_n' = (IF Len(ready) > ready_n THEN Len(ready) ELSE ready_n)
    BY DEF Consume, writerVars, poolVars, EndOf
  <1>2. /\ ready \in Seq(Batch) /\ Len(ready) \in Nat /\ Len(ready) >= 1
        /\ ready[1] \in Batch /\ Head(ready) = ready[1]
        /\ ready' \in Seq(Batch) /\ Len(ready') = Len(ready) - 1
        /\ \A i \in 1..(Len(ready) - 1) : ready'[i] = ready[i + 1]
    BY <1>1 DEF IInv, TypeOK
  <1>3. TypeOK'
    <2>1. read' \in Nat
      BY <1>1, <1>2 DEF EndOf, Batch
    <2>2. budget' \in Nat /\ ready_n' \in Nat
      BY <1>1, <1>2 DEF IInv, TypeOK
    <2> QED BY <1>1, <1>2, <2>1, <2>2 DEF IInv, TypeOK
  <1>4. BuffersConserved' /\ WithinCapacity'
    <2>1. empty \in Nat /\ allocated \in Nat
      BY DEF IInv, TypeOK
    <2> QED BY <1>1, <1>2, <2>1 DEF IInv, BuffersConserved, WithinCapacity, Ones, HasActive, Holding
  <1>5. ActiveHasRoom'
    BY <1>1 DEF IInv, ActiveHasRoom, HasActive
  <1>6. TraceContiguous'
    <2>1. FirstOpen' = FirstOpen
      BY <1>1 DEF FirstOpen, HasActive
    <2>2. CASE Len(ready) = 1
      <3>1. ready' = <<>> /\ EndOf(ready[1]) = FirstOpen
        BY <1>1, <1>2, <2>2 DEF IInv, TraceContiguous
      <3>2. Len(ready') = 0
        BY <1>2, <2>2
      <3>3. read' = FirstOpen'
        BY <1>1, <1>2, <2>1, <3>1
      <3>4. \A i \in 1..(Len(ready') - 1) : ready'[i + 1].first = EndOf(ready'[i])
        BY <3>2
      <3> QED BY <3>1, <3>3, <3>4 DEF TraceContiguous
    <2>3. CASE Len(ready) # 1
      <3>1. /\ ready' # <<>>
            /\ ready'[1] = ready[2]
            /\ ready'[Len(ready')] = ready[Len(ready)]
        BY <1>2, <2>3
      <3>2. ready[2].first = EndOf(ready[1])
        BY <1>2, <2>3 DEF IInv, TraceContiguous
      <3>3. \A i \in 1..(Len(ready') - 1) : ready'[i + 1].first = EndOf(ready'[i])
        <4> SUFFICES ASSUME NEW i \in 1..(Len(ready') - 1)
                     PROVE  ready'[i + 1].first = EndOf(ready'[i])
          OBVIOUS
        <4>1. /\ i \in 1..(Len(ready) - 1) /\ i + 1 \in 1..(Len(ready) - 1)
              /\ ready'[i] = ready[i + 1] /\ ready'[i + 1] = ready[i + 1 + 1]
          BY <1>2
        <4> QED BY <4>1 DEF IInv, TraceContiguous
      <3>4. ready'[1].first = read' /\ EndOf(ready'[Len(ready')]) = FirstOpen'
        BY <1>1, <1>2, <2>1, <3>1, <3>2 DEF IInv, TraceContiguous
      <3> QED BY <3>1, <3>3, <3>4 DEF TraceContiguous
    <2> QED BY <2>2, <2>3
  <1> QED BY <1>3, <1>4, <1>5, <1>6 DEF IInv

\* The other steps of read_collected.
LEMMA ReaderStep == IInv /\ (BeginRead \/ GiveBack \/ Notify \/ EndLoop) => IInv'
  <1> SUFFICES ASSUME IInv, BeginRead \/ GiveBack \/ Notify \/ EndLoop PROVE IInv'
    OBVIOUS
  <1> USE ConstantFacts
  <1>1. UNCHANGED <<pushed, n_left, wpc, ready, allocated, policy, read, changes>>
    BY DEF BeginRead, GiveBack, Notify, EndLoop, writerVars, poolVars
  <1>2. signaled' \in BOOLEAN
    <2>1. signaled' = TRUE \/ signaled' = signaled
      BY DEF BeginRead, GiveBack, Notify, EndLoop
    <2> QED BY <2>1 DEF IInv, TypeOK
  <1>3. budget' \in Nat /\ ready_n' \in Nat
    BY DEF BeginRead, GiveBack, Notify, EndLoop, IInv, TypeOK
  <1>4. /\ rpc' \in {"loop", "give", "notify", "adjust"}
        /\ Ones(Holding') + empty' = Ones(Holding) + empty
        /\ empty' \in Nat
        /\ Ones(Holding') <= Ones(Holding)
    BY DEF BeginRead, GiveBack, Notify, EndLoop, IInv, TypeOK, Ones, Holding, poolVars
  <1>5. TypeOK'
    BY <1>1, <1>2, <1>3, <1>4 DEF IInv, TypeOK
  <1>6. BuffersConserved' /\ WithinCapacity'
    <2>1. /\ Len(ready) \in Nat /\ empty \in Nat /\ allocated \in Nat
          /\ Ones(HasActive) \in Nat /\ Ones(Holding) \in Nat /\ Ones(Holding') \in Nat
          /\ Ones(HasActive') = Ones(HasActive)
      BY <1>1 DEF IInv, TypeOK, Ones, HasActive
    <2> DEFINE a == Ones(HasActive)
               h == Ones(Holding)
               k == Ones(Holding')
    <2>2. /\ allocated = a + Len(ready) + h + empty
          /\ allocated <= Capacity /\ Len(ready) + h <= Capacity
      BY DEF IInv, BuffersConserved, WithinCapacity
    <2>3. k + empty' = h + empty /\ k <= h /\ empty' \in Nat /\ a \in Nat /\ h \in Nat /\ k \in Nat
      BY <1>4, <2>1
    <2> HIDE DEF a, h, k
    <2>4. allocated = a + Len(ready) + k + empty'
      <3> DEFINE n == Len(ready)
                 f == empty'
      <3>1. n \in Nat /\ f \in Nat
        BY <2>1, <2>3
      <3>2. allocated = a + n + h + empty
        BY <2>2
      <3>3. k + f = h + empty
        BY <2>3
      <3>4. a \in Nat /\ h \in Nat /\ k \in Nat /\ empty \in Nat
        BY <2>1, <2>3
      <3> HIDE DEF n, f
      <3>5. a + n + h + empty = a + n + k + f
        BY <3>1, <3>3, <3>4
      <3>6. allocated = a + n + k + f
        BY <3>2, <3>5
      <3> QED BY <3>6 DEF n, f
    <2>5. empty' <= allocated
      BY <2>1, <2>3, <2>4
    <2>6. empty' <= Capacity /\ Len(ready) + k <= Capacity
      BY <2>1, <2>2, <2>3, <2>5
    <2> USE DEF a, h, k
    <2> QED BY <1>1, <2>1, <2>2, <2>4, <2>6 DEF BuffersConserved, WithinCapacity
  <1>7. ActiveHasRoom' /\ TraceContiguous'
    <2>1. FirstOpen' = FirstOpen
      BY <1>1 DEF FirstOpen, HasActive
    <2> QED BY <1>1, <2>1 DEF IInv, ActiveHasRoom, TraceContiguous, HasActive
  <1> QED BY <1>5, <1>6, <1>7 DEF IInv

\* The two callers of adjust_empty_buffers.
LEMMA PoolStep ==
    ASSUME IInv, AdjustAfterRead \/ \E p \in Policies : SetBufferingPolicy(p)
    PROVE  IInv'
  <1> USE ConstantFacts
  <1>1. UNCHANGED <<pushed, n_left, wpc, ready, read>>
    BY DEF AdjustAfterRead, SetBufferingPolicy, writerVars, readerVars
  <1>2. /\ rpc \in {"idle", "adjust"} /\ rpc' = "idle"
        /\ budget' \in Nat /\ ready_n' \in Nat /\ changes' \in Nat
        /\ policy' \in Policies \cup {InitialPolicy}
    <2>1. CASE AdjustAfterRead
      BY <2>1 DEF AdjustAfterRead, IInv, TypeOK
    <2>2. CASE \E p \in Policies : SetBufferingPolicy(p)
      BY <2>2 DEF SetBufferingPolicy, readerVars, IInv, TypeOK
    <2> QED BY <2>1, <2>2
  <1>3. signaled' \in BOOLEAN
    <2>1. CASE AdjustAfterRead
      BY <2>1 DEF AdjustAfterRead, IInv, TypeOK
    <2>2. CASE \E p \in Policies : SetBufferingPolicy(p)
      BY <2>2 DEF SetBufferingPolicy, IInv, TypeOK
    <2> QED BY <2>1, <2>2
  <1>4. /\ empty' \in Nat
        /\ allocated' \in Nat
        /\ allocated' - empty' = allocated - empty
        /\ allocated' <= Capacity
    <2>1. CASE AdjustAfterRead
      <3>1. policy \in Policies \cup {InitialPolicy} /\ ready_n \in Nat
        BY DEF IInv, TypeOK
      <3>2. Adjust(policy, ready_n)
        BY <2>1 DEF AdjustAfterRead
      <3> QED BY <3>1, <3>2, AdjustStep
    <2>2. CASE \E p \in Policies : SetBufferingPolicy(p)
      <3>1. PICK p \in Policies : SetBufferingPolicy(p)
        BY <2>2
      <3> DEFINE base == (allocated - empty - 1) % SizeMod
      <3>2. base \in Nat
        BY SizeModAssumption DEF IInv, TypeOK
      <3>3. Adjust(p, base)
        BY <3>1 DEF SetBufferingPolicy
      <3> HIDE DEF base
      <3> QED BY <3>2, <3>3, AdjustStep
    <2> QED BY <2>1, <2>2
  <1>5. TypeOK'
    BY <1>1, <1>2, <1>3, <1>4 DEF IInv, TypeOK
  <1>6. BuffersConserved' /\ WithinCapacity'
    <2>1. /\ Len(ready) \in Nat /\ empty \in Nat /\ allocated \in Nat
          /\ Ones(HasActive) \in Nat /\ Ones(HasActive') = Ones(HasActive)
          /\ Ones(Holding) = 0 /\ Ones(Holding') = 0
      BY <1>1, <1>2 DEF IInv, TypeOK, Ones, HasActive, Holding
    <2>2. BuffersConserved'
      BY <1>1, <1>4, <2>1 DEF IInv, BuffersConserved
    <2>3. WithinCapacity'
      BY <1>1, <1>4, <2>1, <2>2 DEF IInv, WithinCapacity, BuffersConserved
    <2> QED BY <2>2, <2>3
  <1>7. ActiveHasRoom' /\ TraceContiguous'
    <2>1. FirstOpen' = FirstOpen
      BY <1>1 DEF FirstOpen, HasActive
    <2> QED BY <1>1, <2>1 DEF IInv, ActiveHasRoom, TraceContiguous, HasActive
  <1> QED BY <1>5, <1>6, <1>7 DEF IInv

LEMMA NextIInv == IInv /\ [Next]_vars => IInv'
  <1> SUFFICES ASSUME IInv, [Next]_vars PROVE IInv'
    OBVIOUS
  <1>1. CASE Next
    BY <1>1, ProducerStep, WriterStep, ConsumeStep, ReaderStep, PoolStep DEF Next
  <1>2. CASE UNCHANGED vars
    <2>1. UNCHANGED <<pushed, n_left, wpc, ready, empty, allocated, policy, signaled,
                      rpc, budget, ready_n, read, changes>>
      BY <1>2 DEF vars, writerVars, poolVars, readerVars
    <2>2. TypeOK' /\ ActiveHasRoom'
      BY <2>1 DEF IInv, TypeOK, ActiveHasRoom, HasActive
    <2>3. BuffersConserved' /\ WithinCapacity'
      BY <2>1 DEF IInv, BuffersConserved, WithinCapacity, HasActive, Holding
    <2>4. TraceContiguous'
      BY <2>1 DEF IInv, TraceContiguous, FirstOpen, HasActive
    <2> QED BY <2>2, <2>3, <2>4 DEF IInv
  <1> QED BY <1>1, <1>2

LEMMA Invariance == Spec => []IInv
  BY InitIInv, NextIInv, PTL DEF Spec


-----------------------------------------------------------------------------
(* The theorems.                                                           *)

\* Every variable of buffers_queue keeps its type.
THEOREM TypeCorrect == Spec => []TypeOK
  BY Invariance, PTL DEF IInv

\* _allocated_buffers counts the buffers that exist, whoever holds them.
THEOREM Conservation == Spec => []BuffersConserved
  BY Invariance, PTL DEF IInv

\* The ring and the stack of empties are never overrun, as long as no policy
\* asks for more buffers than the initial one (PolicyAssumption).
THEOREM Capacities == Spec => []WithinCapacity
  BY Invariance, PTL DEF IInv

\* The buffers are accounted for, in their number and in their places.
THEOREM Accounting == Spec => []BuffersAccounted
  BY Conservation, Capacities, PTL DEF BuffersAccounted

\* No record is lost, repeated or reordered on its way through the ring.
THEOREM Contiguity == Spec => []TraceContiguous
  BY Invariance, PTL DEF IInv


-----------------------------------------------------------------------------
(* The implementation of TraceChannel.                                     *)

\* The mapped queue: the sizes of the ready buffers.
Sizes(q) == [i \in 1..Len(q) |-> q[i].size]

LEMMA SizesFacts ==
    ASSUME NEW q \in Seq(Batch)
    PROVE  /\ Sizes(q) \in Seq(0..BufferSize)
           /\ Len(Sizes(q)) = Len(q)
           /\ \A b \in Batch : Sizes(Append(q, b)) = Append(Sizes(q), b.size)
           /\ q # <<>> => Head(Sizes(q)) = Head(q).size /\ Sizes(Tail(q)) = Tail(Sizes(q))
  <1>1. \A i \in 1..Len(q) : q[i].size \in 0..BufferSize
    <2>1. \A i \in 1..Len(q) : q[i] \in Batch
      BY ElementOfSeq
    <2> QED BY <2>1 DEF Batch
  <1>2. Sizes(q) \in Seq(0..BufferSize) /\ Len(Sizes(q)) = Len(q)
    <2>1. Len(q) \in Nat
      OBVIOUS
    <2>2. Sizes(q) \in [1..Len(q) -> 0..BufferSize]
      BY <1>1 DEF Sizes
    <2>3. Sizes(q) \in Seq(0..BufferSize)
      <3> DEFINE m == Len(q)
                 D == [1..m -> 0..BufferSize]
      <3>1. D \in {[1..n -> 0..BufferSize] : n \in Nat}
        BY <2>1
      <3>2. Sizes(q) \in UNION {[1..n -> 0..BufferSize] : n \in Nat}
        BY <2>2, <3>1, Zenon
      <3> QED BY <3>2, SeqDef, Zenon
    <2>4. DOMAIN Sizes(q) = 1..Len(q)
      BY DEF Sizes
    <2> QED BY <2>1, <2>3, <2>4, LenProperties
  <1>3. ASSUME NEW b \in Batch PROVE Sizes(Append(q, b)) = Append(Sizes(q), b.size)
    <2>1. Append(q, b) \in Seq(Batch) /\ Len(Append(q, b)) = Len(q) + 1
      OBVIOUS
    <2>2. \A i \in 1..(Len(q) + 1) : Append(q, b)[i] = IF i = Len(q) + 1 THEN b ELSE q[i]
      OBVIOUS
    <2>3. Append(Sizes(q), b.size) = [i \in 1..(Len(q) + 1) |-> IF i = Len(q) + 1 THEN b.size ELSE q[i].size]
      BY <1>2 DEF Sizes
    <2> QED BY <2>1, <2>2, <2>3 DEF Sizes
  <1>4. ASSUME q # <<>> PROVE Head(Sizes(q)) = Head(q).size /\ Sizes(Tail(q)) = Tail(Sizes(q))
    <2>1. Len(q) >= 1 /\ Head(q) = q[1] /\ Head(Sizes(q)) = Sizes(q)[1]
      BY <1>2, <1>4
    <2>2. Len(Tail(q)) = Len(q) - 1 /\ \A i \in 1..(Len(q) - 1) : Tail(q)[i] = q[i + 1]
      BY <1>4
    <2>3. Tail(Sizes(q)) = [i \in 1..(Len(q) - 1) |-> q[i + 1].size]
      BY <1>2, <2>1 DEF Sizes
    <2> QED BY <2>1, <2>2, <2>3 DEF Sizes
  <1> QED BY <1>2, <1>3, <1>4


\* Every step of the queue is a step of the channel or leaves it alone.
LEMMA ChannelStep == IInv /\ [Next]_vars => [Channel!Next]_(Channel!vars)
  <1> SUFFICES ASSUME IInv, [Next]_vars PROVE [Channel!Next]_(Channel!vars)
    OBVIOUS
  <1> DEFINE open == IF HasActive THEN BufferSize - n_left ELSE 0
             queue == Sizes(ready)
  <1> USE ConstantFacts
  <1>0. queue = [i \in 1..Len(ready) |-> ready[i].size]
    BY DEF Sizes
  <1>1. ready \in Seq(Batch) /\ n_left \in 0..BufferSize /\ pushed \in Nat /\ Len(ready) \in Nat
    BY DEF IInv, TypeOK
  <1>2. CASE Push /\ n_left - 1 # 0
    <2>1. /\ pushed' = pushed + 1 /\ n_left' = n_left - 1 /\ wpc = "run" /\ n_left >= 1
          /\ UNCHANGED <<wpc, ready, read>>
      BY <1>2 DEF Push, readerVars, HasActive, IInv, ActiveHasRoom
    <2>2. open + 1 < BufferSize /\ open' = open + 1
      BY <1>1, <1>2, <2>1 DEF HasActive
    <2>3. Channel!Write
      BY <2>1, <2>2 DEF Channel!Write
    <2> QED BY <2>3 DEF Channel!Next
  <1>3. CASE (Push /\ n_left - 1 = 0) \/ Flush
    <2>1. PICK b \in Batch :
             /\ ready' = Append(ready, b)
             /\ \/ b.size = BufferSize /\ open + 1 = BufferSize /\ pushed' = pushed + 1
                \/ b.size = open /\ pushed' = pushed
      <3> DEFINE full == [first |-> (pushed + 1) - (BufferSize - (n_left - 1)),
                          size |-> BufferSize - (n_left - 1)]
                 part == [first |-> pushed - (BufferSize - n_left), size |-> BufferSize - n_left]
      <3>1. CASE Push /\ n_left - 1 = 0
        <4>1. full \in Batch /\ full.size = BufferSize
          <5>1. (pushed + 1) - (BufferSize - (n_left - 1)) = FirstOpen
            BY <1>1, <3>1 DEF Push, FirstOpen
          <5> QED BY <1>1, <3>1, <5>1, FirstOpenNat DEF Batch
        <4>2. ready' = Append(ready, full)
          <5>1. Produce(n_left - 1, pushed + 1)
            BY <3>1 DEF Push
          <5> QED BY <5>1 DEF Produce
        <4>3. open + 1 = BufferSize /\ pushed' = pushed + 1
          <5>1. HasActive /\ n_left = 1 /\ pushed' = pushed + 1
            BY <1>1, <3>1 DEF Push
          <5> QED BY <5>1
        <4> HIDE DEF full, open
        <4> QED BY <4>1, <4>2, <4>3
      <3>2. CASE Flush
        <4>1. part \in Batch /\ part.size = open
          <5>1. pushed - (BufferSize - n_left) = FirstOpen
            BY <1>1, <3>2 DEF Flush, FirstOpen
          <5> QED BY <5>1, <1>1, <3>2, FirstOpenNat DEF Batch, Flush
        <4>2. ready' = Append(ready, part) /\ pushed' = pushed
          BY <3>2 DEF Flush, Produce
        <4> HIDE DEF part, open
        <4> QED BY <4>1, <4>2
      <3> QED BY <1>3, <3>1, <3>2
    <2>2. HasActive /\ wpc' = "start" /\ read' = read
      BY <1>3 DEF Push, Flush, Produce, readerVars
    <2>3. open' = 0
      BY <2>2 DEF HasActive
    <2>4. queue' = Append(queue, b.size) /\ Len(queue) < Capacity
      <3>1. Len(ready) < Capacity
        BY <1>1, <2>2 DEF IInv, TypeOK, BuffersConserved, WithinCapacity, Ones, Holding
      <3> QED BY <1>1, <2>1, <3>1, SizesFacts
    <2>5. queue' = [i \in 1..Len(ready') |-> ready'[i].size]
      BY DEF Sizes
    <2> HIDE DEF open, queue
    <2>6. CASE b.size = BufferSize /\ open + 1 = BufferSize /\ pushed' = pushed + 1
      BY <1>0, <2>2, <2>3, <2>4, <2>5, <2>6 DEF open, Channel!Write, Channel!Next
    <2>7. CASE b.size = open /\ pushed' = pushed
      BY <1>0, <2>2, <2>3, <2>4, <2>5, <2>7 DEF open, Channel!Publish, Channel!Next
    <2> QED BY <2>1, <2>6, <2>7
  <1>4. CASE Consume
    <2>1. /\ UNCHANGED <<pushed, n_left, wpc>> /\ ready # <<>>
          /\ ready' = Tail(ready) /\ read' = Head(ready).first + Head(ready).size
      BY <1>4 DEF Consume, writerVars
    <2>2. Head(ready) = ready[1] /\ ready[1].first = read
      BY <1>1, <2>1 DEF IInv, TraceContiguous
    <2>3. queue' = Tail(queue) /\ Head(queue) = Head(ready).size /\ queue # <<>>
      BY <1>1, <2>1, SizesFacts
    <2>4. queue' = [i \in 1..Len(ready') |-> ready'[i].size]
      BY DEF Sizes
    <2>5. read' = read + Head(queue) /\ open' = open
      BY <2>1, <2>2, <2>3 DEF HasActive
    <2> HIDE DEF open, queue
    <2> QED BY <1>0, <2>1, <2>3, <2>4, <2>5 DEF open, Channel!Deliver, Channel!Next
  <1>5. ASSUME UNCHANGED <<pushed, ready, read>>,
               \/ UNCHANGED <<n_left, wpc>>
               \/ /\ ~ HasActive
                  /\ wpc' = "run" => n_left' = BufferSize
        PROVE  UNCHANGED Channel!vars
    <2>1. open' = open
      BY <1>1, <1>5 DEF HasActive
    <2> QED BY <1>5, <2>1 DEF Channel!vars
  <1>6. CASE StartBuffer \/ Wake
    BY <1>5, <1>6 DEF StartBuffer, Wake, readerVars, HasActive
  <1>7. CASE BeginRead \/ GiveBack \/ Notify \/ EndLoop \/ AdjustAfterRead
    BY <1>5, <1>7 DEF BeginRead, GiveBack, Notify, EndLoop, AdjustAfterRead, writerVars
  <1>8. CASE \E p \in Policies : SetBufferingPolicy(p)
    BY <1>5, <1>8 DEF SetBufferingPolicy, writerVars, readerVars
  <1>9. CASE UNCHANGED vars
    BY <1>5, <1>9 DEF vars, writerVars, readerVars
  <1> QED BY <1>2, <1>3, <1>4, <1>6, <1>7, <1>8, <1>9 DEF Next

\* The queue implements the bounded FIFO channel of batches.
THEOREM Implementation == Spec => ImplementsChannel
  <1>1. Init => Channel!Init
    <2> SUFFICES ASSUME Init PROVE Channel!Init
      OBVIOUS
    <2>1. pushed = 0 /\ read = 0 /\ ready = <<>> /\ wpc = "run" /\ n_left = BufferSize
      BY DEF Init
    <2>2. [i \in 1..Len(ready) |-> ready[i].size] = <<>>
      BY <2>1
    <2> QED BY <2>1, <2>2, ConstantFacts DEF Channel!Init, HasActive
  <1> QED BY <1>1, Invariance, ChannelStep, PTL DEF Spec, ImplementsChannel, Channel!Spec


-----------------------------------------------------------------------------
(* Wakeups, for the way the program uses the queue.                        *)

\* calls_collector makes every queue with all buffers allocated ahead ...
AllAhead ==
    /\ InitialPolicy.max_empty = Capacity
    /\ InitialPolicy.min_empty = Capacity - 1
    /\ 2 * Capacity < SizeMod

\* ... and calibration, the only caller, changes the policy once.
UsedAsByCollector ==
    \/ MaxPolicyChanges = 0
    \/ MaxPolicyChanges = 1 /\ AllAhead

\* Until the policy is changed such a queue neither makes nor frees a buffer.
FullUntilChanged ==
    AllAhead /\ changes = 0 => allocated = Capacity /\ policy = InitialPolicy

WInv ==
    /\ NoMissedWakeup
    /\ ready_n <= Capacity
    /\ FullUntilChanged

LEMMA InitWInv == Init => WInv
  <1> SUFFICES ASSUME Init PROVE WInv
    OBVIOUS
  <1> USE ConstantFacts
  <1>1. NoMissedWakeup /\ ready_n <= Capacity /\ policy = InitialPolicy
    BY DEF Init, NoMissedWakeup
  <1>2. ASSUME AllAhead PROVE allocated = Capacity
    <2> DEFINE low == (InitialPolicy.min_empty + 0) % SizeMod
               high == (InitialPolicy.max_empty + 0) % SizeMod
    <2>1. low = Capacity - 1 /\ high = Capacity
      BY <1>2, SizeModAssumption DEF AllAhead
    <2>2. Trimmed(InitialPolicy, 0, 0) = 0
      BY <2>1 DEF Trimmed, Least
    <2>3. Created(InitialPolicy, 0, 1, 0) = Capacity - 1
      BY <2>1 DEF Created, Least, Capacity
    <2>4. AdjustEmptyBuffers(InitialPolicy, 0, 1, 0).allocated = Capacity
      BY <2>2, <2>3 DEF AdjustEmptyBuffers
    <2> QED BY <2>4 DEF Init
  <1> QED BY <1>1, <1>2 DEF WInv, FullUntilChanged


\* adjust_empty_buffers adds nothing to a fully allocated queue.
LEMMA FullAdjust ==
    ASSUME NEW p \in Policies \cup {InitialPolicy}, NEW e \in Nat, e <= Capacity, NEW base \in Nat
    PROVE  LET r == AdjustEmptyBuffers(p, e, Capacity, base)
           IN  /\ e = 0 => r.empty = 0
               /\ e <= (p.max_empty + base) % SizeMod => r.allocated = Capacity
  <1> USE ConstantFacts
  <1> DEFINE high == (p.max_empty + base) % SizeMod
             kept == Trimmed(p, e, base)
             left == Capacity - (e - kept)
             new  == Created(p, kept, left, base)
  <1>1. high \in Nat
    BY SizeModAssumption DEF Policy
  <1>2. kept \in Nat /\ kept <= e /\ (e <= high => kept = e)
    BY <1>1 DEF Trimmed, Least
  <1>3. left \in Nat /\ (kept = e => left = Capacity)
    BY <1>2
  <1>4. left = Capacity => new = 0
    <2>1. left = Capacity => ~(left < p.max_buffers)
      <3> HIDE DEF left
      <3> QED OBVIOUS
    <2> QED BY <2>1 DEF Created
  <1>5. AdjustEmptyBuffers(p, e, Capacity, base) = [empty |-> kept + new, allocated |-> left + new]
    BY DEF AdjustEmptyBuffers
  <1> HIDE DEF new, left, kept, high
  <1>6. ASSUME kept = e PROVE kept + new = e /\ left + new = Capacity
    BY <1>2, <1>3, <1>4, <1>6
  <1>7. /\ e = 0 => kept + new = 0
        /\ e <= high => left + new = Capacity
    BY <1>2, <1>6
  <1> QED BY <1>5, <1>7 DEF high

LEMMA NextWInv ==
    ASSUME UsedAsByCollector, IInv, WInv, [Next]_vars
    PROVE  WInv'
  <1> USE ConstantFacts
  <1>1. /\ empty \in Nat /\ allocated \in Nat /\ ready_n \in Nat /\ changes \in Nat
        /\ empty <= Capacity /\ Len(ready) \in Nat /\ Len(ready) <= Capacity
        /\ policy \in Policies \cup {InitialPolicy} /\ signaled \in BOOLEAN
    <2>1. Ones(Holding) \in Nat
      BY DEF Ones
    <2> QED BY <2>1 DEF IInv, TypeOK, WithinCapacity
  <1>2. CASE Push \/ Flush
    <2>1. wpc' # "wait" /\ UNCHANGED <<ready_n, allocated, policy, changes>>
      BY <1>2 DEF Push, Flush, Produce, HasActive, poolVars, readerVars
    <2> QED BY <2>1 DEF WInv, NoMissedWakeup, FullUntilChanged
  <1>3. CASE StartBuffer \/ Wake
    <2>1. /\ wpc' = "wait" => empty' = 0
          /\ UNCHANGED <<ready_n, allocated, policy, changes>>
      BY <1>3 DEF StartBuffer, Wake, poolVars, readerVars
    <2> QED BY <2>1 DEF WInv, NoMissedWakeup, FullUntilChanged
  <1>4. CASE BeginRead \/ Consume \/ EndLoop
    <2>1. /\ rpc # "notify" /\ ready_n' <= Capacity
          /\ UNCHANGED <<wpc, empty, allocated, policy, changes, signaled>>
      BY <1>1, <1>4 DEF BeginRead, Consume, EndLoop, poolVars, writerVars, WInv
    <2> QED BY <2>1 DEF WInv, NoMissedWakeup, FullUntilChanged
  <1>5. CASE GiveBack
    <2>1. /\ rpc = "give" /\ (empty = 0 => rpc' = "notify")
          /\ UNCHANGED <<wpc, ready_n, allocated, policy, changes, signaled>>
      BY <1>5 DEF GiveBack, writerVars
    <2>2. empty = 0 \/ empty > 0
      BY <1>1
    <2> QED BY <2>1, <2>2 DEF WInv, NoMissedWakeup, FullUntilChanged
  <1>6. CASE Notify
    <2>1. signaled' /\ UNCHANGED <<ready_n, allocated, policy, changes>>
      BY <1>6 DEF Notify, poolVars
    <2> QED BY <2>1 DEF WInv, NoMissedWakeup, FullUntilChanged
  <1>7. CASE AdjustAfterRead
    <2>1. /\ rpc = "adjust" /\ signaled' = (IF empty = 0 THEN TRUE ELSE signaled)
          /\ ready_n' = 0 /\ UNCHANGED <<wpc, policy, changes>> /\ Adjust(policy, ready_n)
      BY <1>7 DEF AdjustAfterRead, writerVars
    <2>2. NoMissedWakeup'
      <3>1. empty = 0 \/ empty > 0
        BY <1>1
      <3>2. wpc' = "wait" => signaled \/ empty = 0
        BY <2>1, <3>1 DEF WInv, NoMissedWakeup
      <3>3. wpc' = "wait" => signaled'
        <4>1. CASE empty = 0
          BY <2>1, <4>1
        <4>2. CASE empty # 0
          <5>1. signaled' = signaled
            BY <2>1, <4>2
          <5> QED BY <3>2, <4>2, <5>1
        <4> QED BY <4>1, <4>2
      <3> QED BY <3>3 DEF NoMissedWakeup
    <2>3. FullUntilChanged'
      <3> SUFFICES ASSUME AllAhead, changes = 0 PROVE allocated' = Capacity /\ policy' = InitialPolicy
        BY <2>1 DEF FullUntilChanged
      <3>1. allocated = Capacity /\ policy = InitialPolicy
        BY DEF WInv, FullUntilChanged
      <3>2. (policy.max_empty + ready_n) % SizeMod = Capacity + ready_n
        <4>1. ready_n <= Capacity /\ policy.max_empty = Capacity /\ 2 * Capacity < SizeMod
          BY <3>1 DEF AllAhead, WInv
        <4>2. Capacity + ready_n \in Nat /\ Capacity + ready_n < SizeMod
          BY <1>1, <4>1, SizeModAssumption
        <4>3. \A m \in Nat : m < SizeMod => m % SizeMod = m
          BY SizeModAssumption
        <4> QED BY <4>1, <4>2, <4>3
      <3>3. empty <= (policy.max_empty + ready_n) % SizeMod
        BY <1>1, <3>2
      <3>4. AdjustEmptyBuffers(policy, empty, Capacity, ready_n).allocated = Capacity
        BY <1>1, <3>3, FullAdjust
      <3> QED BY <2>1, <3>1, <3>4 DEF Adjust
    <2> QED BY <2>1, <2>2, <2>3 DEF WInv
  <1>8. CASE \E p \in Policies : SetBufferingPolicy(p)
    <2>1. PICK p \in Policies : SetBufferingPolicy(p)
      BY <1>8
    <2> DEFINE base == (allocated - empty - 1) % SizeMod
    <2>2. /\ rpc = "idle" /\ changes < MaxPolicyChanges /\ changes' = changes + 1
          /\ UNCHANGED <<wpc, signaled, rpc, ready_n>> /\ Adjust(p, base)
      BY <2>1 DEF SetBufferingPolicy, writerVars, readerVars
    <2>3. base \in Nat
      BY <1>1, SizeModAssumption
    <2> HIDE DEF base
    <2>4. changes = 0 /\ AllAhead
      BY <1>1, <2>2 DEF UsedAsByCollector
    <2>5. allocated = Capacity
      BY <2>4 DEF WInv, FullUntilChanged
    <2>6. empty = 0 => empty' = 0
      <3>1. empty = 0 => AdjustEmptyBuffers(p, empty, Capacity, base).empty = 0
        BY <1>1, <2>3, FullAdjust
      <3> QED BY <2>2, <2>5, <3>1 DEF Adjust
    <2>7. empty = 0 \/ empty > 0
      BY <1>1
    <2>8. NoMissedWakeup'
      BY <2>2, <2>6, <2>7 DEF WInv, NoMissedWakeup
    <2>9. FullUntilChanged'
      BY <2>2, <2>4 DEF FullUntilChanged
    <2> QED BY <2>2, <2>8, <2>9 DEF WInv
  <1>9. CASE UNCHANGED vars
    BY <1>9 DEF vars, writerVars, poolVars, readerVars, WInv, NoMissedWakeup, FullUntilChanged
  <1> QED BY <1>2, <1>3, <1>4, <1>5, <1>6, <1>7, <1>8, <1>9 DEF Next

\* A queue used as calls_collector and calibration use it never leaves a
\* writer asleep in flush with an empty buffer at hand and no signal under
\* way, whatever its size and whatever policy calibration chooses.
THEOREM NoWakeupMissed ==
    ASSUME UsedAsByCollector
    PROVE  Spec => []NoMissedWakeup
  <1>1. Init => WInv
    BY InitWInv
  <1>2. IInv /\ WInv /\ [Next]_vars => WInv'
    BY NextWInv
  <1>3. WInv => NoMissedWakeup
    BY DEF WInv
  <1> QED BY <1>1, <1>2, <1>3, Invariance, PTL DEF Spec

================================================================================
