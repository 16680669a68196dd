-------------------------- MODULE CallsCollectorProofs --------------------------
(***************************************************************************)
(* Proofs about the traces of all profiled threads, for any set of native  *)
(* identifiers, any policies and buffers and any number of threads, calls  *)
(* and changes: every call is given to accept_calls under the identifier   *)
(* of its thread and in order, and the trace of a thread reported complete *)
(* has been published.                                                     *)
(***************************************************************************)
EXTENDS CallsCollector, TLAPS, SequenceTheorems, FiniteSetTheorems

Record == (1..MaxLives) \X Nat
Batch == Seq(Record)
Trace == [id : Nat, policy : Policies, open : Batch, ready : Seq(Batch)]
ThreadInfo == [native : Natives, complete : BOOLEAN]

StateTyped ==
    /\ pc \in [Natives -> {"none", "running", "made", "exiting"}]
    /\ life \in [Natives -> 0..MaxLives]
    /\ lives \in 0..MaxLives
    /\ calls \in [1..MaxLives -> 0..MaxCalls]
    /\ traces \in Seq(Trace)
    /\ threads \in Seq(ThreadInfo)
    /\ queue_tls \in [Natives -> 0..Len(traces)]
    /\ exits \in [Natives -> Seq({"thread_exited", "flush"})]
    /\ queues \in Seq(1..Len(traces))
    /\ policy \in Policies
    /\ changes \in Nat
    /\ alive \in [Natives -> 0..Len(threads)]
    /\ reading \in 0..Len(queues)
    /\ batches \in 0..Capacity
    /\ accepted \in [1..MaxLives -> Batch]
    /\ \A i \in 1..Len(traces) : Len(traces[i].open) < BatchSize /\ Len(traces[i].ready) <= Capacity

\* Threads that run and have not called an instrumented function yet.
Pending == {n \in Natives : pc[n] = "running" /\ queue_tls[n] = None}

\* The n-th trace is that of the n-th thread registered, and there are no more
\* of them than threads were started.
TracePerThread ==
    /\ Len(traces) = Len(threads)
    /\ \A i \in 1..Len(traces) : traces[i].id = i
    /\ IsFiniteSet(Pending)
    /\ Len(threads) + Cardinality(Pending) <= lives

Both == <<"thread_exited", "flush">>

\* Where a thread is with its trace and with its handlers.
HandlersInOrder == \A n \in Natives :
    /\ pc[n] # "none" => life[n] \in 1..lives
    /\ pc[n] = "none" => queue_tls[n] = None
    /\ queue_tls[n] = None => exits[n] = <<>> /\ alive[n] = None /\ pc[n] # "made"
    /\ queue_tls[n] # None /\ pc[n] # "exiting" => exits[n] = Both
    /\ queue_tls[n] # None => exits[n] \in {Both, <<"thread_exited">>, <<>>}
    /\ exits[n] # <<>> => alive[n] = queue_tls[n] /\ ~threads[queue_tls[n]].complete
    /\ exits[n] = <<>> => alive[n] = None
    /\ queue_tls[n] # None /\ exits[n] # Both => traces[queue_tls[n]].open = <<>>

\* No two threads share a trace or a life.
Apart == \A n, m \in Natives : n # m =>
    /\ queue_tls[n] # None => queue_tls[n] # queue_tls[m]
    /\ pc[n] # "none" /\ pc[m] # "none" => life[n] # life[m]

\* s holds the calls of life l that follow the first `from' ones.
Numbered(s, l, from) == \A k \in 1..Len(s) : s[k] = <<l, from + k>>

\* What was accepted of a trace, what waits in its ring and what its thread is
\* writing are consecutive; off tells how many calls lie before each buffer.
Consecutive(t, given, l, off) ==
    /\ Len(off) = Len(t.ready) + 1
    /\ off[1] = Len(given)
    /\ Numbered(given, l, 0)
    /\ \A j \in 1..Len(t.ready) : Numbered(t.ready[j], l, off[j]) /\ off[j + 1] = off[j] + Len(t.ready[j])
    /\ Numbered(t.open, l, off[Len(t.ready) + 1])

\* The c calls of life l that were given, wait or are being written.
Holds(t, given, l, c) == \E off \in Seq(Nat) :
    /\ Consecutive(t, given, l, off)
    /\ c = off[Len(t.ready) + 1] + Len(t.open)

\* Every trace holds the calls of one life; the trace of a thread that runs has
\* all of its calls.
TracesInOrder ==
    /\ \A i \in 1..Len(traces) : \E l \in 1..MaxLives, c \in Nat : Holds(traces[i], accepted[i], l, c)
    /\ \A n \in Natives : queue_tls[n] # None => Holds(traces[queue_tls[n]], accepted[queue_tls[n]], life[n], calls[life[n]])
    /\ \A n \in Natives : pc[n] # "none" /\ queue_tls[n] = None => calls[life[n]] = 0
    /\ \A l \in 1..MaxLives : l > lives => calls[l] = 0
    /\ \A i \in 1..MaxLives : i > Len(traces) => accepted[i] = <<>>

IInv == StateTyped /\ TracePerThread /\ HandlersInOrder /\ Apart /\ TracesInOrder /\ CompleteIsPublished

-----------------------------------------------------------------------------
(* What the operations of a trace do to its calls.                         *)

LEMMA TraceFacts ==
    ASSUME NEW t \in Trace
    PROVE  /\ t.open \in Batch /\ t.ready \in Seq(Batch) /\ t.id \in Nat /\ t.policy \in Policies
           /\ Len(t.open) \in Nat /\ Len(t.ready) \in Nat
           /\ \A j \in 1..Len(t.ready) : t.ready[j] \in Batch /\ Len(t.ready[j]) \in Nat
  <1>1. t.open \in Batch /\ t.ready \in Seq(Batch) /\ t.id \in Nat /\ t.policy \in Policies
    BY DEF Trace
  <1>2. \A b \in Batch : Len(b) \in Nat
    BY LenProperties DEF Batch
  <1> QED BY <1>1, <1>2, LenProperties, ElementOfSeq

LEMMA HoldsStart ==
    ASSUME NEW t \in Trace, t.open = <<>>, t.ready = <<>>, NEW l \in 1..MaxLives
    PROVE  Holds(t, <<>>, l, 0)
  <1>1. <<0>> \in Seq(Nat) /\ Len(<<0>>) = 1 /\ <<0>>[1] = 0
    OBVIOUS
  <1>2. Len(t.open) = 0 /\ Len(t.ready) = 0
    BY EmptySeq
  <1>3. Consecutive(t, <<>>, l, <<0>>)
    BY <1>1, <1>2, EmptySeq DEF Consecutive, Numbered
  <1>4. 0 = <<0>>[Len(t.ready) + 1] + Len(t.open)
    BY <1>1, <1>2
  <1> QED BY <1>1, <1>3, <1>4 DEF Holds

\* Only the buffers matter.
LEMMA HoldsSame ==
    ASSUME NEW t, NEW u, u.open = t.open, u.ready = t.ready, NEW given, NEW l, NEW c, Holds(t, given, l, c)
    PROVE  Holds(u, given, l, c)
  BY DEF Holds, Consecutive

LEMMA HoldsPublish ==
    ASSUME NEW t \in Trace, NEW u \in Trace, u.ready = Append(t.ready, t.open), u.open = <<>>,
           NEW given \in Batch, NEW l \in 1..MaxLives, NEW c \in Nat, Holds(t, given, l, c)
    PROVE  Holds(u, given, l, c)
  <1>1. PICK off \in Seq(Nat) : Consecutive(t, given, l, off) /\ c = off[Len(t.ready) + 1] + Len(t.open)
    BY DEF Holds
  <1>2. PICK r \in Nat : r = Len(t.ready)
    BY TraceFacts
  <1>3. /\ Len(off) = r + 1
        /\ off[1] = Len(given) /\ Numbered(given, l, 0)
        /\ \A j \in 1..r : Numbered(t.ready[j], l, off[j]) /\ off[j + 1] = off[j] + Len(t.ready[j])
        /\ Numbered(t.open, l, off[r + 1])
        /\ c = off[r + 1] + Len(t.open)
    BY <1>1, <1>2 DEF Consecutive
  <1>4. PICK after \in Seq(Nat) : after = Append(off, c)
    BY AppendProperties
  <1>5. /\ Len(after) = r + 2 /\ after[r + 2] = c
        /\ \A j \in 1..(r + 1) : after[j] = off[j]
    <2>1. /\ Len(after) = Len(off) + 1 /\ after[Len(off) + 1] = c
          /\ \A j \in 1..Len(off) : after[j] = off[j]
      BY <1>4, AppendProperties
    <2> QED BY <2>1, <1>3
  <1>6. /\ Len(u.ready) = r + 1 /\ u.ready[r + 1] = t.open
        /\ \A j \in 1..r : u.ready[j] = t.ready[j]
    BY <1>2, TraceFacts, AppendProperties
  <1>7. Len(u.open) = 0
    BY EmptySeq
  <1>8. ASSUME NEW j \in 1..(r + 1)
        PROVE  Numbered(u.ready[j], l, after[j]) /\ after[j + 1] = after[j] + Len(u.ready[j])
    <2>1. CASE j = r + 1
      BY <2>1, <1>3, <1>5, <1>6
    <2>2. CASE j # r + 1
      <3>1. j \in 1..r /\ j + 1 \in 1..(r + 1)
        BY <2>2
      <3> QED BY <3>1, <1>3, <1>5, <1>6
    <2> QED BY <2>1, <2>2
  <1>9. Numbered(u.open, l, after[Len(u.ready) + 1])
    BY <1>7 DEF Numbered
  <1>10. after[1] = Len(given)
    BY <1>3, <1>5
  <1>11. Len(after) = Len(u.ready) + 1 /\ after[Len(u.ready) + 1] = c
    BY <1>5, <1>6
  <1>12. Consecutive(u, given, l, after)
    BY <1>3, <1>6, <1>8, <1>9, <1>10, <1>11 DEF Consecutive
  <1> QED BY <1>7, <1>11, <1>12 DEF Holds

LEMMA HoldsRecord ==
    ASSUME NEW t \in Trace, NEW l \in 1..MaxLives, NEW c \in Nat, NEW u \in Trace,
           u.ready = t.ready, u.open = Append(t.open, <<l, c + 1>>),
           NEW given \in Batch, Holds(t, given, l, c)
    PROVE  Holds(u, given, l, c + 1)
  <1>1. PICK off \in Seq(Nat) : Consecutive(t, given, l, off) /\ c = off[Len(t.ready) + 1] + Len(t.open)
    BY DEF Holds
  <1>2. PICK d \in Nat : d = off[Len(t.ready) + 1]
    <2>1. Len(t.ready) + 1 \in 1..Len(off)
      BY <1>1, TraceFacts DEF Consecutive
    <2> QED BY <2>1, ElementOfSeq
  <1>3. <<l, c + 1>> \in Record
    BY DEF Record
  <1>4. Len(u.open) = Len(t.open) + 1 /\ u.open[Len(t.open) + 1] = <<l, c + 1>>
        /\ \A k \in 1..Len(t.open) : u.open[k] = t.open[k]
    BY <1>3, TraceFacts, AppendProperties DEF Batch
  <1>5. Len(t.open) \in Nat
    BY TraceFacts
  <1>6. Numbered(u.open, l, d)
    <2> SUFFICES ASSUME NEW k \in 1..Len(u.open) PROVE u.open[k] = <<l, d + k>>
      BY DEF Numbered
    <2>1. CASE k = Len(t.open) + 1
      <3>1. d + (Len(t.open) + 1) = c + 1
        <4>1. c = d + Len(t.open)
          BY <1>1, <1>2
        <4> QED BY <4>1, <1>5
      <3>2. u.open[k] = <<l, c + 1>> /\ d + k = c + 1
        BY <2>1, <3>1, <1>4
      <3> QED BY <3>2
    <2>2. CASE k # Len(t.open) + 1
      <3>1. k \in 1..Len(t.open)
        BY <2>2, <1>4, <1>5
      <3> QED BY <3>1, <1>1, <1>2, <1>4 DEF Consecutive, Numbered
    <2> QED BY <2>1, <2>2
  <1>7. Consecutive(u, given, l, off)
    BY <1>1, <1>2, <1>6 DEF Consecutive
  <1>8. c + 1 = off[Len(u.ready) + 1] + Len(u.open)
    <2>1. c = d + Len(t.open)
      BY <1>1, <1>2
    <2>2. c + 1 = d + (Len(t.open) + 1)
      BY <2>1, <1>5
    <2> QED BY <2>2, <1>2, <1>4
  <1> QED BY <1>7, <1>8 DEF Holds

LEMMA HoldsTake ==
    ASSUME NEW t \in Trace, NEW u \in Trace, t.ready # <<>>, u.ready = Tail(t.ready), u.open = t.open,
           NEW given \in Batch, NEW l \in 1..MaxLives, NEW c \in Nat, Holds(t, given, l, c)
    PROVE  given \o Head(t.ready) \in Batch /\ Holds(u, given \o Head(t.ready), l, c)
  <1>1. PICK off \in Seq(Nat) : Consecutive(t, given, l, off) /\ c = off[Len(t.ready) + 1] + Len(t.open)
    BY DEF Holds
  <1>2. PICK r \in Nat : r = Len(t.ready)
    BY TraceFacts
  <1>3. r >= 1 /\ Head(t.ready) = t.ready[1] /\ t.ready[1] \in Batch
    <2>1. r # 0
      BY <1>2, EmptySeq, TraceFacts
    <2>2. 1 \in 1..Len(t.ready)
      BY <1>2, <2>1
    <2> QED BY <2>1, <2>2, TraceFacts
  <1>4. /\ Len(u.ready) = r - 1
        /\ \A j \in 1..(r - 1) : u.ready[j] = t.ready[j + 1]
    BY <1>2, <1>3, TraceFacts, HeadTailProperties
  <1>5. /\ Len(off) = r + 1
        /\ off[1] = Len(given) /\ Numbered(given, l, 0)
        /\ \A j \in 1..r : Numbered(t.ready[j], l, off[j]) /\ off[j + 1] = off[j] + Len(t.ready[j])
        /\ Numbered(t.open, l, off[r + 1])
        /\ c = off[r + 1] + Len(t.open)
    BY <1>1, <1>2 DEF Consecutive
  <1>6. off # <<>>
    BY <1>5, EmptySeq
  <1>7. PICK after \in Seq(Nat) : after = Tail(off)
    BY <1>6, HeadTailProperties
  <1>8. Len(after) = r /\ \A j \in 1..r : after[j] = off[j + 1]
    BY <1>5, <1>6, <1>7, HeadTailProperties
  <1>9. PICK more \in Batch : more = given \o Head(t.ready)
    BY <1>3, ConcatProperties DEF Batch
  <1>10. /\ Len(more) = Len(given) + Len(t.ready[1]) /\ Len(given) \in Nat /\ Len(t.ready[1]) \in Nat
         /\ \A i \in 1..(Len(given) + Len(t.ready[1])) :
              more[i] = IF i <= Len(given) THEN given[i] ELSE t.ready[1][i - Len(given)]
    BY <1>3, <1>9, ConcatProperties, LenProperties DEF Batch
  <1>11. Numbered(more, l, 0)
    <2> SUFFICES ASSUME NEW k \in 1..Len(more) PROVE more[k] = <<l, 0 + k>>
      BY DEF Numbered
    <2>1. CASE k <= Len(given)
      <3>1. k \in 1..Len(given) /\ more[k] = given[k]
        BY <2>1, <1>10
      <3> QED BY <3>1, <1>5 DEF Numbered
    <2>2. CASE ~(k <= Len(given))
      <3>1. k - Len(given) \in 1..Len(t.ready[1]) /\ more[k] = t.ready[1][k - Len(given)]
        BY <2>2, <1>10
      <3>2. t.ready[1][k - Len(given)] = <<l, off[1] + (k - Len(given))>>
        <4>1. Numbered(t.ready[1], l, off[1])
          BY <1>3, <1>5
        <4> QED BY <3>1, <4>1 DEF Numbered
      <3>3. off[1] + (k - Len(given)) = 0 + k
        BY <1>5, <1>10
      <3> QED BY <3>1, <3>2, <3>3
    <2> QED BY <2>1, <2>2
  <1>12. after[1] = Len(more)
    <2>1. 1 \in 1..r /\ 1 + 1 = 2
      BY <1>3
    <2> QED BY <2>1, <1>5, <1>8, <1>10
  <1>13. ASSUME NEW j \in 1..(r - 1)
         PROVE  Numbered(u.ready[j], l, after[j]) /\ after[j + 1] = after[j] + Len(u.ready[j])
    <2>1. j \in 1..r /\ j + 1 \in 1..r
      BY <1>3
    <2> QED BY <2>1, <1>4, <1>5, <1>8
  <1>14. after[Len(u.ready) + 1] = off[r + 1] /\ Len(after) = Len(u.ready) + 1
    <2>1. Len(u.ready) + 1 = r /\ r \in 1..r
      BY <1>3, <1>4
    <2> QED BY <2>1, <1>8
  <1>15. Consecutive(u, more, l, after)
    BY <1>4, <1>5, <1>11, <1>12, <1>13, <1>14 DEF Consecutive
  <1> QED BY <1>5, <1>9, <1>14, <1>15 DEF Holds

-----------------------------------------------------------------------------
(* Facts that several steps need.                                          *)

\* The handlers of a thread, last added first.
LEMMA HandlerFacts ==
    /\ Both # <<>> /\ Both # <<"thread_exited">> /\ <<"thread_exited">> # <<>>
    /\ Last(Both) = "flush" /\ Front(Both) = <<"thread_exited">>
    /\ Last(<<"thread_exited">>) = "thread_exited" /\ Front(<<"thread_exited">>) = <<>>
    /\ Both \in Seq({"thread_exited", "flush"}) /\ <<"thread_exited">> \in Seq({"thread_exited", "flush"})
    /\ <<>> \in Seq({"thread_exited", "flush"})
  <1>1. Len(Both) = 2 /\ Len(<<"thread_exited">>) = 1 /\ Both[1] = "thread_exited" /\ Both[2] = "flush"
    BY DEF Both
  <1>2. Both # <<>> /\ Both # <<"thread_exited">> /\ <<"thread_exited">> # <<>>
    BY <1>1, EmptySeq
  <1>3. Both \in Seq({"thread_exited", "flush"}) /\ <<"thread_exited">> \in Seq({"thread_exited", "flush"})
    BY DEF Both
  <1>4. Last(Both) = "flush" /\ Last(<<"thread_exited">>) = "thread_exited"
    BY <1>1 DEF Last
  <1>5. Front(Both) = <<"thread_exited">>
    <2>1. Front(Both) = SubSeq(Both, 1, 1)
      BY <1>1 DEF Front
    <2>2. SubSeq(Both, 1, 1) = <<"thread_exited">>
      <3>1. \A i \in 1..1 : Both[i] \in {"thread_exited", "flush"}
        BY <1>1
      <3>2. /\ SubSeq(Both, 1, 1) \in Seq({"thread_exited", "flush"})
            /\ Len(SubSeq(Both, 1, 1)) = 1 /\ SubSeq(Both, 1, 1)[1] = "thread_exited"
        BY <1>1, <3>1, SubSeqProperties
      <3>3. \A i \in 1..Len(SubSeq(Both, 1, 1)) : SubSeq(Both, 1, 1)[i] = <<"thread_exited">>[i]
        BY <3>2
      <3> QED BY <1>1, <1>3, <3>2, <3>3, SeqEqual
    <2> QED BY <2>1, <2>2
  <1>6. Front(<<"thread_exited">>) = <<>>
    BY <1>1 DEF Front
  <1> QED BY <1>2, <1>3, <1>4, <1>5, <1>6, EmptySeq

\* Where a trace and what was accepted of it are.
LEMMA InTrace ==
    ASSUME IInv, NEW q \in 1..Len(traces)
    PROVE  /\ q \in 1..MaxLives /\ traces[q] \in Trace /\ accepted[q] \in Batch
           /\ Len(traces) \in Nat /\ Len(traces) <= MaxLives
  <1>1. /\ lives \in 0..MaxLives /\ traces \in Seq(Trace) /\ accepted \in [1..MaxLives -> Batch]
    BY DEF IInv, StateTyped
  <1>2. Len(traces) \in Nat /\ traces[q] \in Trace
    BY <1>1, LenProperties, ElementOfSeq
  <1>3. Cardinality(Pending) \in Nat
    BY FS_CardinalityType DEF IInv, TracePerThread
  <1>4. Len(traces) + Cardinality(Pending) <= lives
    BY DEF IInv, TracePerThread
  <1>5. Len(traces) <= MaxLives
    BY <1>1, <1>2, <1>3, <1>4, LivesAssumption
  <1>6. q \in 1..MaxLives
    BY <1>2, <1>5, LivesAssumption
  <1> QED BY <1>1, <1>2, <1>5, <1>6

\* A thread with handlers left is on its trace, which is not complete.
LEMMA ThreadFacts ==
    ASSUME IInv, NEW n \in Natives
    PROVE  /\ queue_tls[n] \in 0..Len(traces) /\ Len(traces) \in Nat /\ Len(threads) = Len(traces)
           /\ life[n] \in 0..MaxLives /\ lives \in Nat /\ lives <= MaxLives
           /\ pc[n] # "none" => life[n] \in 1..MaxLives /\ life[n] <= lives /\ calls[life[n]] \in 0..MaxCalls
           /\ queue_tls[n] # None => queue_tls[n] \in 1..Len(traces) /\ pc[n] # "none"
           /\ Len(traces) <= lives
  <1>1. /\ queue_tls[n] \in 0..Len(traces) /\ life[n] \in 0..MaxLives /\ lives \in 0..MaxLives
        /\ calls \in [1..MaxLives -> 0..MaxCalls] /\ traces \in Seq(Trace)
    BY DEF IInv, StateTyped
  <1>2. Len(traces) \in Nat
    BY <1>1, LenProperties
  <1>3. lives \in Nat /\ lives <= MaxLives
    BY <1>1, LivesAssumption
  <1>4. pc[n] # "none" => life[n] \in 1..MaxLives /\ life[n] <= lives
    BY <1>1, <1>3, LivesAssumption DEF IInv, HandlersInOrder
  <1>5. queue_tls[n] # None => queue_tls[n] \in 1..Len(traces) /\ pc[n] # "none"
    BY <1>1, <1>2 DEF IInv, HandlersInOrder, None
  <1>6. Len(threads) = Len(traces) /\ Len(traces) <= lives
    <2>1. Cardinality(Pending) \in Nat
      BY FS_CardinalityType DEF IInv, TracePerThread
    <2> QED BY <2>1, <1>2, <1>3 DEF IInv, TracePerThread
  <1> QED BY <1>1, <1>2, <1>3, <1>4, <1>5, <1>6

\* One trace is replaced, its owner and all others stay.
LEMMA OneTrace ==
    ASSUME NEW ts \in Seq(Trace), NEW q \in 1..Len(ts), NEW u \in Trace
    PROVE  /\ [ts EXCEPT ![q] = u] \in Seq(Trace)
           /\ Len([ts EXCEPT ![q] = u]) = Len(ts)
           /\ [ts EXCEPT ![q] = u][q] = u
           /\ \A i \in 1..Len(ts) : i # q => [ts EXCEPT ![q] = u][i] = ts[i]
  BY ExceptSeq

-----------------------------------------------------------------------------
(* The profiled threads write.                                             *)

\* Thread n, of life l and with all of its handlers waiting, replaces its trace
\* q by u, which holds its c calls; e handlers wait then.
Written(n, q, l, c, u, e) ==
    /\ n \in Natives /\ q \in 1..Len(traces) /\ l \in 1..MaxLives /\ c \in 0..MaxCalls /\ u \in Trace
    /\ q = queue_tls[n] /\ l = life[n] /\ exits[n] = Both
    /\ u.id = traces[q].id /\ Len(u.open) < BatchSize /\ Len(u.ready) <= Capacity
    /\ Holds(u, accepted[q], l, c)
    /\ traces' = [traces EXCEPT ![q] = u]
    /\ calls' = [calls EXCEPT ![l] = c]
    /\ exits' = [exits EXCEPT ![n] = e]
    /\ e = Both \/ (e = <<"thread_exited">> /\ pc[n] = "exiting" /\ u.open = <<>>)
    /\ UNCHANGED <<pc, life, lives, queue_tls, queues, policy, changes, threads, alive, readVars>>

LEMMA WriteTrace ==
    ASSUME IInv, NEW n, NEW q, NEW l, NEW c, NEW u, NEW e, Written(n, q, l, c, u, e)
    PROVE  IInv'
  <1> USE DEF Written
  <1>1. traces \in Seq(Trace) /\ Len(traces) \in Nat
    BY LenProperties DEF IInv, StateTyped
  <1>2. /\ traces' \in Seq(Trace) /\ Len(traces') = Len(traces) /\ traces'[q] = u
        /\ \A i \in 1..Len(traces) : i # q => traces'[i] = traces[i]
    BY <1>1, OneTrace
  <1>3. /\ pc' = pc /\ life' = life /\ lives' = lives /\ queue_tls' = queue_tls /\ queues' = queues
        /\ policy' = policy /\ changes' = changes /\ threads' = threads /\ alive' = alive
        /\ reading' = reading /\ batches' = batches /\ accepted' = accepted
    BY DEF readVars
  <1>4. /\ calls' \in [1..MaxLives -> 0..MaxCalls] /\ calls'[l] = c
        /\ \A k \in 1..MaxLives : k # l => calls'[k] = calls[k]
    BY DEF IInv, StateTyped
  <1>5. /\ exits' \in [Natives -> Seq({"thread_exited", "flush"})] /\ exits'[n] = e
        /\ \A m \in Natives : m # n => exits'[m] = exits[m]
    BY HandlerFacts DEF IInv, StateTyped
  <1>6. /\ pc[n] # "none" /\ l <= lives /\ q # None
        /\ alive[n] = q /\ ~threads[q].complete
    BY ThreadFacts, HandlerFacts DEF IInv, HandlersInOrder, None
  <1>7. \A m \in Natives : m # n => queue_tls[m] # q /\ (pc[m] # "none" => life[m] # l)
    BY <1>6 DEF IInv, Apart
  <1>8. StateTyped'
    <2>1. \A i \in 1..Len(traces') : Len(traces'[i].open) < BatchSize /\ Len(traces'[i].ready) <= Capacity
      BY <1>2 DEF IInv, StateTyped
    <2> QED BY <2>1, <1>2, <1>3, <1>4, <1>5 DEF IInv, StateTyped
  <1>9. TracePerThread'
    <2>1. Pending' = Pending
      BY <1>3 DEF Pending
    <2>2. \A i \in 1..Len(traces') : traces'[i].id = i
      BY <1>2 DEF IInv, TracePerThread
    <2> QED BY <2>1, <2>2, <1>2, <1>3 DEF IInv, TracePerThread
  <1>10. HandlersInOrder'
    <2> SUFFICES ASSUME NEW m \in Natives
                 PROVE  /\ pc[m] # "none" => life[m] \in 1..lives
                        /\ pc[m] = "none" => queue_tls[m] = None
                        /\ queue_tls[m] = None => exits'[m] = <<>> /\ alive[m] = None /\ pc[m] # "made"
                        /\ queue_tls[m] # None /\ pc[m] # "exiting" => exits'[m] = Both
                        /\ queue_tls[m] # None => exits'[m] \in {Both, <<"thread_exited">>, <<>>}
                        /\ exits'[m] # <<>> => alive[m] = queue_tls[m] /\ ~threads[queue_tls[m]].complete
                        /\ exits'[m] = <<>> => alive[m] = None
                        /\ queue_tls[m] # None /\ exits'[m] # Both => traces'[queue_tls[m]].open = <<>>
      BY <1>3 DEF HandlersInOrder
    <2>1. CASE m = n
      BY <2>1, <1>2, <1>5, <1>6, HandlerFacts DEF IInv, HandlersInOrder
    <2>2. CASE m # n
      <3>1. queue_tls[m] # None => traces'[queue_tls[m]] = traces[queue_tls[m]]
        BY <2>2, <1>2, <1>7, ThreadFacts
      <3> QED BY <2>2, <3>1, <1>5 DEF IInv, HandlersInOrder
    <2> QED BY <2>1, <2>2
  <1>11. Apart'
    BY <1>3 DEF IInv, Apart
  <1>12. TracesInOrder'
    <2>1. ASSUME NEW i \in 1..Len(traces)
          PROVE  \E k \in 1..MaxLives, d \in Nat : Holds(traces'[i], accepted[i], k, d)
      <3>1. CASE i = q
        BY <3>1, <1>2
      <3>2. CASE i # q
        BY <3>2, <1>2 DEF IInv, TracesInOrder
      <3> QED BY <3>1, <3>2
    <2>2. ASSUME NEW m \in Natives, queue_tls[m] # None
          PROVE  Holds(traces'[queue_tls[m]], accepted[queue_tls[m]], life[m], calls'[life[m]])
      <3>1. CASE m = n
        BY <3>1, <1>2, <1>4
      <3>2. CASE m # n
        <4>1. traces'[queue_tls[m]] = traces[queue_tls[m]]
          BY <3>2, <2>2, <1>2, <1>7, ThreadFacts
        <4>2. calls'[life[m]] = calls[life[m]]
          BY <3>2, <2>2, <1>4, <1>7, ThreadFacts
        <4> QED BY <2>2, <4>1, <4>2 DEF IInv, TracesInOrder
      <3> QED BY <3>1, <3>2
    <2>3. ASSUME NEW m \in Natives, pc[m] # "none", queue_tls[m] = None
          PROVE  calls'[life[m]] = 0
      <3>1. m # n
        BY <2>3, <1>6
      <3>2. calls'[life[m]] = calls[life[m]]
        BY <3>1, <2>3, <1>4, <1>7, ThreadFacts
      <3> QED BY <2>3, <3>2 DEF IInv, TracesInOrder
    <2>4. ASSUME NEW k \in 1..MaxLives, k > lives
          PROVE  calls'[k] = 0
      <3>1. k # l
        BY <2>4, <1>6, ThreadFacts
      <3> QED BY <2>4, <3>1, <1>4 DEF IInv, TracesInOrder
    <2>5. \A i \in 1..MaxLives : i > Len(traces) => accepted[i] = <<>>
      BY DEF IInv, TracesInOrder
    <2> QED BY <2>1, <2>2, <2>3, <2>4, <2>5, <1>2, <1>3 DEF TracesInOrder
  <1>13. CompleteIsPublished'
    <2> SUFFICES ASSUME NEW i \in 1..Len(traces), threads[traces'[i].id].complete
                 PROVE  traces'[i].open = <<>>
      BY <1>2, <1>3 DEF CompleteIsPublished
    <2>1. i # q
      BY <1>2, <1>6 DEF IInv, TracePerThread
    <2> QED BY <2>1, <1>2 DEF IInv, CompleteIsPublished
  <1> QED BY <1>8, <1>9, <1>10, <1>11, <1>12, <1>13 DEF IInv

LEMMA PublishFacts ==
    ASSUME NEW t \in Trace
    PROVE  /\ Publish(t) \in Trace /\ Publish(t).id = t.id /\ Publish(t).open = <<>>
           /\ Publish(t).ready = Append(t.ready, t.open) /\ Len(Publish(t).ready) = Len(t.ready) + 1
           /\ Len(Publish(t).open) = 0
  <1>1. t.open \in Batch /\ t.ready \in Seq(Batch)
    BY TraceFacts
  <1>2. PICK r \in Seq(Batch) : r = Append(t.ready, t.open) /\ Len(r) = Len(t.ready) + 1
    <2>1. Append(t.ready, t.open) \in Seq(Batch) /\ Len(Append(t.ready, t.open)) = Len(t.ready) + 1
      BY <1>1, AppendProperties
    <2> QED BY <2>1
  <1>3. Publish(t) = [t EXCEPT !.ready = r, !.open = <<>>]
    BY <1>2 DEF Publish
  <1>4. <<>> \in Batch /\ Len(<<>>) = 0
    BY EmptySeq DEF Batch
  <1> QED BY <1>2, <1>3, <1>4 DEF Trace

LEMMA StepTrack ==
    ASSUME IInv, NEW n \in Natives, Track(n)
    PROVE  IInv'
  <1>1. pc[n] = "running" /\ queue_tls[n] # None
    BY DEF Track
  <1>2. PICK q \in 1..Len(traces) : q = queue_tls[n]
    BY <1>1, ThreadFacts
  <1>3. PICK l \in 1..MaxLives : l = life[n]
    BY <1>1, ThreadFacts
  <1>4. PICK c \in 0..MaxCalls : c = calls[l]
    BY <1>1, <1>3, ThreadFacts
  <1>5. PICK t \in Trace : t = traces[q]
    BY ElementOfSeq DEF IInv, StateTyped
  <1>6. t.open \in Batch /\ t.ready \in Seq(Batch) /\ Len(t.open) \in Nat /\ Len(t.open) < BatchSize /\ Len(t.ready) <= Capacity /\ Len(t.ready) \in Nat
    BY <1>5, TraceFacts DEF IInv, StateTyped
  <1>7. c \in Nat /\ c + 1 \in Nat /\ <<l, c + 1>> \in Record
    BY <1>4, LivesAssumption DEF Record
  <1>8. PICK o \in Batch : o = Append(t.open, <<l, c + 1>>) /\ Len(o) = Len(t.open) + 1
    <2>1. Append(t.open, <<l, c + 1>>) \in Batch /\ Len(Append(t.open, <<l, c + 1>>)) = Len(t.open) + 1
      BY <1>6, <1>7, AppendProperties DEF Batch
    <2> QED BY <2>1
  <1>9. PICK v \in Trace : v = [t EXCEPT !.open = o]
    BY DEF Trace
  <1>10. v.open = o /\ v.ready = t.ready /\ v.id = t.id
    BY <1>9 DEF Trace
  <1>11. /\ c < MaxCalls
         /\ Full(v) => Len(v.ready) < Capacity
         /\ traces' = [traces EXCEPT ![q] = IF Full(v) THEN Publish(v) ELSE v]
         /\ calls' = [calls EXCEPT ![l] = @ + 1]
         /\ UNCHANGED <<pc, life, lives, queue_tls, exits, queues, policy, changes, threads, alive, readVars>>
    BY <1>2, <1>3, <1>4, <1>5, <1>8, <1>9 DEF Track
  <1>12. c + 1 \in 0..MaxCalls
    BY <1>4, <1>11, LivesAssumption
  <1>13. calls' = [calls EXCEPT ![l] = c + 1]
    BY <1>4, <1>11
  <1>14. exits[n] = Both /\ exits' = [exits EXCEPT ![n] = Both]
    BY <1>1, <1>11 DEF IInv, HandlersInOrder, StateTyped
  <1>15. accepted[q] \in Batch
    BY InTrace
  <1>16. Holds(t, accepted[q], l, c)
    BY <1>1, <1>2, <1>3, <1>4, <1>5 DEF IInv, TracesInOrder
  <1>17. Holds(v, accepted[q], l, c + 1)
    BY <1>7, <1>8, <1>10, <1>15, <1>16, HoldsRecord
  <1>18. CASE Full(v)
    <2>1. PICK u \in Trace : u = Publish(v)
      BY PublishFacts
    <2>2. /\ u.id = traces[q].id /\ u.open = <<>> /\ u.ready = Append(v.ready, v.open)
          /\ Len(u.open) = 0 /\ Len(u.ready) = Len(t.ready) + 1
      BY <2>1, <1>5, <1>10, PublishFacts
    <2>3. Len(u.open) < BatchSize /\ Len(u.ready) <= Capacity
      BY <2>2, <1>6, <1>10, <1>11, <1>18, ChannelAssumption
    <2>4. Holds(u, accepted[q], l, c + 1)
      BY <2>2, <1>7, <1>15, <1>17, HoldsPublish
    <2>5. traces' = [traces EXCEPT ![q] = u]
      BY <2>1, <1>11, <1>18
    <2>6. Written(n, q, l, c + 1, u, Both)
      BY <2>2, <2>3, <2>4, <2>5, <1>2, <1>3, <1>11, <1>12, <1>13, <1>14 DEF Written
    <2> QED BY <2>6, WriteTrace
  <1>19. CASE ~Full(v)
    <2>1. Len(v.open) < BatchSize /\ Len(v.ready) <= Capacity /\ v.id = traces[q].id
      BY <1>5, <1>6, <1>8, <1>10, <1>19, ChannelAssumption DEF Full
    <2>2. traces' = [traces EXCEPT ![q] = v]
      BY <1>11, <1>19
    <2>3. Written(n, q, l, c + 1, v, Both)
      BY <2>1, <2>2, <1>2, <1>3, <1>11, <1>12, <1>13, <1>14, <1>17 DEF Written
    <2> QED BY <2>3, WriteTrace
  <1> QED BY <1>18, <1>19

\* A thread publishes its open buffer, on its own account or on its exit.
LEMMA PublishTrace ==
    ASSUME IInv, NEW n \in Natives, pc[n] # "none", exits[n] = Both, queue_tls[n] # None,
           Len(traces[queue_tls[n]].ready) < Capacity,
           traces' = [traces EXCEPT ![queue_tls[n]] = Publish(@)],
           NEW e, exits' = [exits EXCEPT ![n] = e],
           e = Both \/ (e = <<"thread_exited">> /\ pc[n] = "exiting"),
           UNCHANGED <<pc, life, lives, calls, queue_tls, queues, policy, changes, threads, alive, readVars>>
    PROVE  IInv'
  <1>2. PICK q \in 1..Len(traces) : q = queue_tls[n]
    BY ThreadFacts
  <1>3. PICK l \in 1..MaxLives : l = life[n]
    BY ThreadFacts
  <1>4. PICK c \in 0..MaxCalls : c = calls[l]
    BY <1>3, ThreadFacts
  <1>5. PICK t \in Trace : t = traces[q]
    BY ElementOfSeq DEF IInv, StateTyped
  <1>6. Len(t.ready) \in Nat /\ Len(t.ready) < Capacity
    BY <1>2, <1>5, TraceFacts
  <1>7. PICK u \in Trace : u = Publish(t)
    BY PublishFacts
  <1>8. /\ u.id = traces[q].id /\ u.open = <<>> /\ u.ready = Append(t.ready, t.open)
        /\ Len(u.open) = 0 /\ Len(u.ready) = Len(t.ready) + 1
    BY <1>5, <1>7, PublishFacts
  <1>9. Len(u.open) < BatchSize /\ Len(u.ready) <= Capacity
    BY <1>6, <1>8, ChannelAssumption
  <1>10. traces' = [traces EXCEPT ![q] = u]
    BY <1>2, <1>5, <1>7
  <1>11. calls' = [calls EXCEPT ![l] = c]
    BY <1>4 DEF IInv, StateTyped
  <1>12. accepted[q] \in Batch
    BY InTrace
  <1>13. Holds(t, accepted[q], l, c)
    BY <1>2, <1>3, <1>4, <1>5 DEF IInv, TracesInOrder
  <1>14. c \in Nat
    BY <1>4, LivesAssumption
  <1>15. Holds(u, accepted[q], l, c)
    BY <1>8, <1>12, <1>13, <1>14, HoldsPublish
  <1>16. e = Both \/ (e = <<"thread_exited">> /\ pc[n] = "exiting" /\ u.open = <<>>)
    BY <1>8
  <1>17. Written(n, q, l, c, u, e)
    BY <1>2, <1>3, <1>8, <1>9, <1>10, <1>11, <1>15, <1>16 DEF Written
  <1> QED BY <1>17, WriteTrace

LEMMA StepFlush ==
    ASSUME IInv, NEW n \in Natives, Flush(n)
    PROVE  IInv'
  <1>1. /\ pc[n] = "running" /\ queue_tls[n] # None /\ Len(traces[queue_tls[n]].ready) < Capacity
        /\ traces' = [traces EXCEPT ![queue_tls[n]] = Publish(@)]
        /\ UNCHANGED <<pc, life, lives, calls, queue_tls, exits, queues, policy, changes, threads, alive, readVars>>
    BY DEF Flush, threadVars
  <1>2. exits[n] = Both /\ exits' = [exits EXCEPT ![n] = Both]
    BY <1>1 DEF IInv, HandlersInOrder, StateTyped
  <1> QED BY <1>1, <1>2, PublishTrace

LEMMA StepExitFlush ==
    ASSUME IInv, NEW n \in Natives, ExitFlush(n)
    PROVE  IInv'
  <1>1. /\ pc[n] = "exiting" /\ exits[n] # <<>> /\ Last(exits[n]) = "flush"
        /\ Len(traces[queue_tls[n]].ready) < Capacity
        /\ traces' = [traces EXCEPT ![queue_tls[n]] = Publish(@)]
        /\ exits' = [exits EXCEPT ![n] = Front(exits[n])]
        /\ UNCHANGED <<pc, life, lives, calls, queue_tls, queues, policy, changes, threads, alive, readVars>>
    BY DEF ExitFlush, NextHandler, DropHandler
  <1>2. queue_tls[n] # None /\ exits[n] = Both
    BY <1>1, HandlerFacts DEF IInv, HandlersInOrder
  <1>3. exits' = [exits EXCEPT ![n] = <<"thread_exited">>]
    BY <1>1, <1>2, HandlerFacts
  <1> QED BY <1>1, <1>2, <1>3, PublishTrace

-----------------------------------------------------------------------------
(* Threads come and go.                                                    *)

LEMMA StepStart ==
    ASSUME IInv, NEW n \in Natives, Start(n)
    PROVE  IInv'
  <1>1. /\ pc[n] = "none" /\ lives < MaxLives /\ lives' = lives + 1
        /\ life' = [life EXCEPT ![n] = lives + 1] /\ pc' = [pc EXCEPT ![n] = "running"]
        /\ calls' = calls /\ queue_tls' = queue_tls /\ exits' = exits /\ traces' = traces /\ queues' = queues
        /\ policy' = policy /\ changes' = changes /\ threads' = threads /\ alive' = alive
        /\ reading' = reading /\ batches' = batches /\ accepted' = accepted
    BY DEF Start, readVars
  <1>2. lives \in Nat /\ lives + 1 \in 1..MaxLives
    BY <1>1, ThreadFacts, LivesAssumption
  <1>3. /\ pc'[n] = "running" /\ life'[n] = lives + 1
        /\ \A m \in Natives : m # n => pc'[m] = pc[m] /\ life'[m] = life[m]
    BY <1>1 DEF IInv, StateTyped
  <1>4. queue_tls[n] = None
    BY <1>1 DEF IInv, HandlersInOrder
  <1>5. StateTyped'
    <2>1. lives' \in 0..MaxLives /\ lives + 1 \in 0..MaxLives
      BY <1>1, <1>2, LivesAssumption
    <2>2. life' \in [Natives -> 0..MaxLives]
      BY <2>1, <1>1 DEF IInv, StateTyped
    <2>3. pc' \in [Natives -> {"none", "running", "made", "exiting"}]
      BY <1>1 DEF IInv, StateTyped
    <2> QED BY <2>1, <2>2, <2>3, <1>1 DEF IInv, StateTyped
  <1>6. TracePerThread'
    <2>1. Pending' = Pending \cup {n} /\ n \notin Pending
      BY <1>1, <1>3, <1>4 DEF Pending
    <2>2. IsFiniteSet(Pending) /\ Cardinality(Pending) \in Nat
      BY FS_CardinalityType DEF IInv, TracePerThread
    <2>3. IsFiniteSet(Pending') /\ Cardinality(Pending') = Cardinality(Pending) + 1
      BY <2>1, <2>2, FS_AddElement
    <2>4. Len(threads) \in Nat
      BY LenProperties DEF IInv, StateTyped
    <2>5. Len(threads) + Cardinality(Pending') <= lives'
      BY <2>2, <2>3, <2>4, <1>1, <1>2 DEF IInv, TracePerThread
    <2> QED BY <2>3, <2>5, <1>1 DEF IInv, TracePerThread
  <1>7. HandlersInOrder'
    <2> SUFFICES ASSUME NEW m \in Natives
                 PROVE  /\ pc'[m] # "none" => life'[m] \in 1..lives'
                        /\ pc'[m] = "none" => queue_tls[m] = None
                        /\ queue_tls[m] = None => exits[m] = <<>> /\ alive[m] = None /\ pc'[m] # "made"
                        /\ queue_tls[m] # None /\ pc'[m] # "exiting" => exits[m] = Both
                        /\ queue_tls[m] # None => exits[m] \in {Both, <<"thread_exited">>, <<>>}
                        /\ exits[m] # <<>> => alive[m] = queue_tls[m] /\ ~threads[queue_tls[m]].complete
                        /\ exits[m] = <<>> => alive[m] = None
                        /\ queue_tls[m] # None /\ exits[m] # Both => traces[queue_tls[m]].open = <<>>
      BY <1>1 DEF HandlersInOrder
    <2>1. CASE m = n
      BY <2>1, <1>1, <1>2, <1>3, <1>4 DEF IInv, HandlersInOrder
    <2>2. CASE m # n
      <3>1. pc[m] # "none" => life[m] \in 1..lives'
        BY <1>1, <1>2 DEF IInv, HandlersInOrder
      <3> QED BY <2>2, <3>1, <1>3 DEF IInv, HandlersInOrder
    <2> QED BY <2>1, <2>2
  <1>8. Apart'
    <2>1. \A m \in Natives : pc[m] # "none" => life[m] # lives + 1
      BY <1>2, ThreadFacts
    <2> QED BY <2>1, <1>1, <1>3 DEF IInv, Apart
  <1>9. TracesInOrder'
    <2>1. \A m \in Natives : queue_tls[m] # None => m # n
      BY <1>4
    <2>2. calls[lives + 1] = 0
      BY <1>2 DEF IInv, TracesInOrder
    <2>3. \A m \in Natives : pc'[m] # "none" /\ queue_tls[m] = None => calls[life'[m]] = 0
      BY <2>2, <1>3 DEF IInv, TracesInOrder
    <2>4. \A l \in 1..MaxLives : l > lives + 1 => calls[l] = 0
      BY <1>2 DEF IInv, TracesInOrder
    <2> QED BY <2>1, <2>3, <2>4, <1>1, <1>3 DEF IInv, TracesInOrder
  <1>10. CompleteIsPublished'
    BY <1>1 DEF IInv, CompleteIsPublished
  <1> QED BY <1>5, <1>6, <1>7, <1>8, <1>9, <1>10 DEF IInv

\* A thread moves on and leaves all else alone, the list of queues excepted.
Moved(n, to) ==
    /\ pc' = [pc EXCEPT ![n] = to]
    /\ UNCHANGED <<life, lives, calls, queue_tls, exits, traces, policy, changes, threads, alive, readVars>>

LEMMA StepMoved ==
    ASSUME IInv, NEW n \in Natives, NEW to, Moved(n, to), pc[n] # "none",
           to = "exiting" \/ (to = "running" /\ pc[n] = "made"),
           queues' \in Seq(1..Len(traces)), reading \in 0..Len(queues')
    PROVE  IInv'
  <1>1. /\ pc' = [pc EXCEPT ![n] = to] /\ life' = life /\ lives' = lives
        /\ calls' = calls /\ queue_tls' = queue_tls /\ exits' = exits /\ traces' = traces
        /\ policy' = policy /\ changes' = changes /\ threads' = threads /\ alive' = alive
        /\ reading' = reading /\ batches' = batches /\ accepted' = accepted
    BY DEF Moved, readVars
  <1>2. pc'[n] = to /\ \A m \in Natives : m # n => pc'[m] = pc[m]
    BY <1>1 DEF IInv, StateTyped
  <1>3. to # "none" /\ to # "made"
    OBVIOUS
  <1>4. StateTyped'
    BY <1>1 DEF IInv, StateTyped
  <1>5. TracePerThread'
    <2>1. Pending' \subseteq Pending
      BY <1>1, <1>2 DEF Pending, IInv, HandlersInOrder
    <2>2. IsFiniteSet(Pending) /\ Cardinality(Pending) \in Nat
      BY FS_CardinalityType DEF IInv, TracePerThread
    <2>3. IsFiniteSet(Pending') /\ Cardinality(Pending') <= Cardinality(Pending) /\ Cardinality(Pending') \in Nat
      BY <2>1, <2>2, FS_Subset, FS_CardinalityType
    <2>4. Len(threads) \in Nat /\ lives \in Nat
      BY LenProperties, ThreadFacts DEF IInv, StateTyped
    <2>5. Len(threads) + Cardinality(Pending') <= lives
      BY <2>2, <2>3, <2>4 DEF IInv, TracePerThread
    <2> QED BY <2>3, <2>5, <1>1 DEF IInv, TracePerThread
  <1>6. HandlersInOrder'
    BY <1>1, <1>2, <1>3 DEF IInv, HandlersInOrder
  <1>7. Apart'
    BY <1>1, <1>2, <1>3 DEF IInv, Apart
  <1>8. TracesInOrder'
    <2>1. \A m \in Natives : pc'[m] # "none" /\ queue_tls[m] = None => calls[life[m]] = 0
      BY <1>2 DEF IInv, TracesInOrder
    <2> QED BY <2>1, <1>1 DEF IInv, TracesInOrder
  <1>9. CompleteIsPublished'
    BY <1>1 DEF IInv, CompleteIsPublished
  <1> QED BY <1>4, <1>5, <1>6, <1>7, <1>8, <1>9 DEF IInv

LEMMA StepPushBack ==
    ASSUME IInv, NEW n \in Natives, PushBack(n)
    PROVE  IInv'
  <1>1. /\ pc[n] = "made" /\ reading = 0 /\ Moved(n, "running")
        /\ queues' = Append(queues, queue_tls[n])
    BY DEF PushBack, Moved
  <1>2. queue_tls[n] \in 1..Len(traces)
    BY <1>1, ThreadFacts DEF IInv, HandlersInOrder
  <1>3. queues \in Seq(1..Len(traces))
    BY DEF IInv, StateTyped
  <1>4. queues' \in Seq(1..Len(traces))
    BY <1>1, <1>2, <1>3, AppendProperties
  <1>5. reading \in 0..Len(queues')
    BY <1>1, <1>4, LenProperties
  <1> QED BY <1>1, <1>4, <1>5, StepMoved

LEMMA StepExit ==
    ASSUME IInv, NEW n \in Natives, Exit(n)
    PROVE  IInv'
  <1>1. pc[n] = "running" /\ Moved(n, "exiting") /\ queues' = queues
    BY DEF Exit, Moved
  <1>2. queues' \in Seq(1..Len(traces)) /\ reading \in 0..Len(queues')
    BY <1>1 DEF IInv, StateTyped
  <1> QED BY <1>1, <1>2, StepMoved

LEMMA StepGone ==
    ASSUME IInv, NEW n \in Natives, Gone(n)
    PROVE  IInv'
  <1>1. /\ pc[n] = "exiting" /\ exits[n] = <<>> /\ pc' = [pc EXCEPT ![n] = "none"]
        /\ queue_tls' = [queue_tls EXCEPT ![n] = None] /\ life' = life /\ lives' = lives
        /\ calls' = calls /\ exits' = exits /\ traces' = traces /\ queues' = queues
        /\ policy' = policy /\ changes' = changes /\ threads' = threads /\ alive' = alive
        /\ reading' = reading /\ batches' = batches /\ accepted' = accepted
    BY DEF Gone, readVars
  <1>2. /\ pc'[n] = "none" /\ queue_tls'[n] = None
        /\ \A m \in Natives : m # n => pc'[m] = pc[m] /\ queue_tls'[m] = queue_tls[m]
    BY <1>1 DEF IInv, StateTyped
  <1>3. StateTyped'
    <2>1. None \in 0..Len(traces)
      BY ThreadFacts DEF None
    <2> QED BY <2>1, <1>1 DEF IInv, StateTyped
  <1>4. TracePerThread'
    <2>1. Pending' = Pending
      BY <1>1, <1>2 DEF Pending
    <2> QED BY <2>1, <1>1 DEF IInv, TracePerThread
  <1>5. alive[n] = None
    BY <1>1 DEF IInv, HandlersInOrder
  <1>6. HandlersInOrder'
    BY <1>1, <1>2, <1>5 DEF IInv, HandlersInOrder
  <1>7. Apart'
    BY <1>1, <1>2 DEF IInv, Apart
  <1>8. TracesInOrder'
    <2>1. \A m \in Natives : pc'[m] # "none" /\ queue_tls'[m] = None => calls[life[m]] = 0
      BY <1>2 DEF IInv, TracesInOrder
    <2>2. \A m \in Natives : queue_tls'[m] # None => Holds(traces[queue_tls'[m]], accepted[queue_tls'[m]], life[m], calls[life[m]])
      BY <1>2 DEF IInv, TracesInOrder
    <2> QED BY <2>1, <2>2, <1>1 DEF IInv, TracesInOrder
  <1>9. CompleteIsPublished'
    BY <1>1 DEF IInv, CompleteIsPublished
  <1> QED BY <1>3, <1>4, <1>6, <1>7, <1>8, <1>9 DEF IInv

LEMMA StepThreadExited ==
    ASSUME IInv, NEW n \in Natives, ThreadExited(n)
    PROVE  IInv'
  <1>1. /\ pc[n] = "exiting" /\ exits[n] # <<>> /\ Last(exits[n]) = "thread_exited"
        /\ threads' = [threads EXCEPT ![alive[n]].complete = TRUE]
        /\ alive' = [alive EXCEPT ![n] = None]
        /\ exits' = [exits EXCEPT ![n] = Front(exits[n])]
        /\ pc' = pc /\ life' = life /\ lives' = lives /\ calls' = calls /\ queue_tls' = queue_tls
        /\ traces' = traces /\ queues' = queues /\ policy' = policy /\ changes' = changes
        /\ reading' = reading /\ batches' = batches /\ accepted' = accepted
    BY DEF ThreadExited, NextHandler, DropHandler, readVars
  <1>2. queue_tls[n] # None /\ exits[n] = <<"thread_exited">> /\ alive[n] = queue_tls[n]
    BY <1>1, HandlerFacts DEF IInv, HandlersInOrder
  <1>3. PICK q \in 1..Len(traces) : q = queue_tls[n] /\ q = alive[n]
    BY <1>2, ThreadFacts
  <1>4. traces[q].open = <<>>
    BY <1>2, <1>3, HandlerFacts DEF IInv, HandlersInOrder
  <1>5. /\ threads \in Seq(ThreadInfo) /\ Len(threads) \in Nat /\ q \in 1..Len(threads)
    BY <1>3, LenProperties, ThreadFacts DEF IInv, StateTyped
  <1>6. PICK i \in ThreadInfo : i = [threads[q] EXCEPT !.complete = TRUE]
    <2>1. PICK j \in ThreadInfo : j = threads[q]
      BY <1>5, ElementOfSeq
    <2>2. [j EXCEPT !.complete = TRUE] \in ThreadInfo
      BY DEF ThreadInfo
    <2> QED BY <2>1, <2>2
  <1>7. threads' = [threads EXCEPT ![q] = i]
    BY <1>1, <1>3, <1>6
  <1>8. /\ threads' \in Seq(ThreadInfo) /\ Len(threads') = Len(threads)
        /\ \A k \in 1..Len(threads) : k # q => threads'[k] = threads[k]
    BY <1>5, <1>7, ExceptSeq
  <1>9. /\ exits'[n] = <<>> /\ alive'[n] = None
        /\ \A m \in Natives : m # n => exits'[m] = exits[m] /\ alive'[m] = alive[m]
    BY <1>1, <1>2, HandlerFacts DEF IInv, StateTyped
  <1>10. \A m \in Natives : m # n => queue_tls[m] # q
    BY <1>2, <1>3 DEF IInv, Apart
  <1>11. StateTyped'
    <2>1. exits' = [exits EXCEPT ![n] = <<>>]
      BY <1>1, <1>2, HandlerFacts
    <2>2. exits' \in [Natives -> Seq({"thread_exited", "flush"})]
      BY <2>1, HandlerFacts DEF IInv, StateTyped
    <2>3. None \in 0..Len(threads)
      BY <1>5 DEF None
    <2>4. alive' \in [Natives -> 0..Len(threads)]
      BY <2>3, <1>1 DEF IInv, StateTyped
    <2> QED BY <2>2, <2>4, <1>1, <1>8 DEF IInv, StateTyped
  <1>12. TracePerThread'
    <2>1. Pending' = Pending
      BY <1>1 DEF Pending
    <2> QED BY <2>1, <1>1, <1>8 DEF IInv, TracePerThread
  <1>13. HandlersInOrder'
    <2> SUFFICES ASSUME NEW m \in Natives
                 PROVE  /\ pc[m] # "none" => life[m] \in 1..lives
                        /\ pc[m] = "none" => queue_tls[m] = None
                        /\ queue_tls[m] = None => exits'[m] = <<>> /\ alive'[m] = None /\ pc[m] # "made"
                        /\ queue_tls[m] # None /\ pc[m] # "exiting" => exits'[m] = Both
                        /\ queue_tls[m] # None => exits'[m] \in {Both, <<"thread_exited">>, <<>>}
                        /\ exits'[m] # <<>> => alive'[m] = queue_tls[m] /\ ~threads'[queue_tls[m]].complete
                        /\ exits'[m] = <<>> => alive'[m] = None
                        /\ queue_tls[m] # None /\ exits'[m] # Both => traces[queue_tls[m]].open = <<>>
      BY <1>1 DEF HandlersInOrder
    <2>1. CASE m = n
      BY <2>1, <1>1, <1>2, <1>3, <1>4, <1>9 DEF IInv, HandlersInOrder
    <2>2. CASE m # n
      <3>1. queue_tls[m] # None => threads'[queue_tls[m]] = threads[queue_tls[m]]
        BY <2>2, <1>8, <1>10, ThreadFacts
      <3>2. exits[m] # <<>> => queue_tls[m] # None
        BY DEF IInv, HandlersInOrder
      <3> QED BY <2>2, <3>1, <3>2, <1>9 DEF IInv, HandlersInOrder
    <2> QED BY <2>1, <2>2
  <1>14. Apart'
    BY <1>1 DEF IInv, Apart
  <1>15. TracesInOrder'
    BY <1>1 DEF IInv, TracesInOrder
  <1>16. CompleteIsPublished'
    <2> SUFFICES ASSUME NEW k \in 1..Len(traces), threads'[traces[k].id].complete
                 PROVE  traces[k].open = <<>>
      BY <1>1 DEF CompleteIsPublished
    <2>1. traces[k].id = k /\ k \in 1..Len(threads)
      BY DEF IInv, TracePerThread
    <2>2. CASE k = q
      BY <2>2, <1>4
    <2>3. CASE k # q
      BY <2>1, <2>3, <1>8 DEF IInv, CompleteIsPublished
    <2> QED BY <2>2, <2>3
  <1> QED BY <1>11, <1>12, <1>13, <1>14, <1>15, <1>16 DEF IInv

\* A thread that makes its trace has not been registered in this life.
LEMMA StepConstructQueue ==
    ASSUME IInv, NEW n \in Natives, ConstructQueue(n)
    PROVE  IInv'
  <1>1. pc[n] = "running" /\ queue_tls[n] = None /\ reading = 0 /\ alive[n] = None /\ exits[n] = <<>>
    BY DEF ConstructQueue, IInv, HandlersInOrder
  <1>2. PICK q \in Nat : q = Len(traces) + 1 /\ q = Len(threads) + 1
    BY ThreadFacts
  <1>3. /\ threads' = Append(threads, [native |-> n, complete |-> FALSE])
        /\ alive' = [alive EXCEPT ![n] = q]
    BY <1>1, <1>2 DEF ConstructQueue, RegisterSelf
  <1>4. alive'[n] = q
    BY <1>3 DEF IInv, StateTyped
  <1>5. PICK u \in Trace : u.id = q /\ u.open = <<>> /\ u.ready = <<>> /\ traces' = Append(traces, u)
    <2>1. policy \in Policies
      BY DEF IInv, StateTyped
    <2>2. <<>> \in Batch /\ <<>> \in Seq(Batch)
      BY EmptySeq DEF Batch
    <2>3. [id |-> q, policy |-> policy, open |-> <<>>, ready |-> <<>>] \in Trace
      BY <2>1, <2>2 DEF Trace
    <2>4. traces' = Append(traces, [id |-> q, policy |-> policy, open |-> <<>>, ready |-> <<>>])
      BY <1>4 DEF ConstructQueue
    <2> QED BY <2>3, <2>4
  <1>6. /\ exits' = [exits EXCEPT ![n] = Both]
        /\ queue_tls' = [queue_tls EXCEPT ![n] = q]
        /\ pc' = [pc EXCEPT ![n] = "made"]
        /\ life' = life /\ lives' = lives /\ calls' = calls /\ queues' = queues /\ policy' = policy
        /\ changes' = changes /\ reading' = reading /\ batches' = batches /\ accepted' = accepted
    <2>1. exits[n] \o ExitHandlers(n) = Both
      BY <1>1 DEF ExitHandlers, Both
    <2> QED BY <2>1, <1>2 DEF ConstructQueue, readVars
  <1>7. /\ traces \in Seq(Trace) /\ threads \in Seq(ThreadInfo) /\ Len(traces) \in Nat /\ Len(threads) \in Nat
    BY LenProperties DEF IInv, StateTyped
  <1>8. PICK f \in ThreadInfo : f.complete = FALSE /\ threads' = Append(threads, f)
    <2>1. [native |-> n, complete |-> FALSE] \in ThreadInfo
      BY DEF ThreadInfo
    <2> QED BY <2>1, <1>3
  <1>9. /\ traces' \in Seq(Trace) /\ Len(traces') = q /\ traces'[q] = u
        /\ \A i \in 1..Len(traces) : traces'[i] = traces[i]
    BY <1>2, <1>5, <1>7, AppendProperties
  <1>10. /\ threads' \in Seq(ThreadInfo) /\ Len(threads') = q /\ threads'[q] = f
         /\ \A i \in 1..Len(threads) : threads'[i] = threads[i]
    BY <1>2, <1>7, <1>8, AppendProperties
  <1>11. /\ exits'[n] = Both /\ queue_tls'[n] = q /\ pc'[n] = "made"
         /\ \A m \in Natives : m # n => /\ exits'[m] = exits[m] /\ queue_tls'[m] = queue_tls[m]
                                        /\ pc'[m] = pc[m] /\ alive'[m] = alive[m]
    BY <1>3, <1>6 DEF IInv, StateTyped
  <1>12. 1..q = (1..Len(traces)) \cup {q} /\ q \notin 1..Len(traces) /\ q # None
    BY <1>2, <1>7 DEF None
  <1>13. \A m \in Natives : queue_tls[m] # None => queue_tls[m] \in 1..Len(traces)
    BY ThreadFacts
  <1>14. n \in Pending /\ Pending' = Pending \ {n}
    BY <1>1, <1>11, <1>12 DEF Pending
  <1>15. /\ IsFiniteSet(Pending') /\ Len(threads') + Cardinality(Pending') <= lives /\ q <= lives
    <2>1. IsFiniteSet(Pending) /\ Cardinality(Pending) \in Nat
      BY FS_CardinalityType DEF IInv, TracePerThread
    <2>2. IsFiniteSet(Pending') /\ Cardinality(Pending') = Cardinality(Pending) - 1 /\ Cardinality(Pending') \in Nat
      BY <2>1, <1>14, FS_RemoveElement, FS_CardinalityType
    <2>3. Len(threads) + Cardinality(Pending) <= lives /\ lives \in Nat
      BY ThreadFacts DEF IInv, TracePerThread
    <2> QED BY <2>1, <2>2, <2>3, <1>2, <1>7, <1>10
  <1>16. StateTyped'
    <2>1. queue_tls' \in [Natives -> 0..q] /\ alive' \in [Natives -> 0..q]
      <3>1. 0..Len(traces) \subseteq 0..q /\ 0..Len(threads) \subseteq 0..q /\ q \in 0..q
        BY <1>2, <1>7
      <3>2. queue_tls \in [Natives -> 0..Len(traces)] /\ alive \in [Natives -> 0..Len(threads)]
        BY DEF IInv, StateTyped
      <3> QED BY <3>1, <3>2, <1>3, <1>6
    <2>2. queues \in Seq(1..q)
      <3>1. queues \in Seq(1..Len(traces)) /\ 1..Len(traces) \subseteq 1..q
        BY <1>12 DEF IInv, StateTyped
      <3> QED BY <3>1, SeqMonotonic
    <2>3. \A i \in 1..q : Len(traces'[i].open) < BatchSize /\ Len(traces'[i].ready) <= Capacity
      <3>1. Len(u.open) < BatchSize /\ Len(u.ready) <= Capacity
        BY <1>5, EmptySeq, ChannelAssumption
      <3> QED BY <3>1, <1>9, <1>12 DEF IInv, StateTyped
    <2>4. exits' \in [Natives -> Seq({"thread_exited", "flush"})] /\ pc' \in [Natives -> {"none", "running", "made", "exiting"}]
      BY <1>6, HandlerFacts DEF IInv, StateTyped
    <2> QED BY <2>1, <2>2, <2>3, <2>4, <1>6, <1>9, <1>10 DEF IInv, StateTyped
  <1>17. TracePerThread'
    <2>1. \A i \in 1..q : traces'[i].id = i
      BY <1>5, <1>9, <1>12 DEF IInv, TracePerThread
    <2> QED BY <2>1, <1>6, <1>9, <1>10, <1>15 DEF TracePerThread
  <1>18. HandlersInOrder'
    <2> SUFFICES ASSUME NEW m \in Natives
                 PROVE  /\ pc'[m] # "none" => life[m] \in 1..lives
                        /\ pc'[m] = "none" => queue_tls'[m] = None
                        /\ queue_tls'[m] = None => exits'[m] = <<>> /\ alive'[m] = None /\ pc'[m] # "made"
                        /\ queue_tls'[m] # None /\ pc'[m] # "exiting" => exits'[m] = Both
                        /\ queue_tls'[m] # None => exits'[m] \in {Both, <<"thread_exited">>, <<>>}
                        /\ exits'[m] # <<>> => alive'[m] = queue_tls'[m] /\ ~threads'[queue_tls'[m]].complete
                        /\ exits'[m] = <<>> => alive'[m] = None
                        /\ queue_tls'[m] # None /\ exits'[m] # Both => traces'[queue_tls'[m]].open = <<>>
      BY <1>6 DEF HandlersInOrder
    <2>1. CASE m = n
      BY <2>1, <1>1, <1>4, <1>8, <1>10, <1>11, <1>12, HandlerFacts DEF IInv, HandlersInOrder
    <2>2. CASE m # n
      <3>1. queue_tls[m] # None => /\ threads'[queue_tls[m]] = threads[queue_tls[m]]
                                   /\ traces'[queue_tls[m]] = traces[queue_tls[m]]
        BY <1>9, <1>10, <1>13, ThreadFacts
      <3>2. exits[m] # <<>> => queue_tls[m] # None
        BY DEF IInv, HandlersInOrder
      <3> QED BY <2>2, <3>1, <3>2, <1>11 DEF IInv, HandlersInOrder
    <2> QED BY <2>1, <2>2
  <1>19. Apart'
    <2>1. \A m \in Natives : m # n => queue_tls'[m] # q
      BY <1>11, <1>12, <1>13
    <2>2. \A m \in Natives : pc'[m] # "none" => pc[m] # "none"
      BY <1>1, <1>11
    <2> QED BY <2>1, <2>2, <1>6, <1>11, <1>12 DEF IInv, Apart
  <1>20. accepted[q] = <<>>
    <2>1. q \in 1..MaxLives /\ q > Len(traces)
      BY <1>2, <1>7, <1>15, ThreadFacts, LivesAssumption
    <2> QED BY <2>1 DEF IInv, TracesInOrder
  <1>21. PICK l \in 1..MaxLives : l = life[n]
    BY <1>1, ThreadFacts
  <1>22. Holds(u, accepted[q], l, 0) /\ calls[l] = 0
    BY <1>1, <1>5, <1>20, <1>21, HoldsStart DEF IInv, TracesInOrder
  <1>23. TracesInOrder'
    <2>1. \A i \in 1..q : \E k \in 1..MaxLives, c \in Nat : Holds(traces'[i], accepted[i], k, c)
      <3>1. \A i \in 1..Len(traces) : \E k \in 1..MaxLives, c \in Nat : Holds(traces'[i], accepted[i], k, c)
        BY <1>9 DEF IInv, TracesInOrder
      <3>2. \E k \in 1..MaxLives, c \in Nat : Holds(traces'[q], accepted[q], k, c)
        BY <1>9, <1>22
      <3> QED BY <3>1, <3>2, <1>12
    <2>2. ASSUME NEW m \in Natives, queue_tls'[m] # None
          PROVE  Holds(traces'[queue_tls'[m]], accepted[queue_tls'[m]], life[m], calls[life[m]])
      <3>1. CASE m = n
        BY <3>1, <1>9, <1>11, <1>21, <1>22
      <3>2. CASE m # n
        <4>1. queue_tls[m] # None /\ queue_tls'[m] = queue_tls[m]
          BY <3>2, <2>2, <1>11
        <4>2. traces'[queue_tls[m]] = traces[queue_tls[m]]
          BY <4>1, <1>9, <1>13
        <4> QED BY <4>1, <4>2 DEF IInv, TracesInOrder
      <3> QED BY <3>1, <3>2
    <2>3. \A m \in Natives : pc'[m] # "none" /\ queue_tls'[m] = None => calls[life[m]] = 0
      BY <1>11, <1>12 DEF IInv, TracesInOrder
    <2>4. \A i \in 1..MaxLives : i > q => accepted[i] = <<>>
      BY <1>2, <1>7, LivesAssumption DEF IInv, TracesInOrder
    <2> QED BY <2>1, <2>2, <2>3, <2>4, <1>6, <1>9 DEF IInv, TracesInOrder
  <1>24. CompleteIsPublished'
    <2> SUFFICES ASSUME NEW k \in 1..q, threads'[traces'[k].id].complete
                 PROVE  traces'[k].open = <<>>
      BY <1>9 DEF CompleteIsPublished
    <2>1. CASE k = q
      BY <2>1, <1>5, <1>9
    <2>2. CASE k # q
      <3>1. k \in 1..Len(traces)
        BY <2>2, <1>12
      <3>2. traces'[k] = traces[k] /\ traces[k].id = k /\ threads'[k] = threads[k]
        BY <3>1, <1>9, <1>10, ThreadFacts DEF IInv, TracePerThread
      <3> QED BY <3>1, <3>2 DEF IInv, CompleteIsPublished
    <2> QED BY <2>1, <2>2
  <1> QED BY <1>16, <1>17, <1>18, <1>19, <1>23, <1>24 DEF IInv

-----------------------------------------------------------------------------
(* The collector's own thread.                                             *)

LEMMA StepSetBufferingPolicy ==
    ASSUME IInv, SetBufferingPolicy
    PROVE  IInv'
  <1>1. PICK p \in Policies :
          /\ policy' = p
          /\ traces' = [i \in 1..Len(traces) |->
                          IF \E k \in 1..Len(queues) : queues[k] = i
                            THEN [traces[i] EXCEPT !.policy = p]
                            ELSE traces[i]]
    BY DEF SetBufferingPolicy
  <1>2. /\ pc' = pc /\ life' = life /\ lives' = lives /\ calls' = calls /\ queue_tls' = queue_tls /\ exits' = exits
        /\ queues' = queues /\ threads' = threads /\ alive' = alive /\ changes' = changes + 1
        /\ reading' = reading /\ batches' = batches /\ accepted' = accepted
    BY DEF SetBufferingPolicy, threadVars, readVars
  <1>3. traces \in Seq(Trace) /\ Len(traces) \in Nat
    BY LenProperties DEF IInv, StateTyped
  <1>4. ASSUME NEW i \in 1..Len(traces)
        PROVE  /\ traces'[i] \in Trace /\ traces'[i].id = traces[i].id
               /\ traces'[i].open = traces[i].open /\ traces'[i].ready = traces[i].ready
    <2>1. PICK t \in Trace : t = traces[i]
      BY <1>3, ElementOfSeq
    <2>2. traces'[i] = t \/ traces'[i] = [t EXCEPT !.policy = p]
      BY <2>1, <1>1
    <2>3. LET u == [t EXCEPT !.policy = p]
          IN  u \in Trace /\ u.id = t.id /\ u.open = t.open /\ u.ready = t.ready
      BY DEF Trace
    <2> QED BY <2>1, <2>2, <2>3
  <1>5. traces' \in Seq(Trace) /\ Len(traces') = Len(traces)
    <2>1. DOMAIN traces' = 1..Len(traces) /\ traces' = [i \in 1..Len(traces) |-> traces'[i]]
      BY <1>1
    <2>2. traces' \in [1..Len(traces) -> Trace]
      BY <2>1, <1>4
    <2>3. traces' \in Seq(Trace)
      BY <2>2, <1>3, SeqDef
    <2> QED BY <2>1, <2>3, <1>3, LenProperties
  <1>6. StateTyped'
    <2>1. \A i \in 1..Len(traces') : Len(traces'[i].open) < BatchSize /\ Len(traces'[i].ready) <= Capacity
      BY <1>4, <1>5 DEF IInv, StateTyped
    <2>2. changes' \in Nat
      BY <1>2 DEF IInv, StateTyped
    <2>3. policy' \in Policies
      BY <1>1
    <2> QED BY <2>1, <2>2, <2>3, <1>2, <1>5 DEF IInv, StateTyped
  <1>7. TracePerThread'
    <2>1. Pending' = Pending
      BY <1>2 DEF Pending
    <2>2. \A i \in 1..Len(traces') : traces'[i].id = i
      BY <1>4, <1>5 DEF IInv, TracePerThread
    <2> QED BY <2>1, <2>2, <1>2, <1>5 DEF IInv, TracePerThread
  <1>8. HandlersInOrder'
    <2>1. \A n \in Natives : queue_tls[n] # None => traces'[queue_tls[n]].open = traces[queue_tls[n]].open
      BY <1>4, ThreadFacts
    <2> QED BY <2>1, <1>2 DEF IInv, HandlersInOrder
  <1>9. Apart'
    BY <1>2 DEF IInv, Apart
  <1>10. TracesInOrder'
    <2>1. ASSUME NEW i \in 1..Len(traces), NEW l, NEW c, Holds(traces[i], accepted[i], l, c)
          PROVE  Holds(traces'[i], accepted[i], l, c)
      BY <2>1, <1>4, HoldsSame
    <2>2. \A i \in 1..Len(traces) : \E l \in 1..MaxLives, c \in Nat : Holds(traces'[i], accepted[i], l, c)
      BY <2>1 DEF IInv, TracesInOrder
    <2>3. \A n \in Natives : queue_tls[n] # None => Holds(traces'[queue_tls[n]], accepted[queue_tls[n]], life[n], calls[life[n]])
      BY <2>1, ThreadFacts DEF IInv, TracesInOrder
    <2> QED BY <2>2, <2>3, <1>2, <1>5 DEF IInv, TracesInOrder
  <1>11. CompleteIsPublished'
    BY <1>2, <1>4, <1>5 DEF IInv, CompleteIsPublished
  <1> QED BY <1>6, <1>7, <1>8, <1>9, <1>10, <1>11 DEF IInv

\* The reader goes to another queue.
LEMMA StepTurn ==
    ASSUME IInv, reading' \in 0..Len(queues), batches' \in 0..Capacity,
           UNCHANGED <<threadVars, traces, queues, policy, changes, threads, alive, accepted>>
    PROVE  IInv'
  <1>1. /\ pc' = pc /\ life' = life /\ lives' = lives /\ calls' = calls /\ queue_tls' = queue_tls /\ exits' = exits
        /\ traces' = traces /\ queues' = queues /\ policy' = policy /\ changes' = changes
        /\ threads' = threads /\ alive' = alive /\ accepted' = accepted
    BY DEF threadVars
  <1>2. StateTyped'
    BY <1>1 DEF IInv, StateTyped
  <1>3. TracePerThread'
    <2>1. Pending' = Pending
      BY <1>1 DEF Pending
    <2> QED BY <2>1, <1>1 DEF IInv, TracePerThread
  <1>4. HandlersInOrder' /\ Apart' /\ CompleteIsPublished'
    BY <1>1 DEF IInv, HandlersInOrder, Apart, CompleteIsPublished
  <1>5. TracesInOrder'
    BY <1>1 DEF IInv, TracesInOrder
  <1> QED BY <1>2, <1>3, <1>4, <1>5 DEF IInv

LEMMA StepReadCollected ==
    ASSUME IInv, ReadCollected
    PROVE  IInv'
  <1>1. Len(queues) \in Nat
    BY LenProperties DEF IInv, StateTyped
  <1>2. reading' \in 0..Len(queues) /\ batches' \in 0..Capacity
    BY <1>1, ChannelAssumption DEF ReadCollected
  <1> QED BY <1>2, StepTurn DEF ReadCollected

LEMMA StepNextQueue ==
    ASSUME IInv, NextQueue
    PROVE  IInv'
  <1>1. Len(queues) \in Nat /\ reading \in 0..Len(queues)
    BY LenProperties DEF IInv, StateTyped
  <1>2. reading' \in 0..Len(queues) /\ batches' \in 0..Capacity
    BY <1>1, ChannelAssumption DEF NextQueue
  <1> QED BY <1>2, StepTurn DEF NextQueue

LEMMA StepAcceptCalls ==
    ASSUME IInv, AcceptCalls
    PROVE  IInv'
  <1>1. PICK q \in 1..Len(traces) : q = Current
    <2>1. queues \in Seq(1..Len(traces)) /\ reading \in 0..Len(queues)
      BY DEF IInv, StateTyped
    <2>2. Len(queues) + 1 - reading \in 1..Len(queues)
      BY <2>1, LenProperties DEF AcceptCalls
    <2> QED BY <2>1, <2>2, ElementOfSeq DEF Current
  <1>2. PICK t \in Trace : t = traces[q]
    BY InTrace
  <1>3. t.id = q /\ q \in 1..MaxLives /\ accepted[q] \in Batch
    BY <1>2, InTrace DEF IInv, TracePerThread
  <1>4. /\ t.ready # <<>> /\ batches > 0
        /\ traces' = [traces EXCEPT ![q] = [t EXCEPT !.ready = Tail(t.ready)]]
        /\ accepted' = [accepted EXCEPT ![q] = accepted[q] \o Head(t.ready)]
        /\ batches' = batches - 1
    BY <1>1, <1>2, <1>3 DEF AcceptCalls
  <1>5. /\ pc' = pc /\ life' = life /\ lives' = lives /\ calls' = calls /\ queue_tls' = queue_tls /\ exits' = exits
        /\ queues' = queues /\ policy' = policy /\ changes' = changes
        /\ threads' = threads /\ alive' = alive /\ reading' = reading
    BY DEF AcceptCalls, threadVars
  <1>6. PICK r \in Seq(Batch) : r = Tail(t.ready) /\ Len(r) = Len(t.ready) - 1
    <2>1. t.ready \in Seq(Batch)
      BY TraceFacts
    <2>2. Tail(t.ready) \in Seq(Batch) /\ Len(Tail(t.ready)) = Len(t.ready) - 1
      BY <2>1, <1>4, HeadTailProperties
    <2> QED BY <2>2
  <1>7. PICK u \in Trace : u = [t EXCEPT !.ready = r]
    BY DEF Trace
  <1>8. u.id = t.id /\ u.open = t.open /\ u.ready = r
    BY <1>7 DEF Trace
  <1>9. PICK g : g = accepted[q] \o Head(t.ready)
    OBVIOUS
  <1>10. ASSUME NEW l \in 1..MaxLives, NEW c \in Nat, Holds(t, accepted[q], l, c)
         PROVE  g \in Batch /\ Holds(u, g, l, c)
    BY <1>10, <1>3, <1>4, <1>6, <1>8, <1>9, HoldsTake
  <1>11. PICK l0 \in 1..MaxLives, c0 \in Nat : Holds(t, accepted[q], l0, c0)
    BY <1>2 DEF IInv, TracesInOrder
  <1>12. g \in Batch /\ Holds(u, g, l0, c0)
    BY <1>10, <1>11
  <1>13. traces \in Seq(Trace) /\ Len(traces) \in Nat
    BY LenProperties DEF IInv, StateTyped
  <1>14. traces' = [traces EXCEPT ![q] = u]
    BY <1>4, <1>6, <1>7
  <1>15. /\ traces' \in Seq(Trace) /\ Len(traces') = Len(traces) /\ traces'[q] = u
         /\ \A i \in 1..Len(traces) : i # q => traces'[i] = traces[i]
    BY <1>13, <1>14, OneTrace
  <1>16. /\ accepted' \in [1..MaxLives -> Batch] /\ accepted'[q] = g
         /\ \A i \in 1..MaxLives : i # q => accepted'[i] = accepted[i]
    BY <1>3, <1>4, <1>9, <1>12 DEF IInv, StateTyped
  <1>17. StateTyped'
    <2>1. Len(t.open) < BatchSize /\ Len(t.ready) <= Capacity /\ Len(t.ready) \in Nat
      BY <1>2, TraceFacts DEF IInv, StateTyped
    <2>2. Len(u.open) < BatchSize /\ Len(u.ready) <= Capacity
      BY <2>1, <1>6, <1>8, ChannelAssumption
    <2>3. \A i \in 1..Len(traces') : Len(traces'[i].open) < BatchSize /\ Len(traces'[i].ready) <= Capacity
      BY <2>2, <1>15 DEF IInv, StateTyped
    <2>4. batches' \in 0..Capacity
      BY <1>4, ChannelAssumption DEF IInv, StateTyped
    <2> QED BY <2>3, <2>4, <1>5, <1>15, <1>16 DEF IInv, StateTyped
  <1>18. TracePerThread'
    <2>1. Pending' = Pending
      BY <1>5 DEF Pending
    <2>2. \A i \in 1..Len(traces') : traces'[i].id = i
      BY <1>3, <1>8, <1>15 DEF IInv, TracePerThread
    <2> QED BY <2>1, <2>2, <1>5, <1>15 DEF IInv, TracePerThread
  <1>19. HandlersInOrder'
    <2>1. \A n \in Natives : queue_tls[n] # None => traces'[queue_tls[n]].open = traces[queue_tls[n]].open
      BY <1>2, <1>8, <1>15, ThreadFacts
    <2> QED BY <2>1, <1>5 DEF IInv, HandlersInOrder
  <1>20. Apart'
    BY <1>5 DEF IInv, Apart
  <1>21. TracesInOrder'
    <2>1. ASSUME NEW i \in 1..Len(traces)
          PROVE  \E l \in 1..MaxLives, c \in Nat : Holds(traces'[i], accepted'[i], l, c)
      <3>1. CASE i = q
        BY <3>1, <1>12, <1>15, <1>16
      <3>2. CASE i # q
        <4>1. traces'[i] = traces[i] /\ accepted'[i] = accepted[i]
          BY <3>2, <1>15, <1>16, InTrace
        <4> QED BY <4>1 DEF IInv, TracesInOrder
      <3> QED BY <3>1, <3>2
    <2>2. ASSUME NEW n \in Natives, queue_tls[n] # None
          PROVE  Holds(traces'[queue_tls[n]], accepted'[queue_tls[n]], life[n], calls[life[n]])
      <3>1. PICK i \in 1..Len(traces) : i = queue_tls[n]
        BY <2>2, ThreadFacts
      <3>2. life[n] \in 1..MaxLives /\ calls[life[n]] \in Nat
        BY <2>2, ThreadFacts, LivesAssumption
      <3>3. Holds(traces[i], accepted[i], life[n], calls[life[n]])
        BY <2>2, <3>1 DEF IInv, TracesInOrder
      <3>4. CASE i = q
        <4>1. Holds(u, g, life[n], calls[life[n]])
          BY <3>2, <3>3, <3>4, <1>2, <1>10
        <4> QED BY <4>1, <3>1, <3>4, <1>15, <1>16
      <3>5. CASE i # q
        <4>1. traces'[i] = traces[i] /\ accepted'[i] = accepted[i]
          BY <3>5, <1>15, <1>16, InTrace
        <4> QED BY <4>1, <3>1, <3>3
      <3> QED BY <3>4, <3>5
    <2>3. \A i \in 1..MaxLives : i > Len(traces) => accepted'[i] = <<>>
      BY <1>13, <1>16 DEF IInv, TracesInOrder
    <2> QED BY <2>1, <2>2, <2>3, <1>5, <1>15 DEF IInv, TracesInOrder
  <1>22. CompleteIsPublished'
    BY <1>2, <1>5, <1>8, <1>15 DEF IInv, CompleteIsPublished
  <1> QED BY <1>17, <1>18, <1>19, <1>20, <1>21, <1>22 DEF IInv

-----------------------------------------------------------------------------

LEMMA Initially ==
    Init => IInv
  <1> SUFFICES ASSUME Init PROVE IInv
    OBVIOUS
  <1> USE DEF Init, None
  <1>1. /\ Len(traces) = 0 /\ Len(threads) = 0 /\ Len(queues) = 0 /\ 1..0 = {}
        /\ traces \in Seq(Trace) /\ threads \in Seq(ThreadInfo) /\ queues \in Seq(1..Len(traces))
    BY EmptySeq
  <1>2. <<>> \in Batch /\ <<>> \in Seq({"thread_exited", "flush"})
    BY EmptySeq DEF Batch
  <1>3. StateTyped
    BY <1>1, <1>2, InitialAssumption, ChannelAssumption, LivesAssumption DEF StateTyped
  <1>4. TracePerThread
    <2>1. Pending = {}
      BY DEF Pending
    <2>2. IsFiniteSet(Pending) /\ Cardinality(Pending) = 0
      BY <2>1, FS_EmptySet
    <2> QED BY <2>2, <1>1 DEF TracePerThread
  <1>5. HandlersInOrder /\ Apart
    BY DEF HandlersInOrder, Apart
  <1>6. TracesInOrder
    BY <1>1 DEF TracesInOrder
  <1>7. CompleteIsPublished
    BY <1>1 DEF CompleteIsPublished
  <1> QED BY <1>3, <1>4, <1>5, <1>6, <1>7 DEF IInv

LEMMA Preserved ==
    IInv /\ [Next]_vars => IInv'
  <1> SUFFICES ASSUME IInv, [Next]_vars PROVE IInv'
    OBVIOUS
  <1>1. CASE UNCHANGED vars
    <2>1. UNCHANGED <<threadVars, traces, queues, policy, changes, threads, alive, accepted>> /\ reading' = reading /\ batches' = batches
      BY <1>1 DEF vars, readVars
    <2>2. reading' \in 0..Len(queues) /\ batches' \in 0..Capacity
      BY <2>1 DEF IInv, StateTyped
    <2> QED BY <2>1, <2>2, StepTurn
  <1>2. CASE SetBufferingPolicy \/ ReadCollected \/ AcceptCalls \/ NextQueue
    BY <1>2, StepSetBufferingPolicy, StepReadCollected, StepAcceptCalls, StepNextQueue
  <1>3. ASSUME NEW n \in Natives,
               \/ Start(n) \/ Track(n) \/ Flush(n) \/ Exit(n)
               \/ ConstructQueue(n) \/ PushBack(n)
               \/ ExitFlush(n) \/ ThreadExited(n) \/ Gone(n)
        PROVE  IInv'
    BY <1>3, StepStart, StepTrack, StepFlush, StepExit, StepConstructQueue, StepPushBack,
       StepExitFlush, StepThreadExited, StepGone
  <1> QED BY <1>1, <1>2, <1>3 DEF Next

LEMMA InvariantSuffices ==
    IInv => CallsAttributed
  <1> SUFFICES ASSUME IInv PROVE CallsAttributed
    OBVIOUS
  <1>1. TypeOK
    <2>1. \A n \in Natives : \A k \in 1..Len(exits[n]) : exits[n][k] \in {"thread_exited", "flush"}
      BY ElementOfSeq DEF IInv, StateTyped
    <2>2. ASSUME NEW i \in 1..Len(traces)
          PROVE  /\ traces[i].id \in 1..Len(threads) /\ traces[i].policy \in Policies
                 /\ Len(traces[i].open) < BatchSize /\ Len(traces[i].ready) <= Capacity
      BY InTrace, TraceFacts DEF IInv, StateTyped, TracePerThread
    <2>3. \A k \in 1..Len(queues) : queues[k] \in 1..Len(traces)
      BY ElementOfSeq DEF IInv, StateTyped
    <2> QED BY <2>1, <2>2, <2>3 DEF IInv, StateTyped, TypeOK
  <1>2. OneThreadPerId
    <2> SUFFICES ASSUME NEW i \in 1..MaxLives, NEW k \in 1..Len(accepted[i])
                 PROVE  accepted[i][k] = <<accepted[i][1][1], k>>
      BY DEF OneThreadPerId
    <2>1. Len(traces) \in Nat /\ Len(accepted[i]) \in Nat
      BY LenProperties DEF IInv, StateTyped, Batch
    <2>2. i \in 1..Len(traces)
      <3>1. accepted[i] # <<>>
        BY EmptySeq
      <3>2. ~(i > Len(traces))
        BY <3>1 DEF IInv, TracesInOrder
      <3> QED BY <3>2, <2>1, LivesAssumption
    <2>3. PICK l \in 1..MaxLives, c \in Nat : Holds(traces[i], accepted[i], l, c)
      BY <2>2 DEF IInv, TracesInOrder
    <2>4. \A j \in 1..Len(accepted[i]) : accepted[i][j] = <<l, 0 + j>>
      BY <2>3 DEF Holds, Consecutive, Numbered
    <2>5. 1 \in 1..Len(accepted[i]) /\ 0 + k = k
      BY <2>1
    <2>6. accepted[i][k] = <<l, k>> /\ accepted[i][1][1] = l
      BY <2>4, <2>5
    <2> QED BY <2>6
  <1>3. CompleteIsPublished
    BY DEF IInv
  <1> QED BY <1>1, <1>2, <1>3 DEF CallsAttributed

\* Whatever threads are started and end, whichever native identifiers the system
\* gives them again and whenever the collector reads: read_collected gives the
\* calls of one thread under one identifier, from its first call on and in order,
\* and thread_monitor reports a thread complete only after the flush of its exit
\* published its last buffer.
THEOREM CallsTrue ==
    Spec => []CallsAttributed
  <1>1. Init => IInv
    BY Initially
  <1>2. IInv /\ [Next]_vars => IInv'
    BY Preserved
  <1>3. IInv => CallsAttributed
    BY InvariantSuffices
  <1> QED BY <1>1, <1>2, <1>3, PTL DEF Spec

=================================================================================
