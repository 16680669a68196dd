--------------------------- MODULE ComponentProofs ---------------------------
(* Proofs about components that share no state: the requests and polls of      *)
(* PrivateQueue, for any set of requests; the collector's life in its process  *)
(* of Instance, for any set of threads; the names and the list of functions of *)
(* SymbolTables, for any modules and symbols; the jumps of a function moved by *)
(* BinaryTranslation, for any function; the tree TableModel shows and the rows *)
(* it tracks, for any rows; the samples and quantiles of Histogram, for any    *)
(* scales; the return stack of CallsCollectorThread and what its trace tells,  *)
(* for any calls.                                                              *)
EXTENDS PrivateQueue, Instance, CallsCollectorThread, SymbolTables, BinaryTranslation, TableModel, Histogram,
        TLAPS, SequenceTheorems, FiniteSetTheorems, WellFoundedInduction

-----------------------------------------------------------------------------
(* private_queue: types.                                                     *)

Stages == {"none", "made", "destroying", "destroyed"}
PollState == [exists : BOOLEAN, enabled : BOOLEAN, scheduled : Nat, pending : BOOLEAN]
Places == {"idle", "entering", "operating", "delivering", "leaving"}

PrivateTypeOK ==
  /\ request \in [Requests -> Stages]
  /\ block \in [Requests -> [alive : BOOLEAN, mutex : {"free", "worker"}]]
  /\ tasks \in Seq(Requests)
  /\ worker \in [at : Places, request : Requests \cup {None}]
  /\ delivered \in Seq(Requests)
  /\ ready \in Requests \cup {None}
  /\ told \in SUBSET Requests
  /\ frontend \in {"open", "closing", "closed"}
  /\ records \in BOOLEAN
  /\ poll \in PollState

\* What is queued, run or delivered belongs to a request that was made.
WasMade ==
  /\ \A k \in 1..Len(tasks) : request[tasks[k]] # "none"
  /\ \A k \in 1..Len(delivered) : request[delivered[k]] # "none"
  /\ worker.at # "idle" => worker.request \in Requests /\ request[worker.request] # "none"

\* The worker holds the mutex of a request while it runs its operation, and has
\* found it alive; only the destructor ends alive, as the last thing of all.
HeldWhileRun ==
  /\ worker.at \in {"operating", "delivering", "leaving"} => block[worker.request].mutex = "worker"
  /\ worker.at \in {"operating", "delivering"} => block[worker.request].alive
  /\ \A r \in Requests : block[r].alive <=> request[r] # "destroyed"

\* The database goes after all requests.
RecordsLast ==
  /\ records <=> frontend # "closed"
  /\ frontend = "closed" => \A r \in Requests : request[r] \in {"none", "destroyed"}

\* Only a poll that exists is enabled.
EnabledExists == poll.enabled => poll.exists

PrivateInv == PrivateTypeOK /\ WasMade /\ HeldWhileRun /\ RecordsLast /\ EnabledExists /\ PollingGoesOn

LEMMA PrivateInit == PrivateQueueInit => PrivateInv
  BY RequestsAssumption DEF PollState, PrivateQueueInit, PrivateInv, PrivateTypeOK, Stages, Places, WasMade, HeldWhileRun,
     RecordsLast, EnabledExists, PollingGoesOn

\* What the invariant says of requests, blocks and worker; the poll is apart.
RequestInv == PrivateTypeOK /\ WasMade /\ HeldWhileRun /\ RecordsLast

LEMMA ApartmentStep ==
  ASSUME RequestInv, NEW r \in Requests, MakeRequest(r) \/ ReleaseRequest(r) \/ DestroyRequest(r)
  PROVE  RequestInv'
  <1>1. CASE MakeRequest(r)
    <2>0. Len(tasks) \in Nat
      BY LenProperties DEF RequestInv, PrivateTypeOK
    <2>1. tasks' \in Seq(Requests) /\ Len(tasks') = Len(tasks) + 1
          /\ \A k \in 1..Len(tasks') : tasks'[k] = IF k <= Len(tasks) THEN tasks[k] ELSE r
      BY <1>1, AppendProperties DEF MakeRequest, RequestInv, PrivateTypeOK
    <2>2. PrivateTypeOK'
      BY <1>1, <2>1 DEF MakeRequest, RequestInv, PrivateTypeOK, Stages
    <2>3. WasMade'
      <3>1. \A q \in Requests : request[q] # "none" => request'[q] # "none"
        BY <1>1 DEF MakeRequest, RequestInv, PrivateTypeOK
      <3>2. \A k \in 1..Len(tasks') : request'[tasks'[k]] # "none"
        <4> SUFFICES ASSUME NEW k \in 1..Len(tasks') PROVE request'[tasks'[k]] # "none"
          OBVIOUS
        <4>1. CASE k <= Len(tasks)
          <5>1. tasks'[k] = tasks[k] /\ k \in 1..Len(tasks)
            BY <2>0, <2>1, <4>1
          <5>2. tasks[k] \in Requests /\ request[tasks[k]] # "none"
            BY <5>1, ElementOfSeq DEF RequestInv, PrivateTypeOK, WasMade
          <5> QED BY <3>1, <5>1, <5>2
        <4>2. CASE ~(k <= Len(tasks))
          BY <1>1, <2>1, <4>2 DEF MakeRequest, RequestInv, PrivateTypeOK
        <4> QED BY <4>1, <4>2
      <3>3. \A k \in 1..Len(delivered) : delivered[k] \in Requests
        BY ElementOfSeq DEF RequestInv, PrivateTypeOK
      <3> QED BY <1>1, <3>1, <3>2, <3>3 DEF MakeRequest, RequestInv, WasMade
    <2>4. HeldWhileRun'
      BY <1>1 DEF MakeRequest, RequestInv, PrivateTypeOK, HeldWhileRun
    <2>5. RecordsLast'
      BY <1>1 DEF MakeRequest, RequestInv, PrivateTypeOK, RecordsLast
    <2> QED BY <2>2, <2>3, <2>4, <2>5 DEF RequestInv
  <1>2. CASE ReleaseRequest(r) \/ DestroyRequest(r)
    <2>0. /\ \A q \in Requests : request[q] # "none" => request'[q] # "none"
          /\ UNCHANGED <<tasks, delivered, worker>>
      BY <1>2 DEF ReleaseRequest, DestroyRequest, RequestInv, PrivateTypeOK, workerVars
    <2>1. PrivateTypeOK'
      <3>1. CASE ReleaseRequest(r)
        BY <3>1 DEF ReleaseRequest, RequestInv, PrivateTypeOK, Stages, workerVars
      <3>2. CASE DestroyRequest(r)
        BY <3>2 DEF DestroyRequest, RequestInv, PrivateTypeOK, Stages, workerVars
      <3> QED BY <1>2, <3>1, <3>2
    <2>2. WasMade'
      <3>1. /\ \A k \in 1..Len(delivered) : delivered[k] \in Requests
            /\ \A k \in 1..Len(tasks) : tasks[k] \in Requests
        BY ElementOfSeq DEF RequestInv, PrivateTypeOK
      <3> QED BY <2>0, <3>1 DEF RequestInv, WasMade
    <2>3. HeldWhileRun'
      <3>1. CASE ReleaseRequest(r)
        BY <3>1 DEF ReleaseRequest, RequestInv, PrivateTypeOK, HeldWhileRun, workerVars
      <3>2. CASE DestroyRequest(r)
        <4>1. /\ block'[r].alive = FALSE /\ request'[r] = "destroyed" /\ block[r].mutex = "free"
              /\ \A q \in Requests : q # r => block'[q] = block[q] /\ request'[q] = request[q]
              /\ worker' = worker
          BY <3>2 DEF DestroyRequest, RequestInv, PrivateTypeOK, workerVars
        <4>2. worker.at \in {"operating", "delivering", "leaving"} =>
                 worker.request \in Requests /\ worker.request # r
          BY <4>1 DEF RequestInv, HeldWhileRun, WasMade
        <4> QED BY <4>1, <4>2 DEF RequestInv, HeldWhileRun
      <3> QED BY <1>2, <3>1, <3>2
    <2>4. RecordsLast'
      BY <1>2 DEF ReleaseRequest, DestroyRequest, RequestInv, PrivateTypeOK, RecordsLast, workerVars
    <2> QED BY <2>1, <2>2, <2>3, <2>4 DEF RequestInv
  <1> QED BY <1>1, <1>2

LEMMA ProgressStep ==
  ASSUME RequestInv, RunProgress \/ ReadyReturns \/ CloseFrontend \/ ReleaseRecords
  PROVE  RequestInv'
  <1>1. CASE RunProgress
    <2>1. /\ delivered' \in Seq(Requests) /\ Head(delivered) \in Requests
          /\ Len(delivered') = Len(delivered) - 1
          /\ \A k \in 1..Len(delivered') : delivered'[k] = delivered[k + 1]
      BY <1>1, HeadTailProperties DEF RunProgress, RequestInv, PrivateTypeOK
    <2>2. PrivateTypeOK'
      BY <1>1, <2>1 DEF RunProgress, RequestInv, PrivateTypeOK, workerVars
    <2>3. WasMade'
      <3>1. \A k \in 1..Len(delivered') : k + 1 \in 1..Len(delivered)
        BY <2>1, LenProperties DEF RequestInv, PrivateTypeOK
      <3> QED BY <1>1, <2>1, <3>1 DEF RunProgress, RequestInv, WasMade, workerVars
    <2> QED BY <1>1, <2>2, <2>3 DEF RunProgress, RequestInv, HeldWhileRun, RecordsLast, workerVars
  <1>2. CASE ReadyReturns \/ CloseFrontend \/ ReleaseRecords
    <2>1. PrivateTypeOK'
      BY <1>2 DEF PollState, ReadyReturns, CloseFrontend, ReleaseRecords, RequestInv, PrivateTypeOK, workerVars
    <2>2. WasMade' /\ HeldWhileRun'
      BY <1>2 DEF ReadyReturns, CloseFrontend, ReleaseRecords, RequestInv, WasMade, HeldWhileRun, workerVars
    <2>3. RecordsLast'
      BY <1>2 DEF ReadyReturns, CloseFrontend, ReleaseRecords, RequestInv, PrivateTypeOK, RecordsLast, Stages, Free
    <2> QED BY <2>1, <2>2, <2>3 DEF RequestInv
  <1> QED BY <1>1, <1>2

LEMMA WorkerStep ==
  ASSUME RequestInv, WorkerNext
  PROVE  RequestInv'
  <1>1. CASE TakeTask
    <2>1. /\ tasks' \in Seq(Requests) /\ Head(tasks) \in Requests /\ Head(tasks) = tasks[1]
          /\ Len(tasks') = Len(tasks) - 1 /\ Len(tasks) \in Nat \ {0}
          /\ \A k \in 1..Len(tasks') : tasks'[k] = tasks[k + 1]
      BY <1>1, HeadTailProperties, LenProperties, EmptySeq DEF TakeTask, RequestInv, PrivateTypeOK
    <2>2. PrivateTypeOK'
      BY <1>1, <2>1 DEF TakeTask, RequestInv, PrivateTypeOK, Places, requestVars
    <2>3. WasMade'
      <3>1. \A k \in 1..Len(tasks') : k + 1 \in 1..Len(tasks)
        BY <2>1
      <3>2. request[Head(tasks)] # "none"
        BY <2>1 DEF RequestInv, WasMade
      <3> QED BY <1>1, <2>1, <3>1, <3>2 DEF TakeTask, RequestInv, WasMade, requestVars
    <2> QED BY <1>1, <2>2, <2>3 DEF TakeTask, RequestInv, HeldWhileRun, RecordsLast, requestVars
  <1>2. CASE LockBlock
    <2>1. worker.request \in Requests
      BY <1>2 DEF LockBlock, RequestInv, WasMade
    <2>2. PrivateTypeOK'
      BY <1>2, <2>1 DEF LockBlock, RequestInv, PrivateTypeOK, Places
    <2>3. WasMade' /\ RecordsLast'
      BY <1>2, <2>1 DEF LockBlock, RequestInv, PrivateTypeOK, WasMade, RecordsLast
    <2>4. HeldWhileRun'
      BY <1>2, <2>1 DEF LockBlock, RequestInv, PrivateTypeOK, HeldWhileRun
    <2> QED BY <2>2, <2>3, <2>4 DEF RequestInv
  <1>3. CASE Operate
    BY <1>3 DEF Operate, RequestInv, PrivateTypeOK, Places, WasMade, HeldWhileRun, RecordsLast, requestVars
  <1>4. CASE deliver
    <2>1. worker.request \in Requests /\ request[worker.request] # "none"
      BY <1>4 DEF deliver, RequestInv, WasMade
    <2>2. delivered' \in Seq(Requests) /\ Len(delivered') = Len(delivered) + 1
          /\ \A k \in 1..Len(delivered') : delivered'[k] = IF k <= Len(delivered) THEN delivered[k] ELSE worker.request
      BY <1>4, <2>1, AppendProperties DEF deliver, RequestInv, PrivateTypeOK
    <2>3. PrivateTypeOK'
      BY <1>4, <2>2 DEF deliver, RequestInv, PrivateTypeOK, Places
    <2>4. WasMade'
      <3>1. \A k \in 1..Len(delivered') : k <= Len(delivered) => k \in 1..Len(delivered)
        BY <2>2, LenProperties DEF RequestInv, PrivateTypeOK
      <3>2. \A k \in 1..Len(delivered') : request[delivered'[k]] # "none"
        BY <2>1, <2>2, <3>1 DEF RequestInv, WasMade
      <3> QED BY <1>4, <2>1, <3>2 DEF deliver, RequestInv, PrivateTypeOK, WasMade
    <2>5. HeldWhileRun' /\ RecordsLast'
      BY <1>4 DEF deliver, RequestInv, PrivateTypeOK, HeldWhileRun, RecordsLast
    <2> QED BY <2>3, <2>4, <2>5 DEF RequestInv
  <1>5. CASE UnlockBlock
    <2>1. worker.request \in Requests
      BY <1>5 DEF UnlockBlock, RequestInv, WasMade
    <2>2. PrivateTypeOK'
      BY <1>5, <2>1 DEF UnlockBlock, RequestInv, PrivateTypeOK, Places
    <2>3. WasMade' /\ HeldWhileRun' /\ RecordsLast'
      BY <1>5, <2>1 DEF UnlockBlock, RequestInv, PrivateTypeOK, WasMade, HeldWhileRun, RecordsLast
    <2> QED BY <2>2, <2>3 DEF RequestInv
  <1> QED BY <1>1, <1>2, <1>3, <1>4, <1>5 DEF WorkerNext

PollNext ==
  \/ \E value \in BOOLEAN : enable(value)
  \/ PollTask \/ UpdateAnswered \/ ClearStatistics \/ DestroyPoll

LEMMA ScheduledPoll ==
  ASSUME NEW p \in PollState
  PROVE  /\ Schedule(p) \in PollState
         /\ Schedule(p).exists = p.exists /\ Schedule(p).enabled = p.enabled
         /\ Schedule(p).pending = p.pending /\ Schedule(p).scheduled > 0
  BY DEF Schedule, PollState

LEMMA InvalidatedPoll ==
  ASSUME NEW p \in PollState
  PROVE  /\ Invalidated(p) \in PollState
         /\ Invalidated(p).exists = p.exists /\ Invalidated(p).enabled = p.enabled
         /\ Invalidated(p).pending = p.pending
         /\ p.enabled => Invalidated(p).scheduled > 0
  <1>1. CASE p.enabled
    BY <1>1, ScheduledPoll DEF Invalidated
  <1>2. CASE ~p.enabled
    BY <1>2 DEF Invalidated
  <1> QED BY <1>1, <1>2

LEMMA PollStep ==
  ASSUME PrivateTypeOK, EnabledExists, PollingGoesOn, PollNext
  PROVE  /\ poll' \in PollState /\ EnabledExists' /\ PollingGoesOn'
         /\ UNCHANGED <<requestVars, workerVars>>
  <1>0. poll \in PollState
    BY DEF PrivateTypeOK
  <1>1. ASSUME NEW value \in BOOLEAN, enable(value)
        PROVE  poll' \in PollState /\ EnabledExists' /\ PollingGoesOn'
    <2> DEFINE q == [poll EXCEPT !.enabled = TRUE]
    <2>1. poll' = Schedule(q) \/ poll' = [poll EXCEPT !.enabled = FALSE]
      BY <1>1 DEF enable
    <2>2. poll.exists
      BY <1>1 DEF enable
    <2>3. q \in PollState /\ q.exists = poll.exists
      BY <1>0 DEF PollState
    <2>4. CASE poll' = Schedule(q)
      <3> HIDE DEF q
      <3>1. poll' \in PollState /\ poll'.exists = poll.exists /\ poll'.scheduled > 0
        BY <2>3, <2>4, ScheduledPoll
      <3> QED BY <2>2, <3>1 DEF EnabledExists, PollingGoesOn
    <2>5. CASE poll' = [poll EXCEPT !.enabled = FALSE]
      <3>1. poll' \in PollState /\ poll'.enabled = FALSE
        BY <1>0, <2>5 DEF PollState
      <3> QED BY <3>1 DEF EnabledExists, PollingGoesOn
    <2> QED BY <2>1, <2>4, <2>5
  <1>2. ASSUME PollTask PROVE poll' \in PollState /\ EnabledExists' /\ PollingGoesOn'
    <2>1. PICK b \in BOOLEAN : b = (poll.pending \/ (poll.exists /\ frontend = "open"))
      OBVIOUS
    <2>2. poll' = [poll EXCEPT !.scheduled = poll.scheduled - 1, !.pending = b] /\ poll.scheduled > 0
      BY <1>2, <2>1 DEF PollTask
    <2>3. poll.scheduled - 1 \in Nat
      BY <1>0, <2>2 DEF PollState
    <2>4. poll' \in PollState /\ poll'.exists = poll.exists /\ poll'.enabled = poll.enabled /\ poll'.pending = b
      <3>1. ASSUME NEW n \in Nat, poll' = [poll EXCEPT !.scheduled = n, !.pending = b]
            PROVE  poll' \in PollState /\ poll'.exists = poll.exists /\ poll'.enabled = poll.enabled /\ poll'.pending = b
        BY <1>0, <3>1 DEF PollState
      <3> QED BY <2>2, <2>3, <3>1
    <2>5. frontend' = frontend
      BY <1>2 DEF PollTask, requestVars
    <2>6. EnabledExists'
      BY <2>4 DEF EnabledExists
    <2>7. PollingGoesOn'
      BY <2>1, <2>4, <2>5 DEF PollingGoesOn, EnabledExists
    <2> QED BY <2>4, <2>6, <2>7
  <1>3. ASSUME UpdateAnswered PROVE poll' \in PollState /\ EnabledExists' /\ PollingGoesOn'
    <2>1. poll' = [Invalidated(poll) EXCEPT !.pending = FALSE]
      BY <1>3 DEF UpdateAnswered
    <2>2. /\ poll' \in PollState /\ poll'.exists = poll.exists /\ poll'.enabled = poll.enabled
          /\ poll.enabled => poll'.scheduled > 0
      <3>1. /\ poll' \in PollState /\ poll'.exists = Invalidated(poll).exists
            /\ poll'.enabled = Invalidated(poll).enabled /\ poll'.scheduled = Invalidated(poll).scheduled
        BY <1>0, <2>1, InvalidatedPoll DEF PollState
      <3> QED BY <1>0, <3>1, InvalidatedPoll
    <2> QED BY <2>2 DEF EnabledExists, PollingGoesOn
  <1>4. ASSUME ClearStatistics PROVE poll' \in PollState /\ EnabledExists' /\ PollingGoesOn'
    <2>1. poll' = Invalidated(poll)
      BY <1>4 DEF ClearStatistics
    <2> QED BY <1>0, <2>1, InvalidatedPoll DEF EnabledExists, PollingGoesOn
  <1>5. ASSUME DestroyPoll PROVE poll' \in PollState /\ EnabledExists' /\ PollingGoesOn'
    <2>1. poll' \in PollState /\ poll'.enabled = FALSE
      BY <1>0, <1>5 DEF DestroyPoll, PollState
    <2> QED BY <2>1 DEF EnabledExists, PollingGoesOn
  <1>6. UNCHANGED <<requestVars, workerVars>>
    BY DEF PollNext, enable, PollTask, UpdateAnswered, ClearStatistics, DestroyPoll
  <1> QED BY <1>1, <1>2, <1>3, <1>4, <1>5, <1>6 DEF PollNext

LEMMA PrivateStep == PrivateInv /\ [PrivateQueueNext]_privateVars => PrivateInv'
  <1> SUFFICES ASSUME PrivateInv, [PrivateQueueNext]_privateVars PROVE PrivateInv'
    OBVIOUS
  <1>0. RequestInv
    BY DEF PrivateInv, RequestInv
  <1>1. ASSUME NEW r \in Requests, MakeRequest(r) \/ ReleaseRequest(r) \/ DestroyRequest(r) PROVE PrivateInv'
    <2>1. RequestInv'
      BY <1>0, <1>1, ApartmentStep
    <2>2. UNCHANGED <<poll, frontend>>
      BY <1>1 DEF MakeRequest, ReleaseRequest, DestroyRequest
    <2> QED BY <2>1, <2>2 DEF PrivateInv, RequestInv, EnabledExists, PollingGoesOn
  <1>2. CASE RunProgress \/ ReadyReturns \/ CloseFrontend \/ ReleaseRecords
    <2>1. RequestInv'
      BY <1>0, <1>2, ProgressStep
    <2>2. EnabledExists' /\ PollingGoesOn'
      BY <1>2 DEF RunProgress, ReadyReturns, CloseFrontend, ReleaseRecords, PrivateInv, PrivateTypeOK,
         EnabledExists, PollingGoesOn, PollState
    <2> QED BY <2>1, <2>2 DEF PrivateInv, RequestInv
  <1>3. CASE WorkerNext
    <2>1. RequestInv'
      BY <1>0, <1>3, WorkerStep
    <2>2. UNCHANGED <<poll, frontend>>
      BY <1>3 DEF WorkerNext, TakeTask, LockBlock, Operate, deliver, UnlockBlock, requestVars
    <2> QED BY <2>1, <2>2 DEF PrivateInv, RequestInv, EnabledExists, PollingGoesOn
  <1>4. CASE PollNext
    <2>1. /\ poll' \in PollState
          /\ EnabledExists' /\ PollingGoesOn' /\ UNCHANGED <<requestVars, workerVars>>
      BY <1>4, PollStep DEF PrivateInv
    <2> QED BY <2>1 DEF PrivateInv, PrivateTypeOK, WasMade, HeldWhileRun, RecordsLast, requestVars, workerVars
  <1>5. CASE UNCHANGED privateVars
    BY <1>5 DEF PrivateInv, PrivateTypeOK, WasMade, HeldWhileRun, RecordsLast, EnabledExists, PollingGoesOn,
       privateVars, requestVars, workerVars
  <1> QED BY <1>1, <1>2, <1>3, <1>4, <1>5 DEF PrivateQueueNext, PollNext

LEMMA PrivateInvariant == PrivateQueueSpec => []PrivateInv
  BY PrivateInit, PrivateStep, PTL DEF PrivateQueueSpec

\* While the worker runs an operation (private_worker_queue::schedule), neither
\* its request nor the database it writes from is freed, however many requests
\* there are and whenever the apartment releases them.
THEOREM OperationSafe == PrivateQueueSpec => []OperationOnLiving
  <1>1. PrivateInv => OperationOnLiving
    BY DEF PrivateInv, PrivateTypeOK, Stages, WasMade, HeldWhileRun, RecordsLast, OperationOnLiving
  <1> QED BY <1>1, PrivateInvariant, PTL

\* Enabled polling never stops by itself: invalidate schedules a poll before the
\* request it answers is released.
THEOREM PollingKept == PrivateQueueSpec => []PollingGoesOn
  <1>1. PrivateInv => PollingGoesOn
    BY DEF PrivateInv
  <1> QED BY <1>1, PrivateInvariant, PTL

\* deliver calls ready, after a look at alive without the mutex, only for a
\* request that nobody has released.
THEOREM ReadyWanted == PrivateQueueSpec => ReadyWhileWanted
  <1>1. PrivateInv /\ [PrivateQueueNext]_privateVars
          => [ready' \notin {ready, None} => request[ready'] = "made"]_privateVars
    <2> SUFFICES ASSUME PrivateInv, PrivateQueueNext, ready' \notin {ready, None}
                 PROVE  request[ready'] = "made"
      BY DEF privateVars
    <2>1. RunProgress
      BY DEF PrivateQueueNext, MakeRequest, ReleaseRequest, DestroyRequest, ReadyReturns, CloseFrontend,
         ReleaseRecords, WorkerNext, TakeTask, LockBlock, Operate, deliver, UnlockBlock, enable, PollTask,
         UpdateAnswered, ClearStatistics, DestroyPoll, requestVars, workerVars
    <2>2. Head(delivered) \in Requests /\ Head(delivered) = delivered[1] /\ 1 \in 1..Len(delivered)
      BY <2>1, HeadTailProperties, LenProperties, EmptySeq DEF RunProgress, PrivateInv, PrivateTypeOK
    <2>3. ready' = Head(delivered) /\ block[Head(delivered)].alive
      BY <2>1 DEF RunProgress
    <2> QED BY <2>1, <2>2, <2>3 DEF RunProgress, Free, Destroying, PrivateInv, PrivateTypeOK, Stages, WasMade, HeldWhileRun
  <1> QED BY <1>1, PrivateInvariant, PTL DEF PrivateQueueSpec, ReadyWhileWanted

-----------------------------------------------------------------------------
(* The collector in its process.                                             *)

Steps == {"constructing", "warmup", "discard", "measure", "analyze", "starting", "hooking", "main"}

InstanceTypeOK ==
  /\ members \in Seq({"logger", "monitor", "collector", "patches"})
  /\ pointer \in BOOLEAN
  /\ at \in Steps
  /\ tracking \in SUBSET ProgramThreads
  /\ exiting \in [ProgramThreads -> {"no", "terminating", "joining", "exit", "killed"}]
  /\ early \in BOOLEAN
  /\ process \in {"running", "killing", "ended"}

\* While the process runs, the members are there in their order, and all of them
\* once the pointer is public; nobody tracks before that, nor, once the threads
\* were killed, after the first of them is destroyed.
MembersInOrder ==
  /\ process = "running" => \A k \in 1..Len(members) : members[k] = Order[k]
  /\ process = "running" /\ at # "constructing" => Len(members) = Len(Order)
  /\ pointer => at # "constructing"
  /\ tracking # {} => pointer /\ (process = "running" \/ members = Order)

\* Unless ExitProcess was called before the constructor's end, who has left
\* terminate has left no worker behind.
ExitInOrder ==
  /\ ~early /\ at # "main" => process = "running" /\ \A t \in ProgramThreads : exiting[t] = "no"
  /\ ~early => \A t \in ProgramThreads : exiting[t] = "exit" => app = "gone"
  /\ ~early /\ process # "running" => app = "gone"
  /\ process # "running" => \A t \in ProgramThreads : exiting[t] \in {"exit", "killed"}

\* The hook is taken off by the only thread that may call ExitProcess.
OneExits == \A t, u \in Exiting : t = u
HookedUntilExit == ~early /\ at = "main" /\ ~hooked => \A t \in Exiting \cap ProgramThreads : exiting[t] # "no"

LifeInv == InstanceTypeOK /\ MembersInOrder
ExitInv == InstanceTypeOK /\ ExitInOrder /\ HookedUntilExit

LEMMA OrderFacts == Len(Order) = 4 /\ Order[3] = "collector"
                    /\ \A k \in 1..4 : Order[k] \in {"logger", "monitor", "collector", "patches"}
  BY DEF Order

LEMMA InstanceTypeInit == InstanceInit => InstanceTypeOK
  <1> SUFFICES ASSUME InstanceInit PROVE InstanceTypeOK
    OBVIOUS
  <1>1. members \in Seq({"logger", "monitor", "collector", "patches"})
    BY EmptySeq DEF InstanceInit
  <1>2. exiting \in [ProgramThreads -> {"no", "terminating", "joining", "exit", "killed"}]
    BY DEF InstanceInit
  <1> QED BY <1>1, <1>2 DEF InstanceInit, InstanceTypeOK, Steps

LEMMA InstanceTypeStep == InstanceTypeOK /\ [InstanceNext]_instanceVars => InstanceTypeOK'
  <1> SUFFICES ASSUME InstanceTypeOK, [InstanceNext]_instanceVars PROVE InstanceTypeOK'
    OBVIOUS
  <1>1. CASE ConstructMember
    <2>1. Len(members) + 1 \in 1..4
      BY <1>1, OrderFacts, LenProperties DEF ConstructMember, InstanceTypeOK
    <2>2. members' \in Seq({"logger", "monitor", "collector", "patches"})
      BY <1>1, <2>1, OrderFacts, AppendProperties DEF ConstructMember, InstanceTypeOK
    <2> QED BY <1>1, <2>2 DEF ConstructMember, InstanceTypeOK, exitVars
  <1>2. CASE PublishCollector \/ RunLoad \/ DiscardWarmup \/ Analyze \/ StartApp \/ HookExit
    BY <1>2 DEF PublishCollector, RunLoad, DiscardWarmup, Analyze, StartApp, HookExit, InstanceTypeOK, Steps, exitVars
  <1>3. ASSUME NEW t \in ProgramThreads, EnterTrack(t) \/ LeaveTrack(t) PROVE InstanceTypeOK'
    BY <1>3 DEF EnterTrack, LeaveTrack, InstanceTypeOK, exitVars
  <1>4. ASSUME NEW t \in ProgramThreads, ExitProcess(t) \/ terminate(t) \/ Joined(t) PROVE InstanceTypeOK'
    BY <1>4 DEF ExitProcess, terminate, Joined, InstanceTypeOK
  <1>5. ASSUME NEW t \in ProgramThreads, KillThreads(t) PROVE InstanceTypeOK'
    BY <1>5 DEF KillThreads, InstanceTypeOK
  <1>6. CASE DestroyMember
    <2>1. members' \in Seq({"logger", "monitor", "collector", "patches"})
      <3>1. Len(members) \in Nat /\ Len(members) - 1 \in 0..Len(members)
        BY <1>6, LenProperties, EmptySeq DEF DestroyMember, InstanceTypeOK
      <3> QED BY <1>6, <3>1, SubSeqProperties DEF DestroyMember, InstanceTypeOK
    <2> QED BY <1>6, <2>1 DEF DestroyMember, InstanceTypeOK, exitVars
  <1>7. CASE EndProcess
    BY <1>7 DEF EndProcess, InstanceTypeOK
  <1>8. CASE UNCHANGED instanceVars
    BY <1>8 DEF instanceVars, InstanceTypeOK
  <1> QED BY <1>1, <1>2, <1>3, <1>4, <1>5, <1>6, <1>7, <1>8 DEF InstanceNext, LoaderNext

LEMMA LifeStep == LifeInv /\ [InstanceNext]_instanceVars => MembersInOrder'
  <1> SUFFICES ASSUME LifeInv, [InstanceNext]_instanceVars PROVE MembersInOrder'
    OBVIOUS
  <1>0. Len(members) \in Nat
    BY LenProperties DEF LifeInv, InstanceTypeOK
  <1>1. CASE ConstructMember
    <2>1. /\ Len(members') = Len(members) + 1
          /\ \A k \in 1..Len(members') : members'[k] = IF k <= Len(members) THEN members[k] ELSE Order[Len(members) + 1]
      <3>1. Order[Len(members) + 1] \in {"logger", "monitor", "collector", "patches"}
        BY <1>0, <1>1, OrderFacts DEF ConstructMember
      <3> QED BY <1>0, <1>1, <3>1, AppendProperties DEF ConstructMember, LifeInv, InstanceTypeOK
    <2>2. process = "running" => \A k \in 1..Len(members') : members'[k] = Order[k]
      BY <1>0, <2>1 DEF LifeInv, MembersInOrder
    <2> QED BY <1>1, <2>1, <2>2 DEF ConstructMember, LifeInv, MembersInOrder, exitVars
  <1>2. CASE PublishCollector \/ RunLoad \/ DiscardWarmup \/ Analyze \/ StartApp \/ HookExit
    BY <1>2 DEF PublishCollector, RunLoad, DiscardWarmup, Analyze, StartApp, HookExit, LifeInv, MembersInOrder, exitVars
  <1>3. ASSUME NEW t \in ProgramThreads, EnterTrack(t) \/ LeaveTrack(t) PROVE MembersInOrder'
    BY <1>3 DEF EnterTrack, LeaveTrack, LifeInv, MembersInOrder, exitVars
  <1>4. ASSUME NEW t \in ProgramThreads, ExitProcess(t) \/ terminate(t) \/ Joined(t) PROVE MembersInOrder'
    BY <1>4 DEF ExitProcess, terminate, Joined, LifeInv, MembersInOrder
  <1>5. ASSUME NEW t \in ProgramThreads, KillThreads(t) PROVE MembersInOrder'
    BY <1>5 DEF KillThreads, LifeInv, MembersInOrder
  <1>6. CASE DestroyMember \/ EndProcess
    BY <1>6 DEF DestroyMember, EndProcess, LifeInv, MembersInOrder, exitVars
  <1>7. CASE UNCHANGED instanceVars
    BY <1>7 DEF instanceVars, LifeInv, MembersInOrder
  <1> QED BY <1>1, <1>2, <1>3, <1>4, <1>5, <1>6, <1>7 DEF InstanceNext, LoaderNext

\* An instrumented function that g_collector_ptr lets through finds a collector,
\* whichever threads call and end the process, and whenever they do.
THEOREM TrackSafe == InstanceSpec => []TrackOnLiving
  <1>1. InstanceInit => LifeInv
    <2>1. InstanceInit => Len(members) = 0
      BY DEF InstanceInit
    <2>2. InstanceInit => MembersInOrder
      BY <2>1 DEF InstanceInit, MembersInOrder
    <2> QED BY <2>2, InstanceTypeInit DEF LifeInv
  <1>2. LifeInv /\ [InstanceNext]_instanceVars => LifeInv'
    BY InstanceTypeStep, LifeStep DEF LifeInv
  <1>3. LifeInv => TrackOnLiving
    <2> SUFFICES ASSUME LifeInv, tracking # {} PROVE Constructed("collector")
      BY DEF TrackOnLiving
    <2>1. Len(members) = 4 /\ \A k \in 1..Len(members) : members[k] = Order[k]
      <3>1. CASE process = "running"
        BY <3>1, OrderFacts DEF LifeInv, MembersInOrder
      <3>2. CASE process # "running"
        BY <3>2, OrderFacts DEF LifeInv, MembersInOrder
      <3> QED BY <3>1, <3>2
    <2>2. 3 \in DOMAIN members /\ members[3] = "collector"
      BY <2>1, OrderFacts, LenProperties DEF LifeInv, InstanceTypeOK
    <2> QED BY <2>2 DEF Constructed
  <1> QED BY <1>1, <1>2, <1>3, PTL DEF InstanceSpec

LEMMA ExitStep ==
  ASSUME OneExits, ExitInv, [InstanceNext]_instanceVars
  PROVE  ExitInOrder' /\ HookedUntilExit'
  <1>1. CASE ConstructMember \/ PublishCollector \/ RunLoad \/ DiscardWarmup \/ Analyze \/ StartApp \/ HookExit
    BY <1>1 DEF ConstructMember, PublishCollector, RunLoad, DiscardWarmup, Analyze, StartApp, HookExit,
       ExitInv, ExitInOrder, HookedUntilExit, exitVars
  <1>2. ASSUME NEW t \in ProgramThreads, EnterTrack(t) \/ LeaveTrack(t) PROVE ExitInOrder' /\ HookedUntilExit'
    BY <1>2 DEF EnterTrack, LeaveTrack, ExitInv, ExitInOrder, HookedUntilExit, exitVars
  <1>3. ASSUME NEW t \in ProgramThreads, ExitProcess(t) PROVE ExitInOrder' /\ HookedUntilExit'
    <2>1. process = "running" /\ UNCHANGED <<at, app, process>> /\ early' = (early \/ at # "main")
      BY <1>3 DEF ExitProcess
    <2>2. CASE early'
      BY <2>1, <2>2 DEF ExitInOrder, HookedUntilExit
    <2>3. CASE ~early'
      <3>1. ~early /\ at = "main"
        BY <2>1, <2>3 DEF ExitInv, InstanceTypeOK
      <3>2. hooked
        BY <1>3, <3>1 DEF ExitProcess, ExitInv, HookedUntilExit
      <3>3. exiting'[t] = "terminating" /\ \A u \in ProgramThreads : u # t => exiting'[u] = exiting[u]
        BY <1>3, <3>2 DEF ExitProcess, ExitInv, InstanceTypeOK
      <3>4. HookedUntilExit'
        BY <1>3, <3>3 DEF ExitProcess, OneExits, HookedUntilExit
      <3>5. ExitInOrder'
        BY <2>1, <3>1, <3>3 DEF ExitInv, ExitInOrder
      <3> QED BY <3>4, <3>5
    <2> QED BY <2>2, <2>3
  <1>4. ASSUME NEW t \in ProgramThreads, terminate(t) PROVE ExitInOrder' /\ HookedUntilExit'
    <2>1. /\ exiting'[t] = "joining" /\ exiting[t] = "terminating" /\ app = "running"
          /\ \A u \in ProgramThreads : u # t => exiting'[u] = exiting[u]
          /\ UNCHANGED <<at, process, hooked, early>>
      BY <1>4 DEF terminate, ExitInv, InstanceTypeOK
    <2> QED BY <2>1 DEF ExitInv, ExitInOrder, HookedUntilExit
  <1>5. ASSUME NEW t \in ProgramThreads, Joined(t) PROVE ExitInOrder' /\ HookedUntilExit'
    <2>1. /\ exiting'[t] = "exit" /\ exiting[t] = "joining" /\ app' = "gone"
          /\ \A u \in ProgramThreads : u # t => exiting'[u] = exiting[u]
          /\ UNCHANGED <<at, process, hooked, early>>
      BY <1>5 DEF Joined, ExitInv, InstanceTypeOK
    <2> QED BY <2>1 DEF ExitInv, ExitInOrder, HookedUntilExit
  <1>6. ASSUME NEW t \in ProgramThreads, KillThreads(t) PROVE ExitInOrder' /\ HookedUntilExit'
    BY <1>6 DEF KillThreads, ExitInv, ExitInOrder, HookedUntilExit
  <1>7. CASE DestroyMember \/ EndProcess
    BY <1>7 DEF DestroyMember, EndProcess, ExitInv, ExitInOrder, HookedUntilExit, exitVars
  <1>8. CASE UNCHANGED instanceVars
    BY <1>8 DEF instanceVars, ExitInv, ExitInOrder, HookedUntilExit
  <1> QED BY <1>1, <1>2, <1>3, <1>4, <1>5, <1>6, <1>7, <1>8 DEF InstanceNext, LoaderNext

\* The collector is there from the first call to the last message: once the
\* constructor has ended, the hook of ExitProcess lets the process end only after
\* the worker has. That is so when one thread calls ExitProcess: the hook puts the
\* code back before it waits, and a second caller would pass.
THEOREM CollectorOutlives == ASSUME OneExits PROVE InstanceSpec => []CollectorLivesOn
  <1>1. InstanceInit => ExitInv
    BY InstanceTypeInit DEF InstanceInit, ExitInv, ExitInOrder, HookedUntilExit
  <1>2. ExitInv /\ [InstanceNext]_instanceVars => ExitInv'
    BY InstanceTypeStep, ExitStep DEF ExitInv
  <1>3. ExitInv => ExitAwaitsWorker
    BY DEF ExitInv, ExitInOrder, ExitAwaitsWorker
  <1>4. InstanceSpec => []ExitAwaitsWorker
    BY <1>1, <1>2, <1>3, PTL DEF InstanceSpec
  <1>5. TrackOnLiving /\ ExitAwaitsWorker => CollectorLivesOn
    BY DEF CollectorLivesOn
  <1> QED BY <1>4, <1>5, TrackSafe, PTL

-----------------------------------------------------------------------------
(* Sets of numbers and sequences that list a set.                            *)

\* A permutation of a finite set has each of its elements, once.
LEMMA Permuted ==
  ASSUME NEW S, IsFiniteSet(S), NEW s \in SetToSeqs(S)
  PROVE  /\ ToSet(s) = S /\ s \in Seq(S) /\ Len(s) = Cardinality(S)
         /\ \A i, j \in 1..Len(s) : i # j => s[i] # s[j]
  <1> DEFINE D == 1..Cardinality(S)
  <1>1. s \in [D -> S] /\ \A i, j \in D : i # j => s[i] # s[j]
    BY DEF SetToSeqs
  <1>2. Cardinality(S) \in Nat
    BY FS_CardinalityType
  <1>3. s \in Injection(D, S)
    BY <1>1 DEF Injection, IsInjective
  <1>4. Cardinality(D) = Cardinality(S)
    BY <1>2, FS_Interval
  <1>5. s \in Surjection(D, S)
    BY <1>3, <1>4, FS_Injection
  <1>6. ToSet(s) = S
    BY <1>1, <1>5 DEF ToSet, Surjection
  <1>7. s \in Seq(S) /\ Len(s) = Cardinality(S)
    BY <1>1, <1>2, SeqDef
  <1> QED BY <1>1, <1>6, <1>7

\* A non-empty set of naturals has a least element: the form of induction that
\* the proofs below use, on the set of counterexamples.
LEMMA Least ==
  ASSUME NEW S \in SUBSET Nat, S # {}
  PROVE  \E least \in S : \A y \in S : least <= y
  <1>1. PICK least \in S : \A y \in S : ~(<<y, least>> \in OpToRel(<, Nat))
    BY NatLessThanWellFounded, WFMin
  <1>2. ASSUME NEW y \in S, y < least PROVE FALSE
    <2>1. y \in Nat /\ least \in Nat
      OBVIOUS
    <2>2. <<y, least>> \in OpToRel(<, Nat)
      BY <1>2, <2>1 DEF OpToRel
    <2> QED BY <1>1, <2>2
  <1>3. \A y \in S : least <= y
    BY <1>2
  <1> QED BY <1>3

\* A non-empty bounded set of naturals has a greatest element.
LEMMA Greatest ==
  ASSUME NEW S \in SUBSET Nat, NEW bound \in Nat, S # {}, \A x \in S : x <= bound
  PROVE  Max(S) \in S /\ \A x \in S : x <= Max(S)
  <1> DEFINE Above == {bound - x : x \in S}
  <1>1. Above \in SUBSET Nat /\ Above # {}
    <2>1. \A x \in S : bound - x \in Nat
      OBVIOUS
    <2> QED BY <2>1
  <1>2. PICK least \in Above : \A y \in Above : least <= y
    <2> HIDE DEF Above
    <2> QED BY <1>1, Least
  <1>3. PICK x \in S : least = bound - x
    BY <1>2
  <1>4. \A y \in S : x >= y
    BY <1>2, <1>3
  <1>5. \E z \in S : \A y \in S : z >= y
    BY <1>4
  <1>6. Max(S) \in S /\ \A y \in S : Max(S) >= y
    BY <1>5 DEF Max
  <1> QED BY <1>6

\* The least and the greatest number of a set.
LEMMA MinIs ==
  ASSUME NEW S \in SUBSET Int, NEW x \in S, \A y \in S : x <= y
  PROVE  Min(S) = x
  <1>1. \E z \in S : \A y \in S : z <= y
    OBVIOUS
  <1>2. PICK w \in S : w = Min(S) /\ \A y \in S : w <= y
    BY <1>1 DEF Min
  <1>3. w <= x /\ x <= w /\ w \in Int /\ x \in Int
    BY <1>2
  <1> QED BY <1>2, <1>3

LEMMA MaxIs ==
  ASSUME NEW S \in SUBSET Int, NEW x \in S, \A y \in S : y <= x
  PROVE  Max(S) = x
  <1>1. \E z \in S : \A y \in S : z >= y
    OBVIOUS
  <1>2. PICK w \in S : w = Max(S) /\ \A y \in S : w >= y
    BY <1>1 DEF Max
  <1>3. w <= x /\ x <= w /\ w \in Int /\ x \in Int
    BY <1>2
  <1> QED BY <1>2, <1>3

-----------------------------------------------------------------------------
(* The return stack of a thread.                                            *)

\* Who leaves frames does not call before the frame landed in has returned.
\* (Where it does, a call from the place of a frame that was left is taken for
\* a tail call, and its return address is not kept.)
NoCallsAfterSkip == ~(Skips /\ CallsAfterSkip)

\* The stack grows down, from the sentinel.
StackOrdered ==
    /\ return_stack[1].stack_ptr = StackSize + 1
    /\ \A i, j \in 1..Len(return_stack) : i < j => return_stack[i].stack_ptr > return_stack[j].stack_ptr

\* Entries without a frame are there only after frames were left, and then the
\* frame landed in is an instrumented one.
Balanced ==
    /\ ~skipped => Len(return_stack) = Len(frames) + 1
    /\ skipped => Skips

ReturnInv == ReturnStackSound /\ StackOrdered /\ Balanced

LEMMA ReturnLengths ==
    ASSUME ReturnInv
    PROVE  /\ Len(frames) \in Nat /\ Len(return_stack) \in Nat /\ Len(return_stack) > Len(frames)
           /\ \A i \in 1..Len(frames) : frames[i] \in Frame
           /\ \A i \in 1..Len(return_stack) : return_stack[i] \in Entry
           /\ \A i \in 1..Len(frames) : frames[i].stack_ptr \in 1..StackSize /\ frames[i].return_address \in Nat
           /\ \A i \in 1..Len(return_stack) : return_stack[i].stack_ptr \in 1..(StackSize + 1)
           /\ StackSize \in Nat
  <1>1. frames \in Seq(Frame) /\ return_stack \in Seq(Entry) /\ Len(return_stack) > Len(frames)
    BY DEF ReturnInv, ReturnStackSound, TypeOK, EveryFrameHasEntry
  <1>2. /\ Len(frames) \in Nat /\ Len(return_stack) \in Nat
        /\ \A i \in 1..Len(frames) : frames[i] \in Frame
        /\ \A i \in 1..Len(return_stack) : return_stack[i] \in Entry
    BY <1>1, LenProperties, ElementOfSeq
  <1> QED BY <1>1, <1>2, StackAssumption DEF Frame, Entry

\* The entry next to the last frame's lies above it, and above where it returns.
LEMMA Callers ==
    ASSUME ReturnInv, frames # <<>>
    PROVE  /\ Len(frames) >= 1
           /\ Len(frames) = 1 \/ Len(frames) > 1
           /\ return_stack[Len(frames) + 1].stack_ptr = frames[Len(frames)].stack_ptr
           /\ return_stack[Len(frames) + 1].return_address = frames[Len(frames)].return_address
           /\ Len(frames) > 1 => return_stack[Len(frames)].stack_ptr = frames[Len(frames) - 1].stack_ptr
           /\ Len(frames) = 1 => return_stack[Len(frames)].stack_ptr = StackSize + 1
  <1>1. Len(frames) >= 1
    BY ReturnLengths, EmptySeq DEF ReturnInv, ReturnStackSound, TypeOK
  <1>2. Len(frames) > 1 => Len(frames) - 1 \in 1..Len(frames)
    BY ReturnLengths
  <1>3. Len(frames) \in 1..Len(frames) /\ (Len(frames) - 1) + 1 = Len(frames)
    BY <1>1, ReturnLengths
  <1>4. Len(frames) = 1 \/ Len(frames) > 1
    <2>1. ASSUME NEW k \in Nat, k >= 1 PROVE k = 1 \/ k > 1
      BY <2>1
    <2>2. Len(frames) \in Nat
      BY ReturnLengths
    <2> QED BY <1>1, <2>1, <2>2
  <1> QED BY <1>1, <1>2, <1>3, <1>4 DEF ReturnInv, ReturnStackSound, EveryFrameHasEntry, StackOrdered

-----------------------------------------------------------------------------
LEMMA CallStep == NoCallsAfterSkip /\ ReturnInv /\ Call => ReturnInv'
  <1> SUFFICES ASSUME NoCallsAfterSkip, ReturnInv, Call PROVE ReturnInv'
    OBVIOUS
  <1>1. ~skipped
    BY DEF Call, NoCallsAfterSkip, ReturnInv, Balanced
  <1>2. PICK f \in Callees, sp \in 1..StackSize :
          /\ sp < StackTop
          /\ frames' = Append(frames, [stack_ptr |-> sp, return_address |-> calls + 1, callee |-> f])
          /\ OnEnter(sp, calls + 1, f)
    BY DEF Call
  <1>3. Len(return_stack) = Len(frames) + 1
    BY <1>1 DEF ReturnInv, Balanced
  <1>4. return_stack[Len(return_stack)].stack_ptr = StackTop
    <2>1. CASE frames = <<>>
      BY <1>3, <2>1 DEF StackTop, ReturnInv, StackOrdered
    <2>2. CASE frames # <<>>
      BY <1>3, <2>2, Callers DEF StackTop
    <2> QED BY <2>1, <2>2
  <1>5. return_stack[Len(return_stack)].stack_ptr \in Nat
    <2>1. Len(return_stack) \in 1..Len(return_stack)
      BY <1>3, ReturnLengths
    <2> QED BY <2>1, ReturnLengths
  <1>6. Last(return_stack).stack_ptr # sp
    <2>1. sp < return_stack[Len(return_stack)].stack_ptr /\ sp \in Nat
      BY <1>2, <1>4
    <2> QED BY <2>1, <1>5 DEF Last
  <1>7. PICK frame \in Frame : frame = [stack_ptr |-> sp, return_address |-> calls + 1, callee |-> f]
    <2>1. calls + 1 \in Nat
      BY DEF ReturnInv, ReturnStackSound, TypeOK
    <2>2. [stack_ptr |-> sp, return_address |-> calls + 1, callee |-> f] \in Frame
      BY <2>1 DEF Frame
    <2> QED BY <2>2
  <1>8. PICK entry \in Entry : entry = [stack_ptr |-> sp, return_address |-> calls + 1]
    <2>1. calls + 1 \in Nat /\ sp \in 1..(StackSize + 1)
      BY StackAssumption DEF ReturnInv, ReturnStackSound, TypeOK
    <2>2. [stack_ptr |-> sp, return_address |-> calls + 1] \in Entry
      BY <2>1 DEF Entry
    <2> QED BY <2>2
  <1>9. /\ frames' = Append(frames, frame) /\ return_stack' = Append(return_stack, entry)
        /\ trace' = Append(trace, f) /\ calls' = calls + 1 /\ UNCHANGED <<skipped, returns>>
    BY <1>2, <1>6, <1>7, <1>8 DEF Call, OnEnter
  <1>10. /\ frames' \in Seq(Frame) /\ Len(frames') = Len(frames) + 1 /\ frames'[Len(frames) + 1] = frame
         /\ \A i \in 1..Len(frames) : frames'[i] = frames[i]
    BY <1>9, AppendProperties DEF ReturnInv, ReturnStackSound, TypeOK
  <1>11. /\ return_stack' \in Seq(Entry) /\ Len(return_stack') = Len(return_stack) + 1
         /\ return_stack'[Len(return_stack) + 1] = entry
         /\ \A i \in 1..Len(return_stack) : return_stack'[i] = return_stack[i]
    BY <1>9, AppendProperties DEF ReturnInv, ReturnStackSound, TypeOK
  <1>12. TypeOK'
    <2>1. trace' \in Seq(Callees \cup {Exit})
      BY <1>9, AppendProperties DEF ReturnInv, ReturnStackSound, TypeOK
    <2> QED BY <1>9, <1>10, <1>11, <2>1 DEF ReturnInv, ReturnStackSound, TypeOK
  <1>13. EveryFrameHasEntry'
    <2>1. Len(return_stack') > Len(frames')
      BY <1>3, <1>10, <1>11, ReturnLengths
    <2>2. ASSUME NEW i \in 1..Len(frames')
          PROVE  /\ return_stack'[i + 1].stack_ptr = frames'[i].stack_ptr
                 /\ return_stack'[i + 1].return_address = frames'[i].return_address
      <3>1. CASE i = Len(frames) + 1
        BY <3>1, <1>3, <1>7, <1>8, <1>10, <1>11
      <3>2. CASE i # Len(frames) + 1
        <4>1. i \in 1..Len(frames) /\ i + 1 \in 1..Len(return_stack)
          BY <3>2, <1>3, <1>10, ReturnLengths
        <4> QED BY <4>1, <1>10, <1>11 DEF ReturnInv, ReturnStackSound, EveryFrameHasEntry
      <3> QED BY <3>1, <3>2
    <2> QED BY <2>1, <2>2 DEF EveryFrameHasEntry
  <1>14. StackOrdered'
    <2>1. ASSUME NEW i \in 1..Len(return_stack') , NEW j \in 1..Len(return_stack'), i < j
          PROVE  return_stack'[i].stack_ptr > return_stack'[j].stack_ptr
      <3>0. Len(return_stack) \in Nat /\ Len(return_stack) >= 1
        BY <1>3, ReturnLengths
      <3>1. i \in 1..Len(return_stack) /\ return_stack'[i] = return_stack[i] /\ return_stack[i].stack_ptr \in Nat
        BY <2>1, <1>11, <3>0, ReturnLengths
      <3>2. CASE j = Len(return_stack) + 1
        <4>1. return_stack[i].stack_ptr >= return_stack[Len(return_stack)].stack_ptr
          <5>1. CASE i = Len(return_stack)
            BY <5>1, <3>1
          <5>2. CASE i # Len(return_stack)
            <6>1. i < Len(return_stack) /\ Len(return_stack) \in 1..Len(return_stack)
              BY <5>2, <3>0, <3>1
            <6> QED BY <6>1, <3>1, <1>5 DEF ReturnInv, StackOrdered
          <5> QED BY <5>1, <5>2
        <4>2. return_stack'[j].stack_ptr = sp /\ sp \in Nat
          BY <3>2, <1>8, <1>11
        <4> QED BY <4>1, <4>2, <3>1, <1>2, <1>4, <1>5
      <3>3. CASE j # Len(return_stack) + 1
        <4>1. j \in 1..Len(return_stack) /\ return_stack'[j] = return_stack[j]
          BY <3>3, <3>0, <1>11
        <4> QED BY <2>1, <3>1, <4>1 DEF ReturnInv, StackOrdered
      <3> QED BY <3>2, <3>3
    <2>2. return_stack'[1] = return_stack[1]
      BY <1>3, <1>11, ReturnLengths
    <2> QED BY <2>1, <2>2 DEF ReturnInv, StackOrdered
  <1>15. Balanced'
    BY <1>1, <1>3, <1>9, <1>10, <1>11 DEF ReturnInv, Balanced
  <1>16. ReturnsToCaller'
    BY <1>9 DEF ReturnInv, ReturnStackSound, ReturnsToCaller
  <1> QED BY <1>12, <1>13, <1>14, <1>15, <1>16 DEF ReturnInv, ReturnStackSound

LEMMA TailCallStep == NoCallsAfterSkip /\ ReturnInv /\ TailCall => ReturnInv'
  <1> SUFFICES ASSUME NoCallsAfterSkip, ReturnInv, TailCall PROVE ReturnInv'
    OBVIOUS
  <1>1. ~skipped /\ frames # <<>>
    BY DEF TailCall, NoCallsAfterSkip, ReturnInv, Balanced
  <1>2. PICK f \in Callees :
          /\ frames' = [frames EXCEPT ![Len(frames)].callee = f]
          /\ OnEnter(frames[Len(frames)].stack_ptr, Hooked, f)
    BY DEF TailCall
  <1>3. Len(return_stack) = Len(frames) + 1
    BY <1>1 DEF ReturnInv, Balanced
  <1>4. Last(return_stack).stack_ptr = frames[Len(frames)].stack_ptr
    BY <1>1, <1>3, Callers DEF Last
  <1>5. return_stack' = return_stack /\ trace' = trace \o <<Exit, f>> /\ calls' = calls + 1 /\ UNCHANGED <<skipped, returns>>
    BY <1>2, <1>4 DEF TailCall, OnEnter
  <1>6. Len(frames) \in 1..Len(frames)
    BY <1>1, Callers, ReturnLengths
  <1>7. PICK frame \in Frame : frame = [frames[Len(frames)] EXCEPT !.callee = f]
    BY <1>6, ReturnLengths DEF Frame
  <1>8. frame.stack_ptr = frames[Len(frames)].stack_ptr /\ frame.return_address = frames[Len(frames)].return_address
    BY <1>6, <1>7, ReturnLengths DEF Frame
  <1>9. frames' = [frames EXCEPT ![Len(frames)] = frame]
    BY <1>2, <1>7
  <1>10. /\ frames' \in Seq(Frame) /\ Len(frames') = Len(frames)
         /\ \A i \in 1..Len(frames) : frames'[i] = IF i = Len(frames) THEN frame ELSE frames[i]
    BY <1>6, <1>9, ExceptSeq DEF ReturnInv, ReturnStackSound, TypeOK
  <1>11. \A i \in 1..Len(frames) :
            frames'[i].stack_ptr = frames[i].stack_ptr /\ frames'[i].return_address = frames[i].return_address
    BY <1>8, <1>10
  <1>12. TypeOK'
    <2>1. <<Exit, f>> \in Seq(Callees \cup {Exit})
      OBVIOUS
    <2>2. trace' \in Seq(Callees \cup {Exit})
      BY <1>5, <2>1, ConcatProperties DEF ReturnInv, ReturnStackSound, TypeOK
    <2> QED BY <1>5, <1>10, <2>2 DEF ReturnInv, ReturnStackSound, TypeOK
  <1>13. EveryFrameHasEntry'
    BY <1>5, <1>10, <1>11 DEF ReturnInv, ReturnStackSound, EveryFrameHasEntry
  <1> QED BY <1>5, <1>10, <1>12, <1>13 DEF ReturnInv, ReturnStackSound, ReturnsToCaller, StackOrdered, Balanced

\* A return keeps the entries of the callers, and no other: those of frames that
\* were left go with the entry of the function that returns.
LEMMA CallersKept ==
    ASSUME ReturnInv, frames # <<>>,
           NEW sp \in frames[Len(frames)].stack_ptr..StackSize,
           Len(frames) > 1 => sp < frames[Len(frames) - 1].stack_ptr,
           NEW n \in 1..(Len(return_stack) - 1), Kept(sp, n)
    PROVE  n = Len(frames)
  <1>1. Len(frames) \in Nat /\ Len(return_stack) \in Nat /\ Len(frames) >= 1 /\ Len(return_stack) > Len(frames)
    BY ReturnLengths, Callers
  <1>2. frames[Len(frames)].stack_ptr \in Nat /\ sp \in Nat /\ sp <= StackSize /\ frames[Len(frames)].stack_ptr <= sp /\ StackSize \in Nat
    <2>1. frames[Len(frames)].stack_ptr \in 1..StackSize /\ StackSize \in Nat
      <3>1. Len(frames) \in 1..Len(frames)
        BY <1>1
      <3> QED BY <3>1, ReturnLengths
    <2> QED BY <2>1
  <1>3. return_stack[Len(frames)].stack_ptr > sp
    <2>1. CASE Len(frames) = 1
      BY <2>1, <1>2, Callers
    <2>2. CASE Len(frames) > 1
      <3>1. Len(frames) - 1 \in 1..Len(frames)
        BY <2>2, <1>1
      <3>2. frames[Len(frames) - 1].stack_ptr \in Nat
        BY <3>1, ReturnLengths
      <3>3. return_stack[Len(frames)].stack_ptr = frames[Len(frames) - 1].stack_ptr
        BY <2>2, Callers
      <3> QED BY <3>2, <3>3, <2>2, <1>2
    <2>3. Len(frames) = 1 \/ Len(frames) > 1
      BY Callers
    <2> QED BY <2>1, <2>2, <2>3
  <1>4. n = Len(frames)
    <2>1. CASE n < Len(frames)
      <3>1. Len(frames) \in (n + 1)..(Len(return_stack) - 1)
        BY <2>1, <1>1
      <3>2. return_stack[Len(frames)].stack_ptr <= sp /\ return_stack[Len(frames)].stack_ptr \in Nat
        BY <3>1, <1>1, ReturnLengths DEF Kept
      <3> QED BY <3>2, <1>2, <1>3
    <2>2. CASE n > Len(frames)
      <3>1. n \in 1..Len(return_stack) /\ Len(frames) + 1 \in 1..Len(return_stack) /\ n >= Len(frames) + 1
        BY <2>2, <1>1
      <3>2. return_stack[n].stack_ptr \in Nat /\ return_stack[Len(frames) + 1].stack_ptr = frames[Len(frames)].stack_ptr
        BY <3>1, ReturnLengths, Callers
      <3>3. return_stack[n].stack_ptr <= return_stack[Len(frames) + 1].stack_ptr
        <4>1. CASE n = Len(frames) + 1
          BY <4>1, <3>2
        <4>2. CASE n # Len(frames) + 1
          <5>1. Len(frames) + 1 < n
            BY <4>2, <3>1, <1>1
          <5> QED BY <5>1, <3>1, <3>2, <1>2 DEF ReturnInv, StackOrdered
        <4> QED BY <4>1, <4>2
      <3> QED BY <3>2, <3>3, <1>2 DEF Kept
    <2> QED BY <2>1, <2>2, <1>1
  <1> QED BY <1>4

LEMMA ReturnStep == ReturnInv /\ Return => ReturnInv'
  <1> SUFFICES ASSUME ReturnInv, Return PROVE ReturnInv'
    OBVIOUS
  <1>1. frames # <<>> /\ frames' = SubSeq(frames, 1, Len(frames) - 1) /\ skipped' = FALSE /\ calls' = calls
    BY DEF Return
  <1>2. PICK sp \in frames[Len(frames)].stack_ptr..StackSize :
          /\ Len(frames) > 1 => sp < frames[Len(frames) - 1].stack_ptr
          /\ OnExit(sp)
    BY DEF Return
  <1>3. PICK n \in 1..(Len(return_stack) - 1) :
        /\ Kept(sp, n)
        /\ return_stack' = SubSeq(return_stack, 1, n)
        /\ trace' = trace \o [k \in 1..(Len(return_stack) - n) |-> Exit]
        /\ returns' = [due |-> frames[Len(frames)].return_address, got |-> return_stack[n + 1].return_address]
    BY <1>2 DEF OnExit
  <1>4. Len(frames) \in Nat /\ Len(return_stack) \in Nat /\ Len(frames) >= 1 /\ Len(return_stack) > Len(frames)
    BY <1>1, ReturnLengths, Callers
  <1>7. n = Len(frames)
    BY <1>1, <1>2, <1>3, CallersKept
  <1>8. /\ return_stack' \in Seq(Entry) /\ Len(return_stack') = Len(frames)
        /\ \A i \in 1..Len(frames) : return_stack'[i] = return_stack[i]
    <2>1. \A i \in 1..Len(frames) : return_stack[i] \in Entry
      BY <1>4, ReturnLengths
    <2> QED BY <2>1, <1>3, <1>4, <1>7, SubSeqProperties
  <1>9. /\ frames' \in Seq(Frame) /\ Len(frames') = Len(frames) - 1
        /\ \A i \in 1..(Len(frames) - 1) : frames'[i] = frames[i]
    <2>1. \A i \in 1..(Len(frames) - 1) : frames[i] \in Frame
      BY <1>4, ReturnLengths
    <2>2. PICK d \in Nat : d = Len(frames) - 1
      BY <1>4
    <2>3. frames' = SubSeq(frames, 1, d) /\ \A i \in 1..d : frames[i] \in Frame
      BY <2>1, <2>2, <1>1
    <2>4. frames' \in Seq(Frame) /\ Len(frames') = d /\ \A i \in 1..d : frames'[i] = frames[i]
      BY <2>3, SubSeqProperties
    <2> QED BY <2>2, <2>4
  <1>10. TypeOK' /\ ReturnsToCaller'
    <2>1. returns' = [due |-> frames[Len(frames)].return_address, got |-> frames[Len(frames)].return_address]
      BY <1>1, <1>3, <1>7, Callers
    <2>2. frames[Len(frames)].return_address \in Nat
      BY <1>4, ReturnLengths
    <2>3. [k \in 1..(Len(return_stack) - n) |-> Exit] \in Seq(Callees \cup {Exit})
      <3>1. PICK m \in Nat : m = Len(return_stack) - n
        BY <1>4, <1>7
      <3>2. [k \in 1..m |-> Exit] \in Seq(Callees \cup {Exit})
        OBVIOUS
      <3> QED BY <3>1, <3>2
    <2>4. trace' \in Seq(Callees \cup {Exit})
      BY <1>3, <2>3, ConcatProperties DEF ReturnInv, ReturnStackSound, TypeOK
    <2> QED BY <1>1, <1>8, <1>9, <2>1, <2>2, <2>4 DEF ReturnInv, ReturnStackSound, TypeOK, ReturnsToCaller
  <1>11. EveryFrameHasEntry'
    <2>1. Len(return_stack') > Len(frames')
      BY <1>4, <1>8, <1>9
    <2>2. ASSUME NEW i \in 1..Len(frames')
          PROVE  /\ return_stack'[i + 1].stack_ptr = frames'[i].stack_ptr
                 /\ return_stack'[i + 1].return_address = frames'[i].return_address
      <3>1. i \in 1..(Len(frames) - 1) /\ i \in 1..Len(frames) /\ i + 1 \in 1..Len(frames)
        BY <1>4, <1>9
      <3> QED BY <3>1, <1>8, <1>9 DEF ReturnInv, ReturnStackSound, EveryFrameHasEntry
    <2> QED BY <2>1, <2>2 DEF EveryFrameHasEntry
  <1>12. StackOrdered'
    <2>1. \A i \in 1..Len(frames) : i \in 1..Len(return_stack)
      BY <1>4
    <2>2. 1 \in 1..Len(frames)
      BY <1>4
    <2> QED BY <2>1, <2>2, <1>8 DEF ReturnInv, StackOrdered
  <1>13. Balanced'
    BY <1>1, <1>4, <1>8, <1>9 DEF Balanced
  <1> QED BY <1>10, <1>11, <1>12, <1>13 DEF ReturnInv, ReturnStackSound

LEMMA SkipStep == ReturnInv /\ Skip => ReturnInv'
  <1> SUFFICES ASSUME ReturnInv, Skip PROVE ReturnInv'
    OBVIOUS
  <1>1. PICK n \in 0..(Len(frames) - 1) : frames' = SubSeq(frames, 1, n)
    BY DEF Skip
  <1>2. Skips /\ skipped' = TRUE /\ UNCHANGED <<calls, return_stack, trace, returns>>
    BY DEF Skip
  <1>3. /\ frames' \in Seq(Frame) /\ Len(frames') = n
        /\ \A i \in 1..n : frames'[i] = frames[i] /\ i \in 1..Len(frames)
    <2>1. \A i \in 1..n : frames[i] \in Frame /\ i \in 1..Len(frames)
      BY <1>1, ReturnLengths
    <2>2. n \in Nat /\ n \in Int /\ 1 \in Int
      BY <1>1, ReturnLengths
    <2> QED BY <2>1, <2>2, <1>1, SubSeqProperties
  <1>4. TypeOK'
    BY <1>2, <1>3 DEF ReturnInv, ReturnStackSound, TypeOK
  <1>5. EveryFrameHasEntry'
    <2>1. Len(return_stack) > n
      BY <1>1, ReturnLengths
    <2> QED BY <2>1, <1>2, <1>3 DEF ReturnInv, ReturnStackSound, EveryFrameHasEntry
  <1> QED BY <1>2, <1>4, <1>5 DEF ReturnInv, ReturnStackSound, ReturnsToCaller, StackOrdered, Balanced

LEMMA ReturnStart == Init => ReturnInv
  <1> SUFFICES ASSUME Init PROVE ReturnInv
    OBVIOUS
  <1>1. Sentinel \in Entry
    BY StackAssumption DEF Sentinel, Entry
  <1>2. /\ return_stack \in Seq(Entry) /\ Len(return_stack) = 1 /\ return_stack[1] = Sentinel
    BY <1>1 DEF Init
  <1>3. frames \in Seq(Frame) /\ Len(frames) = 0 /\ trace \in Seq(Callees \cup {Exit})
    BY EmptySeq DEF Init
  <1>4. TypeOK
    BY <1>2, <1>3 DEF Init, TypeOK
  <1>5. StackOrdered
    BY <1>2 DEF StackOrdered, Sentinel
  <1> QED BY <1>2, <1>3, <1>4, <1>5 DEF Init, ReturnInv, ReturnStackSound, ReturnsToCaller, EveryFrameHasEntry, Balanced

LEMMA ReturnInvStep == ASSUME NoCallsAfterSkip PROVE ReturnInv /\ [Next]_vars => ReturnInv'
  <1> SUFFICES ASSUME ReturnInv, [Next]_vars PROVE ReturnInv'
    OBVIOUS
  <1>1. CASE Done \/ UNCHANGED vars
    BY <1>1 DEF Done, vars, ReturnInv, ReturnStackSound, TypeOK, ReturnsToCaller, EveryFrameHasEntry, StackOrdered, Balanced
  <1> QED BY <1>1, CallStep, TailCallStep, ReturnStep, SkipStep DEF Next

\* Every function returns to its caller and every running one has the entry to
\* do so by, in any program that returns from the frame it lands in before it
\* calls again.
THEOREM ReturnsSound == ASSUME NoCallsAfterSkip PROVE Spec => []ReturnStackSound
  <1>1. ReturnInv => ReturnStackSound
    BY DEF ReturnInv
  <1> QED BY <1>1, ReturnStart, ReturnInvStep, PTL DEF Spec

-----------------------------------------------------------------------------
(* What a reader of the trace sees.                                        *)

\* g is the reader's stack after each record of t.
Replays(g, t) == g = [n \in 0..Len(t) |-> IF n = 0 THEN <<>> ELSE SeenAfter(g[n - 1], t[n])]

\* There is one way to read a trace: by induction on its records, as the least
\* record after which two readers differ.
LEMMA ReplayUnique ==
    ASSUME NEW t, Len(t) \in Nat, NEW g, Replays(g, t)
    PROVE  Replay(t) = g[Len(t)]
  <1> DEFINE seen[n \in 0..Len(t)] == IF n = 0 THEN <<>> ELSE SeenAfter(seen[n - 1], t[n])
             differ == {n \in 0..Len(t) : seen[n] # g[n]}
  <1>1. Replays(seen, t)
    BY DEF Replays
  <1>2. Replay(t) = seen[Len(t)]
    BY DEF Replay
  <1> HIDE DEF seen
  <1>3. ASSUME differ # {} PROVE FALSE
    <2>1. PICK n \in differ : \A m \in differ : n <= m
      <3>1. differ \in SUBSET Nat
        OBVIOUS
      <3> HIDE DEF differ
      <3> QED BY <1>3, <3>1, Least
    <2>2. /\ seen[n] = IF n = 0 THEN <<>> ELSE SeenAfter(seen[n - 1], t[n])
          /\ g[n] = IF n = 0 THEN <<>> ELSE SeenAfter(g[n - 1], t[n])
      BY <1>1, <2>1 DEF Replays
    <2>3. n # 0 => n - 1 \in 0..Len(t) /\ ~(n <= n - 1)
      BY <2>1
    <2>4. n # 0 => seen[n - 1] = g[n - 1]
      BY <2>1, <2>3
    <2> QED BY <2>1, <2>2, <2>4
  <1> QED BY <1>2, <1>3

\* A reader goes on with the records u from where it is.
LEMMA ReplayExtended ==
    ASSUME NEW t \in Seq(Callees \cup {Exit}), NEW u \in Seq(Callees \cup {Exit}),
           NEW g \in [0..Len(t) -> Seq(Callees)], Replays(g, t),
           NEW h \in [0..Len(u) -> Seq(Callees)], h[0] = g[Len(t)],
           \A n \in 1..Len(u) : h[n] = SeenAfter(h[n - 1], u[n])
    PROVE  \E G \in [0..Len(t \o u) -> Seq(Callees)] : Replays(G, t \o u) /\ G[Len(t \o u)] = h[Len(u)]
  <1> DEFINE lt == Len(t)
             lu == Len(u)
             v == t \o u
             G == [n \in 0..(lt + lu) |-> IF n <= lt THEN g[n] ELSE h[n - lt]]
  <1>1. lt \in Nat /\ lu \in Nat
    BY LenProperties
  <1>2. Len(v) = lt + lu /\ \A n \in 1..(lt + lu) : v[n] = IF n <= lt THEN t[n] ELSE u[n - lt]
    BY ConcatProperties
  <1> HIDE DEF v, lt, lu
  <1>3. G \in [0..(lt + lu) -> Seq(Callees)]
    <2> SUFFICES ASSUME NEW n \in 0..(lt + lu) PROVE (IF n <= lt THEN g[n] ELSE h[n - lt]) \in Seq(Callees)
      OBVIOUS
    <2>1. n <= lt => n \in 0..lt
      BY <1>1
    <2>2. ~(n <= lt) => n - lt \in 0..lu
      BY <1>1
    <2> QED BY <2>1, <2>2 DEF lt, lu
  <1>4. ASSUME NEW n \in 0..(lt + lu) PROVE G[n] = IF n = 0 THEN <<>> ELSE SeenAfter(G[n - 1], v[n])
    <2>1. CASE n <= lt
      <3>1. n \in 0..lt /\ (n # 0 => n \in 1..(lt + lu) /\ n - 1 \in 0..(lt + lu) /\ n - 1 <= lt)
        BY <1>1, <2>1
      <3>2. g[n] = IF n = 0 THEN <<>> ELSE SeenAfter(g[n - 1], t[n])
        BY <3>1 DEF Replays, lt
      <3>3. n # 0 => G[n - 1] = g[n - 1] /\ v[n] = t[n]
        BY <1>2, <2>1, <3>1
      <3> QED BY <2>1, <3>2, <3>3
    <2>2. CASE ~(n <= lt)
      <3>1. n # 0 /\ n \in 1..(lt + lu) /\ n - lt \in 1..lu /\ n - 1 \in 0..(lt + lu) /\ (n - 1) - lt = (n - lt) - 1
        BY <1>1, <2>2
      <3>2. G[n] = h[n - lt] /\ v[n] = u[n - lt] /\ h[n - lt] = SeenAfter(h[(n - lt) - 1], u[n - lt])
        BY <1>2, <2>2, <3>1 DEF lu
      <3>3. G[n - 1] = h[(n - lt) - 1]
        <4>1. CASE n - 1 <= lt
          <5>1. n - 1 = lt /\ (n - lt) - 1 = 0
            BY <1>1, <2>2, <3>1, <4>1
          <5> QED BY <3>1, <4>1, <5>1 DEF lt
        <4>2. CASE ~(n - 1 <= lt)
          BY <3>1, <4>2
        <4> QED BY <4>1, <4>2
      <3> QED BY <3>1, <3>2, <3>3
    <2> QED BY <2>1, <2>2
  <1>5. G[lt + lu] = h[lu]
    <2>1. CASE lu = 0
      BY <1>1, <2>1 DEF lt
    <2>2. CASE lu # 0
      <3>1. ~(lt + lu <= lt) /\ (lt + lu) - lt = lu /\ lt + lu \in 0..(lt + lu)
        BY <1>1, <2>2
      <3> QED BY <3>1
    <2> QED BY <2>1, <2>2
  <1>6. Replays(G, v)
    BY <1>2, <1>3, <1>4 DEF Replays
  <1> HIDE DEF G
  <1> QED BY <1>2, <1>3, <1>5, <1>6 DEF v, lt, lu

\* The stack s that the reader has is the machine's.
ShowsStack(s) ==
    /\ Len(s) = Len(return_stack) - 1
    /\ \A i \in 1..Len(frames) : s[i] = frames[i].callee

TraceRead == \E g \in [0..Len(trace) -> Seq(Callees)] : Replays(g, trace) /\ ShowsStack(g[Len(trace)])

LEMMA TraceReadShows == ReturnInv /\ TraceRead => TraceShowsStack
  <1> SUFFICES ASSUME ReturnInv, TraceRead PROVE TraceShowsStack
    OBVIOUS
  <1>1. PICK g \in [0..Len(trace) -> Seq(Callees)] : Replays(g, trace) /\ ShowsStack(g[Len(trace)])
    BY DEF TraceRead
  <1>2. Len(trace) \in Nat
    BY LenProperties DEF ReturnInv, ReturnStackSound, TypeOK
  <1>3. Replay(trace) = g[Len(trace)]
    BY <1>1, <1>2, ReplayUnique
  <1> QED BY <1>1, <1>3 DEF TraceShowsStack, ShowsStack

LEMMA FrontShorter ==
    ASSUME NEW s \in Seq(Callees), Len(s) >= 1
    PROVE  /\ Front(s) \in Seq(Callees) /\ Len(Front(s)) = Len(s) - 1
           /\ \A i \in 1..(Len(s) - 1) : Front(s)[i] = s[i]
  <1>1. Len(s) \in Nat /\ \A i \in 1..Len(s) : s[i] \in Callees
    BY LenProperties, ElementOfSeq
  <1>2. PICK n \in Nat : n = Len(s) - 1
    BY <1>1
  <1>3. Front(s) = SubSeq(s, 1, n) /\ \A i \in 1..n : s[i] \in Callees
    BY <1>1, <1>2 DEF Front
  <1>4. Front(s) \in Seq(Callees) /\ Len(Front(s)) = n /\ \A i \in 1..n : Front(s)[i] = s[i]
    BY <1>3, SubSeqProperties
  <1> QED BY <1>2, <1>4

LEMMA CallRead == NoCallsAfterSkip /\ ReturnInv /\ TraceRead /\ Call => TraceRead'
  <1> SUFFICES ASSUME NoCallsAfterSkip, ReturnInv, TraceRead, Call PROVE TraceRead'
    OBVIOUS
  <1>1. PICK g \in [0..Len(trace) -> Seq(Callees)] : Replays(g, trace) /\ ShowsStack(g[Len(trace)])
    BY DEF TraceRead
  <1>2. ~skipped /\ Len(return_stack) = Len(frames) + 1
    BY DEF Call, NoCallsAfterSkip, ReturnInv, Balanced
  <1>3. PICK f \in Callees, sp \in 1..StackSize :
          /\ sp < StackTop
          /\ frames' = Append(frames, [stack_ptr |-> sp, return_address |-> calls + 1, callee |-> f])
          /\ OnEnter(sp, calls + 1, f)
    BY DEF Call
  <1>4. Last(return_stack).stack_ptr # sp
    <2>1. Last(return_stack).stack_ptr = StackTop
      <3>1. CASE frames = <<>>
        BY <1>2, <3>1 DEF StackTop, ReturnInv, StackOrdered, Last
      <3>2. CASE frames # <<>>
        BY <1>2, <3>2, Callers DEF StackTop, Last
      <3> QED BY <3>1, <3>2
    <2>2. return_stack[Len(return_stack)].stack_ptr \in Nat
      <3>1. Len(return_stack) \in 1..Len(return_stack)
        BY <1>2, ReturnLengths
      <3> QED BY <3>1, ReturnLengths
    <2> QED BY <1>3, <2>1, <2>2 DEF Last
  <1> DEFINE frame == [stack_ptr |-> sp, return_address |-> calls + 1, callee |-> f]
             entry == [stack_ptr |-> sp, return_address |-> calls + 1]
  <1>5. frames' = Append(frames, frame) /\ return_stack' = Append(return_stack, entry) /\ trace' = Append(trace, f)
    BY <1>3, <1>4 DEF OnEnter
  <1>6. frame \in Frame /\ frame.callee = f /\ entry \in Entry
    <2>1. calls + 1 \in Nat /\ sp \in 1..(StackSize + 1)
      BY StackAssumption DEF ReturnInv, ReturnStackSound, TypeOK
    <2> QED BY <2>1 DEF Frame, Entry
  <1> HIDE DEF frame, entry
  <1>7. /\ Len(frames') = Len(frames) + 1 /\ frames'[Len(frames) + 1] = frame
        /\ \A i \in 1..Len(frames) : frames'[i] = frames[i]
        /\ Len(return_stack') = Len(return_stack) + 1
    BY <1>5, <1>6, AppendProperties DEF ReturnInv, ReturnStackSound, TypeOK
  <1> DEFINE s == g[Len(trace)]
             h == [n \in 0..1 |-> IF n = 0 THEN s ELSE Append(s, f)]
  <1>8. s \in Seq(Callees) /\ Len(s) = Len(frames) /\ Len(frames) \in Nat /\ \A i \in 1..Len(frames) : s[i] = frames[i].callee
    <2>1. Len(trace) \in 0..Len(trace)
      BY LenProperties DEF ReturnInv, ReturnStackSound, TypeOK
    <2> QED BY <1>1, <1>2, <2>1, ReturnLengths DEF ShowsStack
  <1>9. trace \in Seq(Callees \cup {Exit}) /\ <<f>> \in Seq(Callees \cup {Exit}) /\ Len(<<f>>) = 1 /\ trace' = trace \o <<f>>
    <2>1. trace \in Seq(Callees \cup {Exit})
      BY DEF ReturnInv, ReturnStackSound, TypeOK
    <2> QED BY <1>5, <2>1, AppendIsConcat
  <1>10. Append(s, f) \in Seq(Callees) /\ Len(Append(s, f)) = Len(s) + 1 /\ Append(s, f)[Len(s) + 1] = f
         /\ \A i \in 1..Len(s) : Append(s, f)[i] = s[i]
    BY <1>8, AppendProperties
  <1>11. /\ h \in [0..Len(<<f>>) -> Seq(Callees)] /\ h[0] = s /\ h[1] = Append(s, f)
         /\ \A n \in 1..Len(<<f>>) : h[n] = SeenAfter(h[n - 1], <<f>>[n])
    <2>1. h \in [0..1 -> Seq(Callees)] /\ h[0] = s /\ h[1] = Append(s, f)
      BY <1>8, <1>10
    <2>2. SeenAfter(h[0], <<f>>[1]) = Append(s, f)
      BY <2>1, ExitAssumption DEF SeenAfter
    <2>3. \A n \in 1..1 : n = 1 /\ n - 1 = 0
      OBVIOUS
    <2> HIDE DEF h
    <2>4. \A n \in 1..1 : h[n] = SeenAfter(h[n - 1], <<f>>[n])
      BY <2>1, <2>2, <2>3
    <2> QED BY <1>9, <2>1, <2>4
  <1> HIDE DEF h
  <1>12. PICK G \in [0..Len(trace \o <<f>>) -> Seq(Callees)] :
            Replays(G, trace \o <<f>>) /\ G[Len(trace \o <<f>>)] = h[Len(<<f>>)]
    BY <1>1, <1>9, <1>11, ReplayExtended
  <1>13. G[Len(trace')] = Append(s, f) /\ G \in [0..Len(trace') -> Seq(Callees)] /\ Replays(G, trace')
    BY <1>9, <1>11, <1>12
  <1>14. \A i \in 1..(Len(frames) + 1) : Append(s, f)[i] = frames'[i].callee
    <2> SUFFICES ASSUME NEW i \in 1..(Len(frames) + 1) PROVE Append(s, f)[i] = frames'[i].callee
      OBVIOUS
    <2>1. CASE i = Len(frames) + 1
      BY <1>6, <1>7, <1>8, <1>10, <2>1
    <2>2. CASE i # Len(frames) + 1
      <3>1. i \in 1..Len(frames)
        BY <1>8, <2>2
      <3> QED BY <1>7, <1>8, <1>10, <3>1
    <2> QED BY <2>1, <2>2
  <1>15. Len(Append(s, f)) = Len(return_stack') - 1
    BY <1>2, <1>7, <1>8, <1>10
  <1> HIDE DEF s
  <1> QED BY <1>7, <1>13, <1>14, <1>15 DEF TraceRead, ShowsStack, Replays

LEMMA TailCallRead == NoCallsAfterSkip /\ ReturnInv /\ TraceRead /\ TailCall => TraceRead'
  <1> SUFFICES ASSUME NoCallsAfterSkip, ReturnInv, TraceRead, TailCall PROVE TraceRead'
    OBVIOUS
  <1>1. PICK g \in [0..Len(trace) -> Seq(Callees)] : Replays(g, trace) /\ ShowsStack(g[Len(trace)])
    BY DEF TraceRead
  <1>2. ~skipped /\ frames # <<>> /\ Len(return_stack) = Len(frames) + 1
    BY DEF TailCall, NoCallsAfterSkip, ReturnInv, Balanced
  <1>3. PICK f \in Callees :
          /\ frames' = [frames EXCEPT ![Len(frames)].callee = f]
          /\ OnEnter(frames[Len(frames)].stack_ptr, Hooked, f)
    BY DEF TailCall
  <1>4. Last(return_stack).stack_ptr = frames[Len(frames)].stack_ptr
    BY <1>2, Callers DEF Last
  <1>5. return_stack' = return_stack /\ trace' = trace \o <<Exit, f>>
    BY <1>3, <1>4 DEF OnEnter
  <1>6. Len(frames) \in Nat /\ Len(frames) >= 1 /\ Len(frames) \in 1..Len(frames)
    BY <1>2, Callers, ReturnLengths
  <1>7. /\ Len(frames') = Len(frames) /\ frames'[Len(frames)].callee = f
        /\ \A i \in 1..(Len(frames) - 1) : frames'[i] = frames[i]
    <2>1. PICK frame \in Frame : frame = [frames[Len(frames)] EXCEPT !.callee = f]
      BY <1>6, ReturnLengths DEF Frame
    <2>2. frame.callee = f
      BY <1>6, <2>1, ReturnLengths DEF Frame
    <2>3. frames' = [frames EXCEPT ![Len(frames)] = frame]
      BY <1>3, <2>1
    <2>4. /\ frames' \in Seq(Frame) /\ Len(frames') = Len(frames)
          /\ \A i \in 1..Len(frames) : frames'[i] = IF i = Len(frames) THEN frame ELSE frames[i]
      BY <1>6, <2>3, ExceptSeq DEF ReturnInv, ReturnStackSound, TypeOK
    <2> QED BY <1>6, <2>2, <2>4
  <1> DEFINE s == g[Len(trace)]
             u == <<Exit, f>>
             h == [n \in 0..2 |-> IF n = 0 THEN s ELSE IF n = 1 THEN Front(s) ELSE Append(Front(s), f)]
  <1>8. s \in Seq(Callees) /\ Len(s) = Len(frames) /\ \A i \in 1..Len(frames) : s[i] = frames[i].callee
    <2>1. Len(trace) \in 0..Len(trace)
      BY LenProperties DEF ReturnInv, ReturnStackSound, TypeOK
    <2> QED BY <1>1, <1>2, <1>6, <2>1 DEF ShowsStack
  <1>9. Front(s) \in Seq(Callees) /\ Len(Front(s)) = Len(frames) - 1 /\ \A i \in 1..(Len(frames) - 1) : Front(s)[i] = s[i]
    BY <1>6, <1>8, FrontShorter
  <1>10. /\ Append(Front(s), f) \in Seq(Callees) /\ Len(Append(Front(s), f)) = Len(frames)
         /\ Append(Front(s), f)[Len(frames)] = f
         /\ \A i \in 1..(Len(frames) - 1) : Append(Front(s), f)[i] = s[i]
    <2>1. (Len(frames) - 1) + 1 = Len(frames)
      BY <1>6
    <2> QED BY <1>9, <2>1, AppendProperties
  <1>11. trace \in Seq(Callees \cup {Exit}) /\ u \in Seq(Callees \cup {Exit}) /\ Len(u) = 2 /\ u[1] = Exit /\ u[2] = f
    BY DEF ReturnInv, ReturnStackSound, TypeOK
  <1>12. /\ h \in [0..2 -> Seq(Callees)] /\ h[0] = s /\ h[1] = Front(s) /\ h[2] = Append(Front(s), f)
         /\ \A n \in 1..2 : h[n] = SeenAfter(h[n - 1], u[n])
    <2>1. h \in [0..2 -> Seq(Callees)] /\ h[0] = s /\ h[1] = Front(s) /\ h[2] = Append(Front(s), f)
      BY <1>8, <1>9, <1>10
    <2> HIDE DEF h, u
    <2>2. SeenAfter(h[0], u[1]) = h[1] /\ SeenAfter(h[1], u[2]) = h[2]
      BY <1>11, <2>1, ExitAssumption DEF SeenAfter
    <2>3. \A n \in 1..2 : (n = 1 /\ n - 1 = 0) \/ (n = 2 /\ n - 1 = 1)
      OBVIOUS
    <2>4. \A n \in 1..2 : h[n] = SeenAfter(h[n - 1], u[n])
      BY <2>2, <2>3
    <2> QED BY <2>1, <2>4
  <1> HIDE DEF h, u
  <1>13. PICK G \in [0..Len(trace \o u) -> Seq(Callees)] : Replays(G, trace \o u) /\ G[Len(trace \o u)] = h[Len(u)]
    <2>1. h \in [0..Len(u) -> Seq(Callees)] /\ h[0] = g[Len(trace)] /\ \A n \in 1..Len(u) : h[n] = SeenAfter(h[n - 1], u[n])
      BY <1>11, <1>12
    <2> QED BY <1>1, <1>11, <2>1, ReplayExtended
  <1>14. G[Len(trace')] = Append(Front(s), f) /\ G \in [0..Len(trace') -> Seq(Callees)] /\ Replays(G, trace')
    BY <1>5, <1>11, <1>12, <1>13 DEF u
  <1>15. \A i \in 1..Len(frames) : Append(Front(s), f)[i] = frames'[i].callee
    <2> SUFFICES ASSUME NEW i \in 1..Len(frames) PROVE Append(Front(s), f)[i] = frames'[i].callee
      OBVIOUS
    <2>1. CASE i = Len(frames)
      BY <1>7, <1>10, <2>1
    <2>2. CASE i # Len(frames)
      <3>1. i \in 1..(Len(frames) - 1)
        BY <1>6, <2>2
      <3> QED BY <1>7, <1>8, <1>10, <3>1
    <2> QED BY <2>1, <2>2
  <1>16. Len(Append(Front(s), f)) = Len(return_stack') - 1
    BY <1>2, <1>5, <1>6, <1>10
  <1> HIDE DEF s
  <1> QED BY <1>7, <1>14, <1>15, <1>16 DEF TraceRead, ShowsStack, Replays

LEMMA ReturnRead == ReturnInv /\ TraceRead /\ Return => TraceRead'
  <1> SUFFICES ASSUME ReturnInv, TraceRead, Return PROVE TraceRead'
    OBVIOUS
  <1>1. PICK g \in [0..Len(trace) -> Seq(Callees)] : Replays(g, trace) /\ ShowsStack(g[Len(trace)])
    BY DEF TraceRead
  <1>2. frames # <<>> /\ frames' = SubSeq(frames, 1, Len(frames) - 1)
    BY DEF Return
  <1>3. PICK sp \in frames[Len(frames)].stack_ptr..StackSize :
          /\ Len(frames) > 1 => sp < frames[Len(frames) - 1].stack_ptr
          /\ OnExit(sp)
    BY DEF Return
  <1>4. PICK kept \in 1..(Len(return_stack) - 1) :
        /\ Kept(sp, kept)
        /\ return_stack' = SubSeq(return_stack, 1, kept)
        /\ trace' = trace \o [k \in 1..(Len(return_stack) - kept) |-> Exit]
    BY <1>3 DEF OnExit
  <1>5. kept = Len(frames)
    BY <1>2, <1>3, <1>4, CallersKept
  <1>6. Len(frames) \in Nat /\ Len(return_stack) \in Nat /\ Len(frames) >= 1 /\ Len(return_stack) > Len(frames)
    BY <1>2, ReturnLengths, Callers
  <1>7. PICK m \in Nat : m = Len(return_stack) - Len(frames)
    <2>1. ASSUME NEW a \in Nat, NEW b \in Nat, a > b PROVE a - b \in Nat
      BY <2>1
    <2>2. Len(return_stack) - Len(frames) \in Nat
      BY <1>6, <2>1
    <2> QED BY <2>2
  <1>8. m >= 1 /\ Len(return_stack) - 1 = (Len(frames) - 1) + m
    BY <1>6, <1>7
  <1>9. Len(return_stack') = Len(frames)
    <2>1. \A i \in 1..Len(frames) : return_stack[i] \in Entry
      BY <1>6, ReturnLengths
    <2> QED BY <2>1, <1>4, <1>5, <1>6, SubSeqProperties
  <1>10. PICK d \in Nat : d = Len(frames) - 1
    <2>1. ASSUME NEW a \in Nat, a >= 1 PROVE a - 1 \in Nat
      BY <2>1
    <2>2. Len(frames) - 1 \in Nat
      BY <1>6, <2>1
    <2> QED BY <2>2
  <1>11. Len(frames') = d /\ \A i \in 1..d : frames'[i] = frames[i] /\ i \in 1..Len(frames)
    <2>1. frames' = SubSeq(frames, 1, d) /\ \A i \in 1..d : frames[i] \in Frame /\ i \in 1..Len(frames)
      BY <1>2, <1>6, <1>10, ReturnLengths
    <2> QED BY <2>1, SubSeqProperties
  <1> DEFINE s == g[Len(trace)]
             u == [k \in 1..m |-> Exit]
             h == [n \in 0..m |-> SubSeq(s, 1, (d + m) - n)]
  <1>12. s \in Seq(Callees) /\ Len(s) = d + m /\ \A i \in 1..Len(frames) : s[i] = frames[i].callee
    <2>1. Len(trace) \in 0..Len(trace)
      BY LenProperties DEF ReturnInv, ReturnStackSound, TypeOK
    <2> QED BY <1>1, <1>8, <1>10, <2>1 DEF ShowsStack
  <1>13. trace \in Seq(Callees \cup {Exit}) /\ u \in Seq(Callees \cup {Exit}) /\ Len(u) = m /\ \A n \in 1..m : u[n] = Exit
    BY DEF ReturnInv, ReturnStackSound, TypeOK
  <1> HIDE DEF s, u
  <1>14. ASSUME NEW n \in 0..m
         PROVE  /\ h[n] = SubSeq(s, 1, (d + m) - n)
                /\ h[n] \in Seq(Callees) /\ Len(h[n]) = (d + m) - n
                /\ \A i \in 1..((d + m) - n) : h[n][i] = s[i]
    <2>1. PICK e \in Nat : e = (d + m) - n
      BY <1>14
    <2>2. h[n] = SubSeq(s, 1, e)
      BY <2>1
    <2>3. \A i \in 1..e : s[i] \in Callees
      BY <2>1, <1>12, ElementOfSeq
    <2>4. h[n] \in Seq(Callees) /\ Len(h[n]) = e /\ \A i \in 1..e : h[n][i] = s[i]
      BY <2>2, <2>3, SubSeqProperties
    <2> QED BY <2>1, <2>2, <2>4
  <1>15. h \in [0..m -> Seq(Callees)]
    BY <1>14
  <1> HIDE DEF h
  <1>16. h[0] = s
    <2>1. 0 \in 0..m /\ (d + m) - 0 = d + m
      OBVIOUS
    <2>2. h[0] \in Seq(Callees) /\ Len(h[0]) = d + m /\ \A i \in 1..(d + m) : h[0][i] = s[i]
      BY <1>14, <2>1
    <2> QED BY <1>12, <2>2, SeqEqual
  <1>17. ASSUME NEW n \in 1..m PROVE h[n] = SeenAfter(h[n - 1], u[n])
    <2>1. n - 1 \in 0..m /\ n \in 0..m /\ (d + m) - (n - 1) = ((d + m) - n) + 1
      OBVIOUS
    <2>2. PICK e \in Nat : e = (d + m) - n
      BY <2>1
    <2>3. h[n - 1] \in Seq(Callees) /\ Len(h[n - 1]) = e + 1 /\ \A i \in 1..(e + 1) : h[n - 1][i] = s[i]
      BY <1>14, <2>1, <2>2
    <2>4. h[n] \in Seq(Callees) /\ Len(h[n]) = e /\ \A i \in 1..e : h[n][i] = s[i]
      BY <1>14, <2>1, <2>2
    <2>5. e + 1 >= 1 /\ (e + 1) - 1 = e
      OBVIOUS
    <2>6. Front(h[n - 1]) \in Seq(Callees) /\ Len(Front(h[n - 1])) = e /\ \A i \in 1..e : Front(h[n - 1])[i] = h[n - 1][i]
      BY <2>3, <2>5, FrontShorter
    <2>7. \A i \in 1..e : Front(h[n - 1])[i] = h[n][i]
      BY <2>3, <2>4, <2>6
    <2>8. Front(h[n - 1]) = h[n]
      BY <2>4, <2>6, <2>7, SeqEqual
    <2>9. u[n] = Exit
      BY <1>13
    <2> QED BY <2>8, <2>9 DEF SeenAfter
  <1>18. PICK G \in [0..Len(trace \o u) -> Seq(Callees)] : Replays(G, trace \o u) /\ G[Len(trace \o u)] = h[Len(u)]
    <2>1. h \in [0..Len(u) -> Seq(Callees)] /\ h[0] = g[Len(trace)] /\ \A n \in 1..Len(u) : h[n] = SeenAfter(h[n - 1], u[n])
      BY <1>13, <1>15, <1>16, <1>17 DEF s
    <2> QED BY <1>1, <1>13, <2>1, ReplayExtended
  <1>19. trace' = trace \o u
    BY <1>4, <1>5, <1>7 DEF u
  <1>20. G[Len(trace')] = h[m] /\ G \in [0..Len(trace') -> Seq(Callees)] /\ Replays(G, trace')
    BY <1>13, <1>18, <1>19
  <1>21. Len(h[m]) = d /\ \A i \in 1..d : h[m][i] = s[i]
    <2>1. m \in 0..m /\ (d + m) - m = d
      OBVIOUS
    <2> QED BY <1>14, <2>1
  <1>22. Len(h[m]) = Len(return_stack') - 1 /\ \A i \in 1..d : h[m][i] = frames'[i].callee
    BY <1>9, <1>10, <1>11, <1>12, <1>21
  <1> QED BY <1>11, <1>20, <1>22 DEF TraceRead, ShowsStack, Replays

LEMMA SkipRead == ReturnInv /\ TraceRead /\ Skip => TraceRead'
  <1> SUFFICES ASSUME ReturnInv, TraceRead, Skip PROVE TraceRead'
    OBVIOUS
  <1>1. PICK g \in [0..Len(trace) -> Seq(Callees)] : Replays(g, trace) /\ ShowsStack(g[Len(trace)])
    BY DEF TraceRead
  <1>2. PICK n \in 0..(Len(frames) - 1) : frames' = SubSeq(frames, 1, n)
    BY DEF Skip
  <1>3. UNCHANGED <<return_stack, trace>>
    BY DEF Skip
  <1>4. Len(frames') = n /\ \A i \in 1..n : frames'[i] = frames[i] /\ i \in 1..Len(frames)
    <2>1. \A i \in 1..n : frames[i] \in Frame /\ i \in 1..Len(frames)
      BY <1>2, ReturnLengths
    <2>2. n \in Nat
      BY <1>2, ReturnLengths
    <2> QED BY <1>2, <2>1, <2>2, SubSeqProperties
  <1>5. \A i \in 1..Len(frames') : g[Len(trace)][i] = frames'[i].callee
    BY <1>1, <1>4 DEF ShowsStack
  <1> QED BY <1>1, <1>3, <1>5 DEF TraceRead, ShowsStack, Replays

LEMMA StartRead == Init => TraceRead
  <1> SUFFICES ASSUME Init PROVE TraceRead
    OBVIOUS
  <1>1. trace = <<>> /\ Len(trace) = 0 /\ Len(frames) = 0 /\ Len(return_stack) = 1
    BY EmptySeq DEF Init
  <1> DEFINE g == [n \in 0..0 |-> <<>>]
  <1>2. <<>> \in Seq(Callees) /\ Len(<<>>) = 0
    BY EmptySeq
  <1>3. g \in [0..0 -> Seq(Callees)] /\ g[0] = <<>>
    BY <1>2
  <1>4. \A n \in 0..0 : n = 0
    OBVIOUS
  <1>5. Replays(g, trace)
    BY <1>1, <1>4 DEF Replays
  <1> HIDE DEF g
  <1>6. ShowsStack(g[0])
    BY <1>1, <1>2, <1>3 DEF ShowsStack
  <1> QED BY <1>1, <1>3, <1>5, <1>6 DEF TraceRead

\* A reader of the trace sees the functions that run, at the bottom of the
\* stack it builds, and as many above them as frames were left and not yet
\* returned from: however deep the calls, whatever tail calls and skips were
\* made, in any program that returns from the frame it lands in before it calls.
THEOREM TraceTrue == ASSUME NoCallsAfterSkip PROVE Spec => []TraceShowsStack
  <1> DEFINE RInv == ReturnInv /\ TraceRead
  <1>1. Init => RInv
    BY ReturnStart, StartRead
  <1>2. RInv /\ [Next]_vars => RInv'
    <2> SUFFICES ASSUME RInv, [Next]_vars PROVE RInv'
      OBVIOUS
    <2>1. ReturnInv'
      BY ReturnInvStep
    <2>2. CASE Done \/ UNCHANGED vars
      <3>1. TraceRead'
        BY <2>2 DEF Done, vars, TraceRead, ShowsStack, Replays
      <3> QED BY <2>1, <3>1
    <2> QED BY <2>1, <2>2, CallRead, TailCallRead, ReturnRead, SkipRead DEF Next
  <1>3. RInv => TraceShowsStack
    BY TraceReadShows
  <1> QED BY <1>1, <1>2, <1>3, PTL DEF Spec

-----------------------------------------------------------------------------
(* Symbols and the list of functions.                                        *)

LEMMA FoundRange ==
  ASSUME NEW keys \in SUBSET Nat, NEW value \in Nat, NEW k \in find_range(keys, value)
  PROVE  k \in keys /\ k <= value /\ \A q \in keys : q <= value => q <= k
  <1> DEFINE below == {q \in keys : q <= value}
  <1>1. below # {} /\ k = Max(below)
    BY DEF find_range
  <1>2. Max(below) \in below /\ \A q \in below : q <= Max(below)
    <2> HIDE DEF below
    <2>1. below \in SUBSET Nat /\ \A q \in below : q <= value
      BY DEF below
    <2> QED BY <1>1, <2>1, Greatest
  <1> QED BY <1>1, <1>2

LEMMA FlattenedFinite ==
  ASSUME NEW ms, ToSet(ms) \subseteq Modules
  PROVE  IsFiniteSet(Flattened(ms))
  <1> DEFINE Keys(m) == {<<m, k>> : k \in DOMAIN Symbols[m]}
             All == {Keys(m) : m \in ToSet(ms)}
  <1>1. ASSUME NEW m \in Modules PROVE IsFiniteSet(Keys(m))
    <2>1. [k \in DOMAIN Symbols[m] |-> <<m, k>>] \in Surjection(DOMAIN Symbols[m], Keys(m))
      BY DEF Surjection
    <2>2. DOMAIN Symbols[m] = 1..Len(Symbols[m]) /\ Len(Symbols[m]) \in Nat
      BY SymbolsAssumption, LenProperties
    <2>3. IsFiniteSet(DOMAIN Symbols[m])
      BY <2>2, FS_Interval
    <2> QED BY <2>1, <2>3, FS_Surjection
  <1>2. IsFiniteSet(All)
    <2>1. [m \in ToSet(ms) |-> Keys(m)] \in Surjection(ToSet(ms), All)
      BY DEF Surjection
    <2>2. IsFiniteSet(ToSet(ms))
      BY ModulesAssumption, FS_Subset
    <2> QED BY <2>1, <2>2, FS_Surjection
  <1>3. \A T \in All : IsFiniteSet(T)
    BY <1>1
  <1>4. IsFiniteSet(UNION All)
    BY <1>2, <1>3, FS_UNION
  <1> QED BY <1>4 DEF Flattened

\* The rows that ordered::fetch leaves are those that match, once each and in order.
LEMMA FetchedOrdered ==
  ASSUME NEW l, NEW ms, ToSet(ms) \subseteq Modules, NEW p,
         NEW r \in FetchedRows(l, ms, p), "rows" \in DOMAIN l
  PROVE  \E rows \in SetToSeqs(MatchingNames(ms, l.filter)) :
           /\ r = [l EXCEPT !.rows = rows] /\ InOrder(l, p, rows)
           /\ ToSet(rows) = MatchingNames(ms, l.filter) /\ Len(rows) = Cardinality(ToSet(rows))
  <1>1. PICK rows \in SetToSeqs(MatchingNames(ms, l.filter)) : r = [l EXCEPT !.rows = rows] /\ InOrder(l, p, rows)
    BY DEF FetchedRows
  <1>2. IsFiniteSet(MatchingNames(ms, l.filter))
    BY FlattenedFinite, FS_Subset DEF MatchingNames
  <1>3. ToSet(rows) = MatchingNames(ms, l.filter) /\ Len(rows) = Cardinality(ToSet(rows))
    BY <1>2, Permuted
  <1> QED BY <1>1, <1>3

-----------------------------------------------------------------------------
(* symbol_resolver and image_patch_model: types and the invariant.           *)

SymbolTypeOK ==
  /\ mapped \in SUBSET Modules
  /\ loaded \in Seq(Modules)
  /\ waiting \in [Modules -> SUBSET {"names", "list"}]
  /\ names \in [cached : SUBSET Modules, requested : SUBSET Modules]
  /\ DOMAIN listed = {"rows", "requested", "paths", "filter", "column", "ascending"}
  /\ lookedUp \in SUBSET Modules

\* Who waits for metadata waits for a mapped module whose metadata is not there;
\* the list has asked for each mapped module and the resolver remembers its
\* requests until they are answered.
WaitingForMissing ==
  /\ \A m \in Modules : waiting[m] # {} => m \in mapped /\ m \notin ToSet(loaded)
  /\ listed.requested = mapped
  /\ \A m \in names.requested : "names" \in waiting[m]

LookedUpAwaited == \A m \in lookedUp : m \in names.cached \/ "names" \in waiting[m]

SymbolInv == SymbolTypeOK /\ WaitingForMissing /\ LookedUpAwaited /\ FunctionsListed

LEMMA LoadedModules ==
  ASSUME SymbolTypeOK
  PROVE  ToSet(loaded) \subseteq Modules
  <1>1. \A i \in DOMAIN loaded : loaded[i] \in Modules
    BY LenProperties, ElementOfSeq DEF SymbolTypeOK
  <1> QED BY <1>1 DEF ToSet

\* A fetch, whatever it is for.
LEMMA FetchLists ==
  ASSUME NEW l, NEW ms, ToSet(ms) \subseteq Modules, NEW p, NEW r \in FetchedRows(l, ms, p),
         DOMAIN l = {"rows", "requested", "paths", "filter", "column", "ascending"}
  PROVE  /\ DOMAIN r = {"rows", "requested", "paths", "filter", "column", "ascending"}
         /\ r.requested = l.requested /\ r.filter = l.filter
         /\ ToSet(r.rows) = MatchingNames(ms, r.filter)
         /\ Len(r.rows) = Cardinality(ToSet(r.rows))
         /\ InOrder(r, p, r.rows)
  <1>1. PICK rows \in SetToSeqs(MatchingNames(ms, l.filter)) :
           /\ r = [l EXCEPT !.rows = rows] /\ InOrder(l, p, rows)
           /\ ToSet(rows) = MatchingNames(ms, l.filter) /\ Len(rows) = Cardinality(ToSet(rows))
    BY FetchedOrdered
  <1>2. /\ r.rows = rows /\ r.requested = l.requested /\ r.filter = l.filter /\ r.column = l.column
        /\ r.paths = l.paths /\ r.ascending = l.ascending
        /\ DOMAIN r = DOMAIN l
    BY <1>1
  <1>3. \A i, j \in DOMAIN rows : Less(r, p, rows[j], rows[i]) <=> Less(l, p, rows[j], rows[i])
    BY <1>2 DEF Less, ComparedRows
  <1>4. InOrder(r, p, rows)
    BY <1>1, <1>3 DEF InOrder
  <1> QED BY <1>1, <1>2, <1>4

LEMMA SymbolInit == SymbolTablesInit => SymbolInv
  <1> SUFFICES ASSUME SymbolTablesInit PROVE SymbolInv
    OBVIOUS
  <1>1. ToSet(<<>>) = {} /\ Len(<<>>) = 0 /\ Cardinality({}) = 0
    BY FS_EmptySet DEF ToSet
  <1>2. SymbolTypeOK
    BY EmptySeq DEF SymbolTablesInit, SymbolTypeOK
  <1>3. WaitingForMissing /\ LookedUpAwaited
    BY DEF SymbolTablesInit, WaitingForMissing, LookedUpAwaited
  <1>4. listed.rows = <<>> /\ loaded = <<>> /\ mapped = {}
    BY DEF SymbolTablesInit
  <1>5. MatchingNames(<<>>, listed.filter) = {}
    BY <1>1 DEF MatchingNames, Flattened
  <1>6. FunctionsListed
    BY <1>1, <1>4, <1>5 DEF FunctionsListed, InOrder
  <1> QED BY <1>2, <1>3, <1>6 DEF SymbolInv

LEMMA LookUpStep ==
  ASSUME SymbolInv, NEW a \in Addresses, symbol_name_by_va(a)
  PROVE  SymbolInv'
  <1>1. PICK m \in MappingOf(a) :
          /\ lookedUp' = lookedUp \cup {m}
          /\ IF m \in names.cached \cup names.requested THEN UNCHANGED <<names, waiting>>
             ELSE IF m \in ToSet(loaded)
             THEN names' = [names EXCEPT !.cached = @ \cup {m}] /\ UNCHANGED waiting
             ELSE /\ names' = [names EXCEPT !.requested = @ \cup {m}]
                  /\ waiting' = [waiting EXCEPT ![m] = @ \cup {"names"}]
    BY DEF symbol_name_by_va
  <1>2. m \in mapped /\ m \in Modules
    BY DEF MappingOf, SymbolInv, SymbolTypeOK
  <1>3. UNCHANGED <<mapped, loaded, listed, patches>>
    BY DEF symbol_name_by_va
  <1>4. SymbolTypeOK'
    BY <1>1, <1>2, <1>3 DEF SymbolInv, SymbolTypeOK
  <1>5. /\ \A q \in Modules : waiting[q] \subseteq waiting'[q]
        /\ \A q \in Modules : q # m => waiting'[q] = waiting[q]
        /\ waiting'[m] # waiting[m] => m \notin ToSet(loaded)
    BY <1>1, <1>2 DEF SymbolInv, SymbolTypeOK
  <1>6. /\ names.cached \subseteq names'.cached
        /\ m \in names'.cached \/ "names" \in waiting'[m]
        /\ \A q \in names'.requested : "names" \in waiting'[q]
    <2>1. CASE m \in names.cached \cup names.requested
      BY <1>1, <2>1 DEF SymbolInv, WaitingForMissing
    <2>2. CASE m \notin names.cached \cup names.requested /\ m \in ToSet(loaded)
      <3>1. names'.cached = names.cached \cup {m} /\ names'.requested = names.requested /\ waiting' = waiting
        BY <1>1, <2>2 DEF SymbolInv, SymbolTypeOK
      <3> QED BY <3>1 DEF SymbolInv, WaitingForMissing
    <2>3. CASE m \notin names.cached \cup names.requested /\ m \notin ToSet(loaded)
      <3>1. /\ names'.cached = names.cached /\ names'.requested = names.requested \cup {m}
            /\ waiting' = [waiting EXCEPT ![m] = @ \cup {"names"}]
        BY <1>1, <2>3 DEF SymbolInv, SymbolTypeOK
      <3>2. "names" \in waiting'[m]
        BY <1>2, <3>1 DEF SymbolInv, SymbolTypeOK
      <3>3. names.requested \subseteq Modules
        BY DEF SymbolInv, SymbolTypeOK
      <3> QED BY <1>5, <3>1, <3>2, <3>3 DEF SymbolInv, WaitingForMissing
    <2> QED BY <2>1, <2>2, <2>3
  <1>7. WaitingForMissing'
    BY <1>2, <1>3, <1>5, <1>6 DEF SymbolInv, WaitingForMissing
  <1>8. LookedUpAwaited'
    <2>1. lookedUp \subseteq Modules
      BY DEF SymbolInv, SymbolTypeOK
    <2> QED BY <1>1, <1>5, <1>6, <2>1 DEF SymbolInv, LookedUpAwaited
  <1>9. FunctionsListed'
    <2>1. \A q \in mapped : q \in ToSet(loaded) \/ "list" \in waiting'[q]
      BY <1>5 DEF SymbolInv, FunctionsListed, SymbolTypeOK
    <2>2. InOrder(listed, patches, listed.rows)' /\ MatchingNames(loaded, listed.filter)' = MatchingNames(loaded, listed.filter)
      BY <1>3 DEF SymbolInv, FunctionsListed, InOrder, Less, ComparedRows, MatchingNames, Flattened
    <2> QED BY <1>3, <2>1, <2>2 DEF SymbolInv, FunctionsListed
  <1> QED BY <1>4, <1>7, <1>8, <1>9 DEF SymbolInv

LEMMA RefreshStep ==
  ASSUME SymbolInv, NEW ms \in SUBSET Modules, refresh(ms)
  PROVE  SymbolInv'
  <1> DEFINE l == [listed EXCEPT !.paths = @ \cup mapped', !.requested = @ \cup mapped']
  <1>1. /\ mapped' = mapped \cup ms /\ listed' \in FetchedRows(l, loaded, patches)
        /\ waiting' = [m \in Modules |-> IF m \in mapped' \ (listed.requested \cup ToSet(loaded))
                                         THEN waiting[m] \cup {"list"} ELSE waiting[m]]
        /\ UNCHANGED <<loaded, names, patches, lookedUp>>
    BY DEF refresh
  <1>2. /\ DOMAIN l = {"rows", "requested", "paths", "filter", "column", "ascending"}
        /\ l.requested = listed.requested \cup mapped'
    BY DEF SymbolInv, SymbolTypeOK
  <1>3. ToSet(loaded) \subseteq Modules /\ ToSet(loaded)' = ToSet(loaded)
    BY <1>1, LoadedModules DEF SymbolInv, ToSet
  <1>4. /\ DOMAIN listed' = {"rows", "requested", "paths", "filter", "column", "ascending"}
        /\ listed'.requested = l.requested
        /\ ToSet(listed'.rows) = MatchingNames(loaded, listed'.filter)
        /\ Len(listed'.rows) = Cardinality(ToSet(listed'.rows))
        /\ InOrder(listed', patches, listed'.rows)
    <2> HIDE DEF l
    <2> QED BY <1>1, <1>2, <1>3, FetchLists
  <1>5. SymbolTypeOK'
    BY <1>1, <1>4 DEF SymbolInv, SymbolTypeOK
  <1>6. WaitingForMissing'
    <2>1. \A m \in Modules : waiting'[m] # {} => m \in mapped' /\ m \notin ToSet(loaded)
      BY <1>1 DEF SymbolInv, WaitingForMissing
    <2>2. listed'.requested = mapped'
      BY <1>1, <1>2, <1>4 DEF SymbolInv, WaitingForMissing
    <2>3. \A m \in names.requested : "names" \in waiting'[m]
      BY <1>1 DEF SymbolInv, WaitingForMissing, SymbolTypeOK
    <2> QED BY <1>1, <1>3, <2>1, <2>2, <2>3 DEF WaitingForMissing
  <1>7. LookedUpAwaited'
    BY <1>1 DEF SymbolInv, LookedUpAwaited, SymbolTypeOK
  <1>8. FunctionsListed'
    <2>1. ASSUME NEW m \in mapped' PROVE m \in ToSet(loaded) \/ "list" \in waiting'[m]
      <3>1. m \in Modules
        BY <1>5 DEF SymbolTypeOK
      <3>2. CASE m \in mapped
        BY <1>1, <3>1, <3>2 DEF SymbolInv, FunctionsListed
      <3>3. CASE m \notin mapped
        BY <1>1, <2>1, <3>1, <3>3 DEF SymbolInv, WaitingForMissing
      <3> QED BY <3>2, <3>3
    <2>2. InOrder(listed, patches, listed.rows)'
      BY <1>1, <1>4 DEF InOrder, Less, ComparedRows
    <2>3. MatchingNames(loaded, listed.filter)' = MatchingNames(loaded, listed'.filter)
      BY <1>1 DEF MatchingNames, Flattened
    <2>4. ToSet(listed.rows)' = ToSet(listed'.rows)
      BY DEF ToSet
    <2> QED BY <1>1, <1>3, <1>4, <2>1, <2>2, <2>3, <2>4 DEF FunctionsListed
  <1> QED BY <1>5, <1>6, <1>7, <1>8 DEF SymbolInv

LEMMA MetadataStep ==
  ASSUME SymbolInv, NEW m \in Modules, MetadataReady(m)
  PROVE  SymbolInv'
  <1>1. /\ waiting[m] # {} /\ loaded' = Append(loaded, m)
        /\ waiting' = [waiting EXCEPT ![m] = {}]
        /\ UNCHANGED <<mapped, patches, lookedUp>>
    BY DEF MetadataReady
  <1>2. m \in mapped /\ m \notin ToSet(loaded) /\ "list" \in waiting[m]
    BY <1>1 DEF SymbolInv, WaitingForMissing, FunctionsListed
  <1>3. loaded' \in Seq(Modules) /\ ToSet(loaded') = ToSet(loaded) \cup {m}
    <2>1. /\ loaded' \in Seq(Modules) /\ DOMAIN loaded' = 1..(Len(loaded) + 1) /\ DOMAIN loaded = 1..Len(loaded)
          /\ loaded'[Len(loaded) + 1] = m /\ \A i \in 1..Len(loaded) : loaded'[i] = loaded[i]
          /\ Len(loaded) \in Nat
      BY <1>1, AppendProperties, LenProperties DEF SymbolInv, SymbolTypeOK
    <2> QED BY <2>1 DEF ToSet
  <1>4. listed' \in FetchedRows(listed, loaded', patches)
    BY <1>1, <1>2 DEF MetadataReady
  <1>5. ToSet(loaded') \subseteq Modules
    BY <1>3, LoadedModules DEF SymbolInv
  <1>6. /\ DOMAIN listed' = {"rows", "requested", "paths", "filter", "column", "ascending"}
        /\ listed'.requested = listed.requested
        /\ ToSet(listed'.rows) = MatchingNames(loaded', listed'.filter)
        /\ Len(listed'.rows) = Cardinality(ToSet(listed'.rows))
        /\ InOrder(listed', patches, listed'.rows)
    BY <1>4, <1>5, FetchLists DEF SymbolInv, SymbolTypeOK
  <1>7. names' \in [cached : SUBSET Modules, requested : SUBSET Modules]
    BY DEF MetadataReady, SymbolInv, SymbolTypeOK
  <1>8. SymbolTypeOK'
    BY <1>1, <1>3, <1>6, <1>7 DEF SymbolInv, SymbolTypeOK
  <1>9. /\ names.cached \subseteq names'.cached
        /\ "names" \in waiting[m] => m \in names'.cached /\ m \notin names'.requested
        /\ names'.requested \subseteq names.requested
    BY DEF MetadataReady
  <1>10. waiting'[m] = {} /\ \A q \in Modules : q # m => waiting'[q] = waiting[q]
    BY <1>1 DEF SymbolInv, SymbolTypeOK
  <1>11. WaitingForMissing'
    <2>1. \A q \in Modules : waiting'[q] # {} => q \in mapped /\ q \notin ToSet(loaded')
      BY <1>3, <1>10 DEF SymbolInv, WaitingForMissing
    <2>2. \A q \in names'.requested : "names" \in waiting'[q]
      BY <1>7, <1>9, <1>10 DEF SymbolInv, WaitingForMissing
    <2>3. ToSet(loaded)' = ToSet(loaded')
      BY DEF ToSet
    <2> QED BY <1>1, <1>6, <2>1, <2>2, <2>3 DEF SymbolInv, WaitingForMissing
  <1>12. LookedUpAwaited'
    BY <1>1, <1>9, <1>10 DEF SymbolInv, LookedUpAwaited, SymbolTypeOK
  <1>13. FunctionsListed'
    <2>1. \A q \in mapped : q \in ToSet(loaded') \/ "list" \in waiting'[q]
      BY <1>3, <1>10 DEF SymbolInv, FunctionsListed, SymbolTypeOK
    <2>2. InOrder(listed, patches, listed.rows)'
      BY <1>1, <1>6 DEF InOrder, Less, ComparedRows
    <2>3. MatchingNames(loaded, listed.filter)' = MatchingNames(loaded', listed'.filter)
      BY DEF MatchingNames, Flattened, ToSet
    <2>4. ToSet(listed.rows)' = ToSet(listed'.rows) /\ ToSet(loaded)' = ToSet(loaded')
      BY DEF ToSet
    <2> QED BY <1>1, <1>6, <2>1, <2>2, <2>3, <2>4 DEF FunctionsListed
  <1> QED BY <1>8, <1>11, <1>12, <1>13 DEF SymbolInv

\* The steps that only sort or fetch the rows anew.
LEMMA ListStep ==
  ASSUME SymbolInv, UNCHANGED <<mapped, loaded, waiting, names, lookedUp>>,
         DOMAIN listed' = {"rows", "requested", "paths", "filter", "column", "ascending"},
         listed'.requested = listed.requested,
         ToSet(listed'.rows) = MatchingNames(loaded, listed'.filter),
         Len(listed'.rows) = Cardinality(ToSet(listed'.rows)),
         InOrder(listed', patches', listed'.rows)
  PROVE  SymbolInv'
  <1>1. SymbolTypeOK'
    BY DEF SymbolInv, SymbolTypeOK
  <1>2. ToSet(listed.rows)' = ToSet(listed'.rows) /\ ToSet(loaded)' = ToSet(loaded)
    BY DEF ToSet
  <1>3. WaitingForMissing' /\ LookedUpAwaited'
    BY <1>2 DEF SymbolInv, WaitingForMissing, LookedUpAwaited
  <1>4. InOrder(listed, patches, listed.rows)'
    BY DEF InOrder, Less, ComparedRows, KeyOf, SymbolAt
  <1>5. MatchingNames(loaded, listed.filter)' = MatchingNames(loaded, listed'.filter)
    BY DEF MatchingNames, Flattened, SymbolAt
  <1>6. FunctionsListed'
    BY <1>2, <1>4, <1>5 DEF SymbolInv, FunctionsListed
  <1> QED BY <1>1, <1>3, <1>6 DEF SymbolInv

LEMMA PatchesStep ==
  ASSUME SymbolInv, NEW key, NEW s, PatchesInvalidated(key, s)
  PROVE  SymbolInv'
  <1>1. listed' \in FetchedRows(listed, loaded, patches') /\ UNCHANGED <<mapped, loaded, waiting, names, lookedUp>>
    BY DEF PatchesInvalidated
  <1> QED BY <1>1, LoadedModules, FetchLists, ListStep DEF SymbolInv, SymbolTypeOK

LEMMA FilterStep ==
  ASSUME SymbolInv, NEW f, set_filter(f)
  PROVE  SymbolInv'
  <1> DEFINE l == [listed EXCEPT !.filter = f]
  <1>1. /\ listed' \in FetchedRows(l, loaded, patches)
        /\ UNCHANGED <<mapped, loaded, waiting, names, patches, lookedUp>>
    BY DEF set_filter
  <1>2. /\ DOMAIN l = {"rows", "requested", "paths", "filter", "column", "ascending"}
        /\ l.requested = listed.requested
    BY DEF SymbolInv, SymbolTypeOK
  <1>3. ToSet(loaded) \subseteq Modules
    BY LoadedModules DEF SymbolInv
  <1> HIDE DEF l
  <1>4. /\ DOMAIN listed' = {"rows", "requested", "paths", "filter", "column", "ascending"}
        /\ listed'.requested = listed.requested
        /\ ToSet(listed'.rows) = MatchingNames(loaded, listed'.filter)
        /\ Len(listed'.rows) = Cardinality(ToSet(listed'.rows))
        /\ InOrder(listed', patches, listed'.rows)
    BY <1>1, <1>2, <1>3, FetchLists
  <1>5. InOrder(listed', patches', listed'.rows)
    BY <1>1, <1>4
  <1> QED BY <1>1, <1>4, <1>5, ListStep

LEMMA OrderStep ==
  ASSUME SymbolInv, NEW c, NEW a, set_order_patches(c, a)
  PROVE  SymbolInv'
  <1>1. PICK rows \in SetToSeqs(ToSet(listed.rows)) :
          listed' = [listed EXCEPT !.column = c, !.ascending = a, !.rows = rows]
    BY DEF set_order_patches
  <1>2. /\ InOrder(listed', patches, listed'.rows)
        /\ UNCHANGED <<mapped, loaded, waiting, names, patches, lookedUp>>
    BY DEF set_order_patches
  <1>3. /\ DOMAIN listed' = {"rows", "requested", "paths", "filter", "column", "ascending"}
        /\ listed'.requested = listed.requested /\ listed'.filter = listed.filter /\ listed'.rows = rows
    BY <1>1 DEF SymbolInv, SymbolTypeOK
  <1>4. ToSet(listed.rows) = MatchingNames(loaded, listed.filter)
    BY DEF SymbolInv, FunctionsListed
  <1>5. IsFiniteSet(ToSet(listed.rows))
    BY <1>4, LoadedModules, FlattenedFinite, FS_Subset DEF MatchingNames, SymbolInv
  <1>6. ToSet(rows) = ToSet(listed.rows) /\ Len(rows) = Cardinality(ToSet(rows))
    BY <1>1, <1>5, Permuted
  <1> QED BY <1>2, <1>3, <1>4, <1>6, ListStep

LEMMA SymbolStep == SymbolInv /\ [SymbolTablesNext]_symbolVars => SymbolInv'
  <1> SUFFICES ASSUME SymbolInv, [SymbolTablesNext]_symbolVars PROVE SymbolInv'
    OBVIOUS
  <1>1. CASE UNCHANGED symbolVars
    <2>1. /\ InOrder(listed, patches, listed.rows)' = InOrder(listed, patches, listed.rows)
          /\ MatchingNames(loaded, listed.filter)' = MatchingNames(loaded, listed.filter)
          /\ ToSet(listed.rows)' = ToSet(listed.rows) /\ ToSet(loaded)' = ToSet(loaded)
      BY <1>1 DEF symbolVars, InOrder, Less, ComparedRows, KeyOf, SymbolAt, MatchingNames, Flattened, ToSet
    <2> QED BY <1>1, <2>1 DEF symbolVars, SymbolInv, SymbolTypeOK, WaitingForMissing, LookedUpAwaited, FunctionsListed
  <1> QED BY <1>1, LookUpStep, RefreshStep, MetadataStep, PatchesStep, FilterStep, OrderStep DEF SymbolTablesNext

\* The list of functions is complete: whatever comes first, mappings, metadata,
\* look-ups, patches or clicks, it has one row for each symbol read that matches,
\* those that share a key included, in order, and waits for each mapped module whose symbols are not there.
THEOREM ListIsComplete == SymbolTablesSpec => []FunctionsListed
  <1>1. SymbolInv => FunctionsListed
    BY DEF SymbolInv
  <1> QED BY <1>1, SymbolInit, SymbolStep, PTL DEF SymbolTablesSpec

\* No symbol of a module begins inside another one, and those that begin at one
\* place, as the two entries of an exported function, end at one.
SymbolsApart ==
  \A m \in Modules : \A s, q \in ToSet(Symbols[m]) :
    ~(q.rva < s.rva /\ s.rva < q.rva + q.size) /\ (q.rva = s.rva => q.size = s.size)

LEMMA SymbolsTyped ==
  ASSUME NEW m \in Modules, NEW s \in ToSet(Symbols[m])
  PROVE  s.rva \in Nat /\ s.size \in Nat
  <1>1. PICK i \in DOMAIN Symbols[m] : s = Symbols[m][i]
    BY DEF ToSet
  <1>2. s \in [rva : Nat, size : Nat, name : Nat]
    BY <1>1, SymbolsAssumption, LenProperties, ElementOfSeq
  <1> QED BY <1>2

\* The resolver's index has a symbol of each rva.
LEMMA SymbolsIndexed ==
  ASSUME NEW m \in Modules
  PROVE  /\ DOMAIN cached_symbols(m) = {q.rva : q \in ToSet(Symbols[m])}
         /\ DOMAIN cached_symbols(m) \in SUBSET Nat
         /\ \A r \in DOMAIN cached_symbols(m) :
              cached_symbols(m)[r] \in ToSet(Symbols[m]) /\ cached_symbols(m)[r].rva = r
  <1>1. DOMAIN cached_symbols(m) = {q.rva : q \in ToSet(Symbols[m])}
    BY DEF cached_symbols
  <1>2. DOMAIN cached_symbols(m) \in SUBSET Nat
    BY <1>1, SymbolsTyped
  <1>3. ASSUME NEW r \in DOMAIN cached_symbols(m)
        PROVE  cached_symbols(m)[r] \in ToSet(Symbols[m]) /\ cached_symbols(m)[r].rva = r
    <2> DEFINE places == {k \in DOMAIN Symbols[m] : Symbols[m][k].rva = r}
    <2>1. cached_symbols(m)[r] = Symbols[m][Max(places)]
      BY <1>1, <1>3 DEF cached_symbols
    <2>2. DOMAIN Symbols[m] = 1..Len(Symbols[m]) /\ Len(Symbols[m]) \in Nat
      BY SymbolsAssumption, LenProperties
    <2>3. places \in SUBSET Nat /\ \A k \in places : k <= Len(Symbols[m])
      BY <2>2
    <2>4. places # {}
      BY <1>1, <1>3 DEF ToSet
    <2>5. Max(places) \in places
      <3> HIDE DEF places
      <3> QED BY <2>2, <2>3, <2>4, Greatest
    <2> QED BY <2>1, <2>5 DEF ToSet
  <1> QED BY <1>1, <1>2, <1>3

\* What find_symbol_by_va returns for an address of a mapped module.
LEMMA SymbolFound ==
  ASSUME SymbolInv, SymbolsApart, NEW a \in Addresses, NEW m \in MappingOf(a), a - Base[m] < 2^Width
  PROVE  LET s == find_symbol_by_va(a, names.cached) IN
           IF s # none THEN Base[m] + s.rva <= a /\ a < Base[m] + s.rva + s.size
           ELSE m \notin names.cached \/ \A q \in ToSet(Symbols[m]) : a - Base[m] \notin q.rva..(q.rva + q.size - 1)
  <1> DEFINE Reached(q) == {s \in Candidates(a, q) : Rva(a, q) - s.rva < s.size}
             found == UNION {Reached(q) : q \in MappingOf(a) \cap names.cached}
             s0 == find_symbol_by_va(a, names.cached)
  <1>1. s0 = IF found = {} THEN none ELSE CHOOSE s \in found : TRUE
    BY DEF find_symbol_by_va
  <1>2. a \in Nat /\ \A q \in Modules : Base[q] \in Nat
    BY ModulesAssumption
  <1>3. ASSUME NEW q \in MappingOf(a) PROVE q \in Modules /\ Base[q] = Base[m] /\ Base[q] <= a
    <2> DEFINE bases == {Base[r] : r \in mapped}
    <2>1. mapped \subseteq Modules
      BY DEF SymbolInv, SymbolTypeOK
    <2>2. q \in mapped /\ m \in mapped /\ Base[q] \in find_range(bases, a) /\ Base[m] \in find_range(bases, a)
      BY <1>3 DEF MappingOf
    <2>3. bases \in SUBSET Nat
      BY <1>2, <2>1
    <2> HIDE DEF bases
    <2>4. Base[q] \in bases /\ Base[q] <= a /\ Base[m] \in bases /\ Base[m] <= a
          /\ Base[m] <= Base[q] /\ Base[q] <= Base[m]
      BY <1>2, <2>2, <2>3, FoundRange
    <2> QED BY <1>2, <2>1, <2>2, <2>4
  <1>4. m \in Modules /\ Base[m] <= a
    BY <1>3
  <1>5. a - Base[m] \in Nat
    BY <1>2, <1>4
  <1>6. \A q \in MappingOf(a) : Rva(a, q) = a - Base[m]
    <2>1. (a - Base[m]) % 2^Width = a - Base[m]
      <3>1. ASSUME NEW x \in Nat, NEW n \in Nat \ {0}, x < n PROVE x % n = x
        BY <3>1
      <3> QED BY <1>5, <3>1, WidthAssumption
    <2> QED BY <1>3, <2>1 DEF Rva
  <1>7. ASSUME NEW s \in found PROVE s.rva <= a - Base[m] /\ (a - Base[m]) - s.rva < s.size /\ s.rva \in Nat /\ s.size \in Nat
    <2>1. PICK q \in MappingOf(a) \cap names.cached : s \in Candidates(a, q) /\ Rva(a, q) - s.rva < s.size
      BY <1>7
    <2>2. PICK r \in find_range(DOMAIN cached_symbols(q), a - Base[m]) : s = cached_symbols(q)[r]
      BY <1>6, <2>1 DEF Candidates
    <2>3. q \in Modules
      BY <1>3
    <2>4. r \in DOMAIN cached_symbols(q) /\ r <= a - Base[m]
      BY <1>5, <2>2, <2>3, SymbolsIndexed, FoundRange
    <2>5. s \in ToSet(Symbols[q]) /\ s.rva = r
      BY <2>2, <2>3, <2>4, SymbolsIndexed
    <2>6. s.rva \in Nat /\ s.size \in Nat
      BY <2>3, <2>5, SymbolsTyped
    <2> QED BY <1>6, <2>1, <2>4, <2>5, <2>6
  <1>8. CASE found # {}
    <2>1. s0 \in found
      BY <1>1, <1>8
    <2>2. s0.rva <= a - Base[m] /\ (a - Base[m]) - s0.rva < s0.size /\ s0.rva \in Nat /\ s0.size \in Nat
      BY <1>7, <2>1
    <2>3. Base[m] + s0.rva <= a /\ a < Base[m] + s0.rva + s0.size /\ s0.size # 0
      BY <1>2, <1>4, <2>2
    <2>4. s0 # none
      BY <2>3 DEF none
    <2> QED BY <2>3, <2>4
  <1>9. CASE found = {}
    <2>1. s0 = none
      BY <1>1, <1>9
    <2>2. ASSUME m \in names.cached, NEW q \in ToSet(Symbols[m]), a - Base[m] \in q.rva..(q.rva + q.size - 1)
          PROVE  FALSE
      <3> DEFINE keys == DOMAIN cached_symbols(m)
                 rva == a - Base[m]
      <3>1. q.rva \in Nat /\ q.size \in Nat /\ keys \in SUBSET Nat /\ q.rva \in keys /\ rva \in Nat
        BY <1>4, <1>5, SymbolsTyped, SymbolsIndexed
      <3>2. q.rva <= rva /\ rva < q.rva + q.size
        BY <2>2, <3>1
      <3>3. PICK k \in keys : k \in find_range(keys, rva) /\ k <= rva /\ q.rva <= k
        <4> DEFINE below == {x \in keys : x <= rva}
        <4>1. below # {} /\ below \in SUBSET Nat /\ (\A x \in below : x <= rva) /\ q.rva \in below
          BY <3>1, <3>2
        <4>2. find_range(keys, rva) = {Max(below)}
          BY <4>1 DEF find_range
        <4>3. Max(below) \in below /\ \A x \in below : x <= Max(below)
          <5> HIDE DEF below, rva, keys
          <5> QED BY <3>1, <4>1, Greatest
        <4> QED BY <4>1, <4>2, <4>3
      <3> DEFINE s == cached_symbols(m)[k]
      <3>4. s \in ToSet(Symbols[m]) /\ s.rva = k
        BY <1>4, <3>3, SymbolsIndexed
      <3> HIDE DEF s
      <3>5. s.rva \in Nat /\ s.size \in Nat
        BY <1>4, <3>4, SymbolsTyped
      <3>6. s.rva = q.rva /\ s.size = q.size
        BY <1>4, <3>1, <3>2, <3>3, <3>4, <3>5 DEF SymbolsApart
      <3>7. s \in Candidates(a, m)
        BY <1>6, <3>3 DEF Candidates, s
      <3>8. Rva(a, m) - s.rva < s.size
        BY <1>6, <3>1, <3>2, <3>6
      <3>9. s \in found
        BY <2>2, <3>7, <3>8
      <3> QED BY <1>9, <3>9
    <2> QED BY <2>1, <2>2
  <1> QED BY <1>8, <1>9

\* The resolver names an address by the symbol that contains it, and by none
\* when none does, as long as no symbol begins inside another one and those that
\* begin at one place end at one; and it has
\* the symbols of a module in which it looked an address up, or waits for them.
THEOREM NamesAreRight == ASSUME SymbolsApart PROVE SymbolTablesSpec => []SymbolsResolved
  <1>1. SymbolInv => SymbolsResolved
    BY SymbolFound DEF SymbolInv, LookedUpAwaited, SymbolsResolved
  <1> QED BY <1>1, SymbolInit, SymbolStep, PTL DEF SymbolTablesSpec

-----------------------------------------------------------------------------
(* The translation of a function that was moved.                             *)

\* The sums of lengths are there, and are numbers.
LEMMA BytesType ==
  ASSUME NEW lengths \in Seq(Nat)
  PROVE  Bytes(lengths) \in Nat /\ (Len(lengths) = 0 => Bytes(lengths) = 0)
  <1> DEFINE Added(g, n) == g = [i \in 0..n |-> IF i = 0 THEN 0 ELSE g[i - 1] + lengths[i]]
             Bad == {n \in 0..Len(lengths) : ~\E g \in [0..n -> Nat] : Added(g, n)}
             upto[n \in 0..Len(lengths)] == IF n = 0 THEN 0 ELSE upto[n - 1] + lengths[n]
  <1>0. Len(lengths) \in Nat /\ \A i \in 1..Len(lengths) : lengths[i] \in Nat
    BY LenProperties, ElementOfSeq
  <1>1. Bad = {}
    <2> SUFFICES ASSUME Bad # {} PROVE FALSE
      OBVIOUS
    <2>1. Bad \in SUBSET Nat
      BY <1>0
    <2>2. PICK n \in Bad : \A m \in Bad : n <= m
      <3> HIDE DEF Bad
      <3> QED BY <2>1, Least
    <2>3. CASE n = 0
      <3> DEFINE g == [i \in 0..0 |-> 0]
      <3>1. g \in [0..0 -> Nat] /\ Added(g, 0)
        OBVIOUS
      <3> QED BY <2>3, <3>1
    <2>4. CASE n # 0
      <3>1. n \in 1..Len(lengths) /\ n - 1 \in 0..Len(lengths) /\ n - 1 \notin Bad
        <4>1. n \in 0..Len(lengths)
          BY <2>2
        <4>2. n \in 1..Len(lengths) /\ n - 1 \in 0..Len(lengths) /\ ~(n <= n - 1)
          BY <1>0, <2>4, <4>1
        <4> QED BY <2>2, <4>2
      <3>2. PICK g \in [0..(n - 1) -> Nat] : Added(g, n - 1)
        BY <3>1
      <3> DEFINE h == [i \in 0..n |-> IF i = n THEN g[n - 1] + lengths[n] ELSE g[i]]
      <3>3. h \in [0..n -> Nat]
        BY <1>0, <3>1
      <3>4. Added(h, n)
        <4>1. ASSUME NEW i \in 0..n PROVE h[i] = IF i = 0 THEN 0 ELSE h[i - 1] + lengths[i]
          <5>1. CASE i = n
            BY <3>1, <5>1
          <5>2. CASE i # n
            <6>1. i \in 0..(n - 1) /\ (i # 0 => i - 1 \in 0..(n - 1))
              BY <3>1, <5>2
            <6>2. g[i] = IF i = 0 THEN 0 ELSE g[i - 1] + lengths[i]
              BY <3>2, <6>1
            <6> QED BY <3>1, <5>2, <6>1, <6>2
          <5> QED BY <5>1, <5>2
        <4> QED BY <3>3, <4>1
      <3> QED BY <3>3, <3>4
    <2> QED BY <2>3, <2>4
  <1>2. PICK g \in [0..Len(lengths) -> Nat] : Added(g, Len(lengths))
    BY <1>0, <1>1
  <1>3. Added(upto, Len(lengths))
    BY <1>2
  <1>4. Bytes(lengths) = upto[Len(lengths)]
    BY DEF Bytes
  <1> HIDE DEF upto
  <1>5. ASSUME {n \in 0..Len(lengths) : upto[n] \notin Nat} # {} PROVE FALSE
    <2>1. PICK n \in {m \in 0..Len(lengths) : upto[m] \notin Nat} :
             \A m \in {k \in 0..Len(lengths) : upto[k] \notin Nat} : n <= m
      <3>1. {m \in 0..Len(lengths) : upto[m] \notin Nat} \in SUBSET Nat
        OBVIOUS
      <3> QED BY <1>5, <3>1, Least
    <2>2. upto[n] = IF n = 0 THEN 0 ELSE upto[n - 1] + lengths[n]
      BY <1>3, <2>1
    <2>3. n # 0 => n - 1 \in 0..Len(lengths) /\ ~(n <= n - 1)
      BY <1>0, <2>1
    <2>4. n # 0 => upto[n - 1] \in Nat
      BY <2>1, <2>3
    <2> QED BY <1>0, <2>1, <2>2, <2>4
  <1>6. upto[0] = 0
    BY <1>0, <1>3
  <1> QED BY <1>0, <1>4, <1>5, <1>6

InstructionSet == [kind : {"plain", "trap", "short", "near", "call"}, displacement : Displacements]

\* A number that a dword holds is kept by the conversion to one.
LEMMA DwordKeeps ==
  /\ Displacements \subseteq Int
  /\ \A x \in Displacements : sdword(x) = x
  <1>1. ASSUME NEW x \in Displacements PROVE x \in Int /\ sdword(x) = x
    <2>1. x \in Int /\ x + Reach \in Nat /\ 2 * Reach \in Nat \ {0} /\ x + Reach < 2 * Reach
      BY ReachAssumption DEF Displacements
    <2>2. ASSUME NEW y \in Nat, NEW n \in Nat \ {0}, y < n PROVE y % n = y
      BY <2>2
    <2>3. (x + Reach) % (2 * Reach) = x + Reach
      BY <2>1, <2>2
    <2> QED BY <2>1, <2>3, ReachAssumption DEF sdword
  <1> QED BY <1>1

\* An address depends on the kinds of the instructions before it.
LEMMA AddressFacts ==
  ASSUME NEW b \in Seq(InstructionSet), NEW k \in 1..(Len(b) + 1)
  PROVE  /\ Address(b, k) \in Nat
         /\ \A c : (\A i \in 1..(k - 1) : c[i].kind = b[i].kind) => Address(c, k) = Address(b, k)
  <1> DEFINE lengths == [i \in 1..(k - 1) |-> Length(b[i])]
  <1>1. Len(b) \in Nat /\ \A i \in 1..Len(b) : b[i] \in InstructionSet
    BY LenProperties, ElementOfSeq
  <1>2. lengths \in Seq(Nat)
    <2>1. \A i \in 1..(k - 1) : Length(b[i]) \in Nat
      BY <1>1 DEF Length
    <2> QED BY <1>1, <2>1, SeqDef
  <1>3. Address(b, k) \in Nat
    <2> HIDE DEF lengths
    <2>1. Bytes(lengths) \in Nat
      BY <1>2, BytesType
    <2> QED BY <2>1 DEF Address, lengths
  <1>4. ASSUME NEW c, \A i \in 1..(k - 1) : c[i].kind = b[i].kind PROVE Address(c, k) = Address(b, k)
    <2>1. \A i \in 1..(k - 1) : Length(c[i]) = Length(b[i])
      BY <1>4 DEF Length
    <2>2. [i \in 1..(k - 1) |-> Length(c[i])] = lengths
      BY <2>1
    <2> QED BY <2>2 DEF Address
  <1> QED BY <1>3, <1>4

LEMMA NothingSized == Size(<<>>) = 0
  <1>1. [i \in 1..0 |-> Length(<<>>[i])] = <<>>
    OBVIOUS
  <1>2. Bytes(<<>>) = 0
    BY EmptySeq, BytesType
  <1>3. Size(<<>>) = Bytes([i \in 1..0 |-> Length(<<>>[i])])
    BY EmptySeq DEF Size, Address
  <1> QED BY <1>1, <1>2, <1>3

\* The bytes of the head of b, the function as it was found.
HeadSize(b) == Size(SubSeq(b, 1, FragmentLength(b)))

LEMMA HeadFacts ==
  ASSUME NEW b \in Bodies
  PROVE  /\ b \in Seq(InstructionSet) /\ DOMAIN b = 1..Len(b) /\ Len(b) \in Nat
         /\ FragmentLength(b) \in 0..Len(b)
         /\ HeadSize(b) = Address(b, FragmentLength(b) + 1) /\ HeadSize(b) \in Nat
         /\ \A k \in 1..Len(b) : b[k] \in InstructionSet /\ Address(b, k + 1) \in Nat /\ Target(b, 0, k) \in Int
                                 /\ Target(b, 0, k) = Address(b, k + 1) + b[k].displacement
  <1>1. b \in Seq(InstructionSet)
    BY BodiesAssumption DEF InstructionSet
  <1>2. DOMAIN b = 1..Len(b) /\ Len(b) \in Nat /\ \A k \in 1..Len(b) : b[k] \in InstructionSet
    BY <1>1, LenProperties, ElementOfSeq
  <1>3. FragmentLength(b) \in 0..Len(b)
    <2> DEFINE enough == {k \in 0..Len(b) : Size(SubSeq(b, 1, k)) >= MinLength}
    <2>1. enough # {} => Min(enough) \in enough
      <3>1. enough \in SUBSET Nat
        BY <1>2
      <3>2. enough # {} => \E x \in enough : \A y \in enough : x <= y
        <4> HIDE DEF enough
        <4> QED BY <3>1, Least
      <3> QED BY <3>2 DEF Min
    <2>2. FragmentLength(b) = IF enough = {} THEN Len(b) ELSE Min(enough)
      BY DEF FragmentLength
    <2> QED BY <1>2, <2>1, <2>2
  <1> DEFINE h == FragmentLength(b)
             s == SubSeq(b, 1, h)
  <1>4. Len(s) = h /\ \A i \in 1..h : s[i] = b[i]
    <2> HIDE DEF h
    <2>1. 1 \in 1..(Len(b) + 1) /\ h \in (1 - 1)..Len(b) /\ (h - 1) + 1 = h
      BY <1>2, <1>3 DEF h
    <2>2. Len(s) = (h - 1) + 1 /\ \A i \in 1..((h - 1) + 1) : s[i] = b[(1 + i) - 1]
      BY <1>1, <2>1, SubSeqProperties
    <2> QED BY <2>1, <2>2
  <1>5. HeadSize(b) = Address(s, h + 1)
    BY <1>4 DEF HeadSize, Size
  <1>6. Address(s, h + 1) = Address(b, h + 1) /\ Address(b, h + 1) \in Nat
    <2>1. h + 1 \in 1..(Len(b) + 1) /\ (h + 1) - 1 = h
      BY <1>2, <1>3
    <2>2. \A i \in 1..((h + 1) - 1) : s[i].kind = b[i].kind
      BY <1>4, <2>1
    <2> HIDE DEF h, s
    <2> QED BY <1>1, <2>1, <2>2, AddressFacts
  <1>7. \A k \in 1..Len(b) : Address(b, k + 1) \in Nat /\ Target(b, 0, k) = Address(b, k + 1) + b[k].displacement
                             /\ Target(b, 0, k) \in Int
    <2> SUFFICES ASSUME NEW k \in 1..Len(b)
                 PROVE  Address(b, k + 1) \in Nat /\ Target(b, 0, k) = Address(b, k + 1) + b[k].displacement
                        /\ Target(b, 0, k) \in Int
      OBVIOUS
    <2>1. k + 1 \in 1..(Len(b) + 1)
      BY <1>2
    <2>2. Address(b, k + 1) \in Nat
      BY <1>1, <2>1, AddressFacts
    <2>3. b[k].displacement \in Int
      BY <1>2, DwordKeeps DEF InstructionSet
    <2> QED BY <2>2, <2>3 DEF Target
  <1> QED BY <1>1, <1>2, <1>3, <1>5, <1>6, <1>7

-----------------------------------------------------------------------------
(* The invariant: what became of b, the function as it was found.            *)

\* Instruction k of b is a reference into its head.
IntoHead(b, k) == inside(Target(b, 0, k), HeadSize(b))

\* The entries of the revert buffer are the near jumps into the head from the
\* rest, with their displacements; all of them, once the rest is displaced.
Displaced(b, ks) ==
  [k \in DOMAIN b |-> IF k \in ks THEN [b[k] EXCEPT !.displacement = sdword(@ + destination)] ELSE b[k]]

RestDisplaced(b) ==
  /\ body = Displaced(b, DOMAIN reverts)
  /\ reverts = [k \in DOMAIN reverts |-> b[k].displacement]
  /\ \A k \in DOMAIN reverts : k \in DOMAIN b /\ k > head /\ b[k].kind = "near" /\ IntoHead(b, k)
  /\ state # "displaced" => DOMAIN reverts = {}
  /\ state = "displaced" =>
       \A k \in DOMAIN b : k > head /\ b[k].kind \in {"short", "near"} /\ IntoHead(b, k) => k \in DOMAIN reverts

\* The copy is that of the head, and no short jump leaves it.
HeadMoved(b) ==
  /\ copy = [k \in 1..head |-> Moved(b[k], Target(b, 0, k), HeadSize(b))]
  /\ \A k \in 1..head : b[k].kind = "short" => IntoHead(b, k)

TranslationOf(b) ==
  /\ b \in Bodies /\ destination \in Destinations /\ head = FragmentLength(b)
  /\ state \in {"idle", "moved", "displaced", "refused"}
  /\ RestDisplaced(b)
  /\ HeadMoved(b) \/ (copy = <<>> /\ state \in {"idle", "refused"})

LEMMA NothingDisplaced ==
  ASSUME NEW b, TranslationOf(b), DOMAIN reverts = {}
  PROVE  body = b /\ reverts = <<>>
  <1>1. b \in Seq(InstructionSet) /\ DOMAIN b = 1..Len(b)
    BY HeadFacts DEF TranslationOf
  <1>2. Displaced(b, {}) = b
    <2>1. b = [k \in DOMAIN b |-> b[k]]
      BY <1>1
    <2> QED BY <2>1 DEF Displaced
  <1>3. reverts = <<>>
    <2>1. reverts = [k \in {} |-> b[k].displacement]
      BY DEF TranslationOf, RestDisplaced
    <2> QED BY <2>1
  <1> QED BY <1>2, <1>3 DEF TranslationOf, RestDisplaced

LEMMA TranslationStart == TranslationInit => TranslationOf(body)
  <1> SUFFICES ASSUME TranslationInit PROVE TranslationOf(body)
    OBVIOUS
  <1>1. DOMAIN body = 1..Len(body) /\ body \in Seq(InstructionSet)
    BY HeadFacts DEF TranslationInit
  <1>2. DOMAIN reverts = {} /\ reverts = <<>>
    BY DEF TranslationInit
  <1>3. body = Displaced(body, {})
    <2>1. body = [k \in DOMAIN body |-> body[k]]
      BY <1>1
    <2> QED BY <2>1 DEF Displaced
  <1>4. reverts = [k \in DOMAIN reverts |-> body[k].displacement]
    BY <1>2
  <1>5. RestDisplaced(body)
    BY <1>2, <1>3, <1>4 DEF RestDisplaced, TranslationInit
  <1> QED BY <1>5 DEF TranslationOf, TranslationInit

LEMMA MoveStep ==
  ASSUME NEW b, TranslationOf(b), move_function
  PROVE  TranslationOf(b)'
  <1>1. state = "idle" /\ UNCHANGED <<body, head, destination, reverts>> /\ state' \in {"moved", "refused"}
    BY DEF move_function
  <1>2. body = b /\ reverts = <<>> /\ DOMAIN reverts = {}
    BY <1>1, NothingDisplaced DEF TranslationOf, RestDisplaced
  <1>3. b \in Bodies /\ head = FragmentLength(b) /\ destination \in Destinations
    BY DEF TranslationOf
  <1>4. RestDisplaced(b)'
    BY <1>1, <1>2 DEF TranslationOf, RestDisplaced, Displaced, IntoHead
  <1>5. CASE state' = "refused"
    <2>1. copy' = copy
      BY <1>5 DEF move_function
    <2>2. HeadMoved(b)' <=> HeadMoved(b)
      BY <1>1, <2>1 DEF HeadMoved, Moved, IntoHead
    <2> QED BY <1>1, <1>3, <1>4, <1>5, <2>1, <2>2 DEF TranslationOf
  <1>6. CASE state' = "moved"
    <2> DEFINE source == SubSeq(body, 1, head)
    <2>1. Size(source) = HeadSize(b)
      BY <1>2, <1>3 DEF HeadSize
    <2>2. \A k \in 1..head : source[k] = b[k]
      <3>1. head \in Int /\ \A k \in 1..head : body[k] \in InstructionSet
        BY <1>2, <1>3, HeadFacts
      <3>2. \A k \in 1..((head - 1) + 1) : source[k] = body[(1 + k) - 1]
        BY <3>1, SubSeqProperties
      <3> QED BY <1>2, <3>1, <3>2
    <2>3. /\ \A k \in 1..head : source[k].kind = "short" => inside(Target(body, 0, k), Size(source))
          /\ copy' = [k \in 1..head |-> Moved(source[k], Target(body, 0, k), Size(source))]
      BY <1>6 DEF move_function
    <2>4. copy' = [k \in 1..head |-> Moved(b[k], Target(b, 0, k), HeadSize(b))]
      BY <1>2, <2>1, <2>2, <2>3 DEF Moved
    <2>5. HeadMoved(b)'
      BY <1>1, <1>2, <2>1, <2>2, <2>3, <2>4 DEF HeadMoved, IntoHead, Moved
    <2> QED BY <1>1, <1>3, <1>4, <1>6, <2>5 DEF TranslationOf
  <1> QED BY <1>1, <1>5, <1>6

\* What is restored is the function that was found.
LEMMA RestoredFound ==
  ASSUME NEW b \in Bodies, NEW ks \in SUBSET (DOMAIN b)
  PROVE  Restored(Displaced(b, ks), [k \in ks |-> b[k].displacement]) = b
  <1> DEFINE d == Displaced(b, ks)
             e == [k \in ks |-> b[k].displacement]
  <1>1. DOMAIN d = DOMAIN b /\ \A k \in DOMAIN b : d[k] = IF k \in ks THEN [b[k] EXCEPT !.displacement = sdword(@ + destination)] ELSE b[k]
    BY DEF Displaced
  <1>2. \A k \in DOMAIN b : b[k] \in InstructionSet
    BY HeadFacts
  <1>3. ASSUME NEW k \in DOMAIN b PROVE (IF k \in DOMAIN e THEN [d[k] EXCEPT !.displacement = e[k]] ELSE d[k]) = b[k]
    <2>1. CASE k \in ks
      <3>1. b[k] = [kind |-> b[k].kind, displacement |-> b[k].displacement]
        BY <1>2 DEF InstructionSet
      <3>2. d[k] = [kind |-> b[k].kind, displacement |-> sdword(b[k].displacement + destination)]
        BY <1>1, <2>1, <3>1
      <3>3. [d[k] EXCEPT !.displacement = e[k]] = [kind |-> b[k].kind, displacement |-> b[k].displacement]
        BY <2>1, <3>2
      <3> QED BY <2>1, <3>1, <3>3
    <2>2. CASE k \notin ks
      BY <1>1, <2>2
    <2> QED BY <2>1, <2>2
  <1>4. Restored(d, e) = [k \in DOMAIN b |-> b[k]]
    <2> HIDE DEF d, e
    <2>1. Restored(d, e) = [k \in DOMAIN b |-> IF k \in DOMAIN e THEN [d[k] EXCEPT !.displacement = e[k]] ELSE d[k]]
      BY <1>1 DEF Restored
    <2> QED BY <1>3, <2>1
  <1>5. b = [k \in DOMAIN b |-> b[k]]
    BY HeadFacts
  <1> QED BY <1>4, <1>5

\* The entries and the outcome of offset_displaced_references, on the function found.
LEMMA OffsetFacts ==
  ASSUME NEW b, TranslationOf(b), offset_displaced_references
  PROVE  /\ body = b /\ state = "moved" /\ UNCHANGED <<head, copy, destination>> /\ HeadMoved(b)
         /\ \/ /\ state' = "refused" /\ body' = b /\ UNCHANGED reverts
            \/ /\ state' = "displaced"
               /\ \A k \in DOMAIN b : ~(b[k].kind = "short" /\ k > head /\ IntoHead(b, k))
               /\ LET ks == {k \in DOMAIN b : b[k].kind = "near" /\ k > head /\ IntoHead(b, k)}
                  IN  body' = Displaced(b, ks) /\ reverts' = [k \in ks |-> b[k].displacement]
  <1> DEFINE Into(k) == k > head /\ inside(Target(body, 0, k), Size(SubSeq(body, 1, head)))
             stops == {k \in DOMAIN body : body[k].kind = "short" /\ Into(k)}
             last == IF stops = {} THEN Len(body) ELSE Min(stops)
             changed == {k \in 1..last : body[k].kind = "near" /\ Into(k)}
             entries == [k \in changed |-> body[k].displacement]
             displaced == [k \in DOMAIN body |->
                      IF k \in changed THEN [body[k] EXCEPT !.displacement = sdword(@ + destination)] ELSE body[k]]
  <1>1. /\ state = "moved" /\ UNCHANGED <<head, copy, destination>>
        /\ IF stops = {}
           THEN body' = displaced /\ reverts' = entries /\ state' = "displaced"
           ELSE body' = Restored(displaced, entries) /\ UNCHANGED reverts /\ state' = "refused"
    BY DEF offset_displaced_references
  <1>2. body = b /\ b \in Bodies /\ head = FragmentLength(b) /\ HeadMoved(b)
    BY <1>1, NothingDisplaced DEF TranslationOf, RestDisplaced
  <1>3. \A k : Into(k) <=> k > head /\ IntoHead(b, k)
    BY <1>2 DEF IntoHead, HeadSize
  <1>4. DOMAIN b = 1..Len(b) /\ Len(b) \in Nat
    BY <1>2, HeadFacts
  <1>5. displaced = Displaced(b, changed)
    BY <1>2 DEF Displaced
  <1>6. CASE stops = {}
    <2>1. changed = {k \in DOMAIN b : b[k].kind = "near" /\ k > head /\ IntoHead(b, k)}
      BY <1>2, <1>3, <1>4, <1>6
    <2>2. \A k \in DOMAIN b : ~(b[k].kind = "short" /\ k > head /\ IntoHead(b, k))
      BY <1>2, <1>3, <1>6
    <2>3. body' = Displaced(b, changed) /\ reverts' = entries /\ state' = "displaced"
      BY <1>1, <1>5, <1>6
    <2>4. entries = [k \in changed |-> b[k].displacement]
      BY <1>2
    <2> HIDE DEF changed, entries, displaced
    <2> QED BY <1>1, <1>2, <2>1, <2>2, <2>3, <2>4
  <1>7. CASE stops # {}
    <2>1. Min(stops) \in stops
      <3>1. stops \in SUBSET Nat
        BY <1>2, <1>4
      <3>2. \E x \in stops : \A y \in stops : x <= y
        <4> HIDE DEF stops
        <4> QED BY <1>7, <3>1, Least
      <3> QED BY <3>2 DEF Min
    <2>2. changed \in SUBSET (DOMAIN b)
      <3>1. last \in 1..Len(b)
        BY <1>2, <1>4, <1>7, <2>1
      <3>2. changed \in SUBSET (1..last)
        OBVIOUS
      <3> HIDE DEF changed, last
      <3> QED BY <1>4, <3>1, <3>2
    <2>3. Restored(displaced, entries) = b
      <3> HIDE DEF changed
      <3> QED BY <1>2, <1>5, <2>2, RestoredFound
    <2> QED BY <1>1, <1>2, <1>7, <2>3
  <1> QED BY <1>6, <1>7

LEMMA OffsetStep ==
  ASSUME NEW b, TranslationOf(b), offset_displaced_references
  PROVE  TranslationOf(b)'
  <1>1. /\ body = b /\ state = "moved" /\ UNCHANGED <<head, copy, destination>> /\ HeadMoved(b)
        /\ b \in Bodies /\ destination \in Destinations /\ head = FragmentLength(b)
    BY OffsetFacts DEF TranslationOf
  <1>2. HeadMoved(b)'
    BY <1>1 DEF HeadMoved, Moved, IntoHead
  <1>3. CASE state' = "refused" /\ body' = b /\ UNCHANGED reverts
    <2>1. RestDisplaced(b)'
      BY <1>1, <1>3 DEF TranslationOf, RestDisplaced, Displaced, IntoHead
    <2> QED BY <1>1, <1>2, <1>3, <2>1 DEF TranslationOf
  <1>4. CASE state' # "refused"
    <2> DEFINE ks == {k \in DOMAIN b : b[k].kind = "near" /\ k > head /\ IntoHead(b, k)}
    <2>1. /\ state' = "displaced"
          /\ \A k \in DOMAIN b : ~(b[k].kind = "short" /\ k > head /\ IntoHead(b, k))
          /\ body' = Displaced(b, ks) /\ reverts' = [k \in ks |-> b[k].displacement]
      BY <1>4, OffsetFacts
    <2>2. DOMAIN reverts' = ks
      <3> HIDE DEF ks
      <3> QED BY <2>1
    <2>3. \A k \in DOMAIN b : k \in ks <=> (b[k].kind = "near" /\ k > head /\ IntoHead(b, k))
      OBVIOUS
    <2>4. ks \subseteq DOMAIN b
      OBVIOUS
    <2>5. \A k \in ks : IntoHead(b, k)' <=> IntoHead(b, k)
      BY DEF IntoHead
    <2> HIDE DEF ks
    <2>6. body' = [k \in DOMAIN b |-> IF k \in ks THEN [b[k] EXCEPT !.displacement = sdword(@ + destination')] ELSE b[k]]
      BY <1>1, <2>1 DEF Displaced
    <2>7. RestDisplaced(b)'
      BY <1>1, <2>1, <2>2, <2>3, <2>4, <2>6 DEF RestDisplaced, Displaced, IntoHead
    <2> QED BY <1>1, <1>2, <2>1, <2>7 DEF TranslationOf
  <1> QED BY <1>3, <1>4, OffsetFacts

LEMMA RestoreStep ==
  ASSUME NEW b, TranslationOf(b), restore
  PROVE  TranslationOf(b)'
  <1>1. /\ state = "displaced" /\ body' = Restored(body, reverts) /\ reverts' = <<>> /\ state' = "moved"
        /\ UNCHANGED <<head, copy, destination>>
    BY DEF restore
  <1>2. b \in Bodies /\ destination \in Destinations /\ head = FragmentLength(b) /\ HeadMoved(b)
    BY <1>1 DEF TranslationOf
  <1>3. body' = b
    <2>1. DOMAIN reverts \in SUBSET (DOMAIN b)
      BY DEF TranslationOf, RestDisplaced
    <2>2. body = Displaced(b, DOMAIN reverts) /\ reverts = [k \in DOMAIN reverts |-> b[k].displacement]
      BY DEF TranslationOf, RestDisplaced
    <2> QED BY <1>1, <1>2, <2>1, <2>2, RestoredFound
  <1>4. HeadMoved(b)'
    BY <1>1, <1>2 DEF HeadMoved, Moved, IntoHead
  <1>5. DOMAIN reverts' = {} /\ reverts' = [k \in {} |-> b[k].displacement]
    BY <1>1
  <1>6. b = [k \in DOMAIN b |-> b[k]]
    BY <1>2, HeadFacts
  <1>7. RestDisplaced(b)'
    BY <1>1, <1>3, <1>5, <1>6 DEF RestDisplaced, Displaced, IntoHead
  <1> QED BY <1>1, <1>2, <1>4, <1>7 DEF TranslationOf

TranslationInv == \E b \in Bodies : TranslationOf(b)

LEMMA TranslationInvariant ==
  /\ TranslationInit => TranslationInv
  /\ TranslationInv /\ [TranslationNext]_translationVars => TranslationInv'
  <1>1. TranslationInit => TranslationInv
    BY TranslationStart DEF TranslationInit, TranslationInv
  <1>2. ASSUME TranslationInv, [TranslationNext]_translationVars PROVE TranslationInv'
    <2>1. PICK b \in Bodies : TranslationOf(b)
      BY <1>2 DEF TranslationInv
    <2>2. CASE UNCHANGED translationVars
      <3>1. RestDisplaced(b)' <=> RestDisplaced(b)
        BY <2>2 DEF translationVars, RestDisplaced, Displaced, IntoHead
      <3>2. HeadMoved(b)' <=> HeadMoved(b)
        BY <2>2 DEF translationVars, HeadMoved, Moved, IntoHead
      <3>3. TranslationOf(b)'
        BY <2>1, <2>2, <3>1, <3>2 DEF translationVars, TranslationOf
      <3> QED BY <3>3 DEF TranslationInv
    <2>3. CASE TranslationNext
      <3>1. TranslationOf(b)'
        BY <2>1, <2>3, MoveStep, OffsetStep, RestoreStep DEF TranslationNext
      <3> QED BY <3>1 DEF TranslationInv
    <2> QED BY <1>2, <2>2, <2>3
  <1> QED BY <1>1, <1>2

\* A function that cannot be translated is left as it was found, also when some
\* of its references were displaced before the one that stops it.
THEOREM RefusalUndone == TranslationSpec => RefusedUntouched
  <1>1. ASSUME TranslationInv, [TranslationNext]_translationVars
        PROVE  [state' = "refused" => body' = body]_translationVars
    <2>1. PICK b \in Bodies : TranslationOf(b)
      BY <1>1 DEF TranslationInv
    <2>2. CASE move_function \/ restore
      BY <2>2 DEF move_function, restore
    <2>3. CASE offset_displaced_references
      BY <2>1, <2>3, OffsetFacts
    <2> QED BY <1>1, <2>2, <2>3 DEF TranslationNext
  <1> QED BY <1>1, TranslationInvariant, PTL DEF TranslationSpec, RefusedUntouched

\* What the code around the copy gives: the addresses in the copy and in the
\* function as it is now are those of the function that was found.
LEMMA TranslatedAddresses ==
  ASSUME NEW b, TranslationOf(b)
  PROVE  /\ DOMAIN body = DOMAIN b
         /\ \A k \in DOMAIN b : body[k].kind = b[k].kind /\ Address(body, k + 1) = Address(b, k + 1)
         /\ \A k \in DOMAIN b : body[k].displacement =
              IF k \in DOMAIN reverts THEN sdword(b[k].displacement + destination) ELSE b[k].displacement
         /\ HeadMoved(b) => /\ Size(copy) = HeadSize(b) /\ DOMAIN copy = 1..head
                            /\ \A k \in 1..head : copy[k].kind = b[k].kind /\ Address(copy, k + 1) = Address(b, k + 1)
  <1>1. b \in Bodies /\ head = FragmentLength(b)
    BY DEF TranslationOf
  <1>2. /\ b \in Seq(InstructionSet) /\ DOMAIN b = 1..Len(b) /\ Len(b) \in Nat /\ head \in 0..Len(b)
        /\ HeadSize(b) = Address(b, head + 1) /\ \A k \in 1..Len(b) : b[k] \in InstructionSet
    BY <1>1, HeadFacts
  <1>3. DOMAIN body = DOMAIN b /\ \A k \in DOMAIN b : body[k].kind = b[k].kind /\
           body[k].displacement = IF k \in DOMAIN reverts THEN sdword(b[k].displacement + destination) ELSE b[k].displacement
    BY <1>2 DEF TranslationOf, RestDisplaced, Displaced, InstructionSet
  <1>4. ASSUME NEW k \in DOMAIN b PROVE Address(body, k + 1) = Address(b, k + 1)
    <2>1. k + 1 \in 1..(Len(b) + 1) /\ \A i \in 1..((k + 1) - 1) : i \in DOMAIN b
      BY <1>2
    <2>2. \A i \in 1..((k + 1) - 1) : body[i].kind = b[i].kind
      BY <1>3, <2>1
    <2> QED BY <1>2, <2>1, <2>2, AddressFacts
  <1>5. ASSUME HeadMoved(b)
        PROVE  /\ Size(copy) = HeadSize(b) /\ DOMAIN copy = 1..head
               /\ \A k \in 1..head : copy[k].kind = b[k].kind /\ Address(copy, k + 1) = Address(b, k + 1)
    <2>1. DOMAIN copy = 1..head /\ \A k \in 1..head : copy[k] = Moved(b[k], Target(b, 0, k), HeadSize(b))
      BY <1>5 DEF HeadMoved
    <2>2. Len(copy) = head
      <3>1. copy = [k \in 1..head |-> Moved(b[k], Target(b, 0, k), HeadSize(b))] /\ head \in Nat
        BY <1>2, <1>5 DEF HeadMoved
      <3> QED BY <3>1
    <2>3. \A k \in 1..head : copy[k].kind = b[k].kind
      <3> SUFFICES ASSUME NEW k \in 1..head PROVE copy[k].kind = b[k].kind
        OBVIOUS
      <3>1. b[k] \in InstructionSet
        BY <1>2
      <3>2. b[k] = [kind |-> b[k].kind, displacement |-> b[k].displacement]
        BY <3>1 DEF InstructionSet
      <3> QED BY <2>1, <3>2 DEF Moved
    <2>4. ASSUME NEW k \in 0..head PROVE Address(copy, k + 1) = Address(b, k + 1)
      <3>1. k + 1 \in 1..(Len(b) + 1) /\ \A i \in 1..((k + 1) - 1) : i \in 1..head
        BY <1>2
      <3>2. \A i \in 1..((k + 1) - 1) : copy[i].kind = b[i].kind
        BY <2>3, <3>1
      <3> QED BY <1>2, <3>1, <3>2, AddressFacts
    <2>5. head \in 0..head /\ \A k \in 1..head : k \in 0..head
      BY <1>2
    <2> QED BY <1>2, <2>1, <2>2, <2>3, <2>4, <2>5 DEF Size
  <1> QED BY <1>3, <1>4, <1>5

\* The arithmetic of a jump that was at `from', with displacement d, when the head
\* moved to `to'.
LEMMA JumpArithmetic ==
  ASSUME NEW from \in Int, NEW d \in Int, NEW to \in Int
  PROVE  /\ (to + from) + (d - to) = from + d
         /\ (to + from) + d = (from + d) + to
         /\ (0 + from) + (d + to) = (from + d) + to
         /\ (from + d) - (to + from) = d - to
         /\ ((from + d) + to) - from = d + to
  OBVIOUS

\* Wherever its head is moved, near or far, a translated function does what it did
\* with each jump whose displacement can say where it is to go: those in the copy
\* of the head and those of the rest go to where they went, and into the copy when
\* that was into the head.
THEOREM JumpsGoOn == TranslationSpec => []JumpsKept
  <1>1. ASSUME TranslationInv PROVE JumpsKept
    <2>1. PICK b \in Bodies : TranslationOf(b)
      BY <1>1 DEF TranslationInv
    <2> DEFINE to == destination
               size == HeadSize(b)
               From(k) == Address(b, k + 1)
               d(k) == b[k].displacement
    <2>2. /\ DOMAIN b = 1..Len(b) /\ Len(b) \in Nat /\ head \in 0..Len(b)
          /\ \A k \in DOMAIN b : From(k) \in Int /\ d(k) \in Int /\ Target(b, 0, k) = From(k) + d(k)
      <3>1. head = FragmentLength(b)
        BY <2>1 DEF TranslationOf
      <3>2. \A k \in 1..Len(b) : b[k] \in InstructionSet /\ Address(b, k + 1) \in Nat
                                 /\ Target(b, 0, k) = Address(b, k + 1) + b[k].displacement
        BY HeadFacts
      <3>3. \A k \in 1..Len(b) : b[k].displacement \in Int
        BY <3>2, DwordKeeps DEF InstructionSet
      <3>4. DOMAIN b = 1..Len(b) /\ Len(b) \in Nat /\ FragmentLength(b) \in 0..Len(b)
        BY HeadFacts
      <3> QED BY <3>1, <3>2, <3>3, <3>4
    <2>3. to \in Int
      BY <2>1, DestinationsAssumption DEF TranslationOf
    <2>4. /\ DOMAIN body = DOMAIN b
          /\ \A k \in DOMAIN b : body[k].kind = b[k].kind /\ Address(body, k + 1) = From(k)
          /\ \A k \in DOMAIN b : body[k].displacement = IF k \in DOMAIN reverts THEN sdword(d(k) + to) ELSE d(k)
          /\ HeadMoved(b) => /\ Size(copy) = size /\ DOMAIN copy = 1..head
                             /\ \A k \in 1..head : copy[k].kind = b[k].kind /\ Address(copy, k + 1) = From(k)
      BY <2>1, TranslatedAddresses
    <2>5. \A k \in DOMAIN reverts : k \in DOMAIN b /\ k > head /\ b[k].kind = "near" /\ IntoHead(b, k) /\ reverts[k] = d(k)
      <3>1. reverts = [k \in DOMAIN reverts |-> b[k].displacement]
        BY <2>1 DEF TranslationOf, RestDisplaced
      <3> QED BY <2>1, <3>1 DEF TranslationOf, RestDisplaced
    <2>6. \A k \in DOMAIN b : Before(k) = From(k) + d(k)
      BY <2>4, <2>5 DEF Before
    <2>7. ASSUME NEW k \in DOMAIN copy, Relative(copy[k]), Reaches(destination + Address(copy, k + 1), Place(Before(k)))
          PROVE  Target(copy, destination, k) = Place(Before(k))
      <3>1. HeadMoved(b)
        <4>1. copy # <<>>
          BY <2>7
        <4> QED BY <2>1, <4>1 DEF TranslationOf
      <3>2. k \in 1..head /\ k \in DOMAIN b /\ Size(copy) = size /\ Address(copy, k + 1) = From(k)
        BY <2>2, <2>4, <2>7, <3>1
      <3>3. Target(b, 0, k) = From(k) + d(k) /\ From(k) \in Int /\ d(k) \in Int /\ Before(k) = From(k) + d(k)
        BY <2>2, <2>6, <3>2
      <3>4. Relative(b[k])
        BY <2>4, <2>7, <3>1, <3>2 DEF Relative
      <3>5. copy[k] = Moved(b[k], From(k) + d(k), size)
        BY <3>1, <3>2, <3>3 DEF HeadMoved
      <3>6. Target(copy, destination, k) = (to + From(k)) + copy[k].displacement
        BY <3>2 DEF Target
      <3>7. CASE inside(From(k) + d(k), size)
        <4>1. copy[k] = b[k]
          BY <3>5, <3>7 DEF Moved
        <4>2. Place(Before(k)) = (From(k) + d(k)) + to
          BY <3>2, <3>3, <3>7 DEF Place
        <4> QED BY <2>3, <3>3, <3>6, <4>1, <4>2, JumpArithmetic
      <3>8. CASE ~inside(From(k) + d(k), size)
        <4>1. b[k].kind \in {"near", "call"}
          <5>1. b[k].kind # "short"
            BY <3>1, <3>2, <3>3, <3>8 DEF HeadMoved, IntoHead
          <5> QED BY <3>4, <5>1 DEF Relative
        <4>2. copy[k].displacement = sdword(d(k) - to)
          <5>1. copy[k] = [b[k] EXCEPT !.displacement = sdword(@ - destination)]
            BY <3>5, <3>8, <4>1 DEF Moved
          <5>2. b[k] \in InstructionSet
            BY <2>2, <3>2, HeadFacts
          <5> QED BY <5>1, <5>2 DEF InstructionSet
        <4>3. Place(Before(k)) = From(k) + d(k)
          BY <3>2, <3>3, <3>8 DEF Place
        <4>4. (From(k) + d(k)) - (to + From(k)) \in Displacements
          BY <2>7, <3>2, <4>3 DEF Reaches
        <4>5. d(k) - to \in Displacements
          BY <2>3, <3>3, <4>4, JumpArithmetic
        <4>6. copy[k].displacement = d(k) - to
          BY <4>2, <4>5, DwordKeeps
        <4> QED BY <2>3, <3>3, <3>6, <4>3, <4>6, JumpArithmetic
      <3> QED BY <3>7, <3>8
    <2>8. ASSUME NEW k \in DOMAIN body, Relative(body[k]), k > head, NEW goal,
                 goal = IF state = "displaced" /\ body[k].kind # "call" THEN Place(Before(k)) ELSE Before(k),
                 Reaches(Address(body, k + 1), goal)
          PROVE  Target(body, 0, k) = goal
      <3>1. k \in DOMAIN b /\ Relative(b[k]) /\ body[k].kind = b[k].kind /\ Address(body, k + 1) = From(k)
        BY <2>4, <2>8 DEF Relative
      <3>2. Target(b, 0, k) = From(k) + d(k) /\ From(k) \in Int /\ d(k) \in Int /\ Before(k) = From(k) + d(k)
        BY <2>2, <2>6, <3>1
      <3>3. Target(body, 0, k) = (0 + From(k)) + body[k].displacement
        BY <3>1 DEF Target
      <3>4. CASE k \in DOMAIN reverts
        <4>1. state = "displaced" /\ HeadMoved(b) /\ Size(copy) = size /\ body[k].kind = "near"
          BY <2>1, <2>4, <2>5, <3>1, <3>4 DEF TranslationOf, RestDisplaced
        <4>2. inside(From(k) + d(k), size)
          BY <2>5, <3>2, <3>4 DEF IntoHead
        <4>3. goal = (From(k) + d(k)) + to
          BY <2>8, <3>2, <4>1, <4>2 DEF Place
        <4>4. ((From(k) + d(k)) + to) - From(k) \in Displacements
          BY <2>8, <3>1, <4>3 DEF Reaches
        <4>5. d(k) + to \in Displacements
          BY <2>3, <3>2, <4>4, JumpArithmetic
        <4>6. body[k].displacement = d(k) + to
          BY <2>4, <3>1, <3>4, <4>5, DwordKeeps
        <4> QED BY <2>3, <3>2, <3>3, <4>3, <4>6, JumpArithmetic
      <3>5. CASE k \notin DOMAIN reverts
        <4>1. body[k].displacement = d(k)
          BY <2>4, <3>1, <3>5
        <4>2. goal = From(k) + d(k)
          <5>1. CASE state = "displaced" /\ body[k].kind # "call"
            <6>1. HeadMoved(b) /\ Size(copy) = size
              BY <2>1, <2>4, <5>1 DEF TranslationOf
            <6>2. b[k].kind \in {"short", "near"}
              BY <3>1, <5>1 DEF Relative
            <6>3. ~IntoHead(b, k)
              BY <2>1, <2>8, <3>1, <3>5, <5>1, <6>2 DEF TranslationOf, RestDisplaced
            <6> QED BY <2>8, <3>2, <5>1, <6>1, <6>3 DEF IntoHead, Place
          <5>2. CASE ~(state = "displaced" /\ body[k].kind # "call")
            BY <2>8, <3>2, <5>2
          <5> QED BY <5>1, <5>2
        <4> QED BY <3>2, <3>3, <4>1, <4>2
      <3> QED BY <3>4, <3>5
    <2> QED BY <2>7, <2>8 DEF JumpsKept
  <1> QED BY <1>1, TranslationInvariant, PTL DEF TranslationSpec

-----------------------------------------------------------------------------
(* table_model_impl: what the view tracks.                                   *)

TableTypeOK ==
  /\ DOMAIN table \in SUBSET Rows
  /\ ordered \in SetToSeqs(DOMAIN table)
  /\ tracked \in Seq([key : Rows, index : Nat])

\* A row that is tracked is where the rows say it is.
RowTracked(r, rows) ==
  IF r.index = npos THEN r.key \notin ToSet(rows)
  ELSE r.index \in DOMAIN rows /\ rows[r.index] = r.key

TableInv == TableTypeOK /\ \A k \in DOMAIN tracked : RowTracked(tracked[k], ordered)

LEMMA RowsInOrder ==
  ASSUME NEW S \in SUBSET Rows, NEW s \in SetToSeqs(S)
  PROVE  ToSet(s) = S /\ s \in Seq(Rows) /\ Len(s) \in Nat /\ DOMAIN s = 1..Len(s) /\ \A i \in DOMAIN s : s[i] \in S
  <1>1. IsFiniteSet(S)
    BY RowsAssumption, FS_Subset
  <1>2. ToSet(s) = S /\ s \in Seq(S)
    BY <1>1, Permuted
  <1>3. Len(s) \in Nat /\ DOMAIN s = 1..Len(s) /\ \A i \in DOMAIN s : s[i] \in S
    BY <1>2, LenProperties, ElementOfSeq
  <1>4. s \in Seq(Rows)
    BY <1>3, SeqDef, LenProperties, <1>2
  <1> QED BY <1>2, <1>3, <1>4

\* trackables_provider::fetch looks each row up again.
LEMMA FetchedTracked ==
  ASSUME NEW tr \in Seq([key : Rows, index : Nat]), NEW S \in SUBSET Rows, NEW rows \in SetToSeqs(S)
  PROVE  /\ Fetched(tr, rows) \in Seq([key : Rows, index : Nat])
         /\ DOMAIN Fetched(tr, rows) = DOMAIN tr
         /\ \A k \in DOMAIN tr : RowTracked(Fetched(tr, rows)[k], rows)
  <1>1. Len(tr) \in Nat /\ DOMAIN tr = 1..Len(tr) /\ \A k \in 1..Len(tr) : tr[k] \in [key : Rows, index : Nat]
    BY LenProperties, ElementOfSeq
  <1>2. Len(rows) \in Nat /\ DOMAIN rows = 1..Len(rows)
    BY RowsInOrder
  <1> DEFINE Found(k) == {i \in DOMAIN rows : rows[i] = tr[k].key}
             Index(k) == IF \E i \in DOMAIN rows : rows[i] = tr[k].key THEN Max(Found(k)) ELSE npos
  <1>3. ASSUME NEW k \in DOMAIN tr, Found(k) # {} PROVE Max(Found(k)) \in Found(k)
    <2>1. Found(k) \in SUBSET Nat /\ \A i \in Found(k) : i <= Len(rows)
      BY <1>2
    <2> HIDE DEF Found
    <2> QED BY <1>2, <1>3, <2>1, Greatest
  <1>4. Fetched(tr, rows) = [k \in DOMAIN tr |-> [tr[k] EXCEPT !.index = Index(k)]]
    BY DEF Fetched
  <1>5. ASSUME NEW k \in DOMAIN tr
        PROVE  /\ Fetched(tr, rows)[k] \in [key : Rows, index : Nat] /\ RowTracked(Fetched(tr, rows)[k], rows)
    <2>1. tr[k].key \in Rows /\ Fetched(tr, rows)[k] = [key |-> tr[k].key, index |-> Index(k)]
      <3>1. tr[k] \in [key : Rows, index : Nat]
        BY <1>1
      <3>2. tr[k] = [key |-> tr[k].key, index |-> tr[k].index] /\ tr[k].key \in Rows
        BY <3>1
      <3> HIDE DEF Index
      <3>3. Fetched(tr, rows)[k] = [tr[k] EXCEPT !.index = Index(k)]
        BY <1>4
      <3> QED BY <3>2, <3>3
    <2>2. CASE Found(k) # {}
      <3>1. Index(k) \in DOMAIN rows /\ rows[Index(k)] = tr[k].key
        BY <1>3, <2>2
      <3>2. Index(k) \in Nat /\ Index(k) # npos
        BY <1>2, <3>1 DEF npos
      <3> HIDE DEF Index
      <3> QED BY <2>1, <3>1, <3>2 DEF RowTracked
    <2>3. CASE Found(k) = {}
      <3>1. Index(k) = npos /\ tr[k].key \notin ToSet(rows)
        BY <2>3 DEF ToSet
      <3> HIDE DEF Index
      <3> QED BY <2>1, <3>1 DEF RowTracked, npos
    <2> QED BY <2>2, <2>3
  <1>6. DOMAIN Fetched(tr, rows) = 1..Len(tr)
    BY <1>1, <1>4
  <1>7. Fetched(tr, rows) \in Seq([key : Rows, index : Nat])
    <2>1. Fetched(tr, rows) \in [1..Len(tr) -> [key : Rows, index : Nat]]
      <3>1. Fetched(tr, rows) = [k \in 1..Len(tr) |-> Fetched(tr, rows)[k]]
        BY <1>1, <1>4
      <3> QED BY <1>1, <1>5, <3>1
    <2> QED BY <1>1, <2>1, SeqDef
  <1> QED BY <1>1, <1>5, <1>6, <1>7

LEMMA TableInit == TableModelInit => TableInv
  <1> SUFFICES ASSUME TableModelInit PROVE TableInv
    OBVIOUS
  <1>1. table = <<>> /\ ordered = <<>> /\ tracked = <<>> /\ DOMAIN table = {}
    BY DEF TableModelInit
  <1>2. <<>> \in SetToSeqs({})
    BY FS_EmptySet DEF SetToSeqs
  <1> QED BY <1>1, <1>2, EmptySeq DEF TableInv, TableTypeOK

\* The rows were put in some order and looked up again.
LEMMA ReorderedStep ==
  ASSUME TableInv, NEW S \in SUBSET Rows, DOMAIN table' = S, ordered' \in SetToSeqs(S),
         tracked' = Fetched(tracked, ordered')
  PROVE  TableInv'
  <1>1. tracked \in Seq([key : Rows, index : Nat])
    BY DEF TableInv, TableTypeOK
  <1>2. /\ tracked' \in Seq([key : Rows, index : Nat])
        /\ \A k \in DOMAIN tracked' : RowTracked(tracked'[k], ordered')
    BY <1>1, FetchedTracked
  <1>3. TableTypeOK'
    BY <1>2 DEF TableTypeOK
  <1> QED BY <1>2, <1>3 DEF TableInv, RowTracked, ToSet

LEMMA SetOrderStep ==
  ASSUME TableInv, NEW o, set_order(o), UNCHANGED table
  PROVE  TableInv'
  <1>1. ordered' \in SetToSeqs(DOMAIN table)
    BY DEF set_order, Sorted, TableInv, TableTypeOK
  <1>2. tracked' = Fetched(tracked, ordered') /\ DOMAIN table \in SUBSET Rows
    BY DEF set_order, TableInv, TableTypeOK
  <1> QED BY <1>1, <1>2, ReorderedStep

LEMMA TrackStep ==
  ASSUME TableInv, NEW i \in DOMAIN ordered, track(i)
  PROVE  TableInv'
  <1> DEFINE r == [key |-> ordered[i], index |-> i]
  <1>1. tracked' = Append(tracked, r) /\ UNCHANGED <<table, ordered>>
    BY DEF track
  <1>2. i \in Nat /\ i # npos /\ ordered[i] \in Rows
    BY RowsInOrder DEF TableInv, TableTypeOK, npos
  <1>3. r \in [key : Rows, index : Nat] /\ RowTracked(r, ordered)
    BY <1>2 DEF RowTracked
  <1> HIDE DEF r
  <1>4. /\ tracked' \in Seq([key : Rows, index : Nat]) /\ Len(tracked) \in Nat /\ DOMAIN tracked = 1..Len(tracked)
        /\ DOMAIN tracked' = 1..(Len(tracked) + 1) /\ tracked'[Len(tracked) + 1] = r
        /\ \A k \in 1..Len(tracked) : tracked'[k] = tracked[k]
    BY <1>1, <1>3, AppendProperties, LenProperties DEF TableInv, TableTypeOK
  <1>5. \A k \in DOMAIN tracked' : RowTracked(tracked'[k], ordered)
    BY <1>3, <1>4 DEF TableInv
  <1> QED BY <1>1, <1>4, <1>5 DEF TableInv, TableTypeOK, RowTracked, ToSet

LEMMA ReleaseStep ==
  ASSUME TableInv, NEW k \in DOMAIN tracked, release(k)
  PROVE  TableInv'
  <1> DEFINE T == [key : Rows, index : Nat]
             n == Len(tracked)
             s1 == SubSeq(tracked, 1, k - 1)
             s2 == SubSeq(tracked, k + 1, n)
  <1>1. tracked' = s1 \o s2 /\ UNCHANGED <<table, ordered>>
    BY DEF release, RemoveAt
  <1>2. n \in Nat /\ DOMAIN tracked = 1..n /\ k \in 1..n /\ \A j \in 1..n : tracked[j] \in T
    BY LenProperties, ElementOfSeq DEF TableInv, TableTypeOK
  <1>3. s1 \in Seq(T) /\ Len(s1) = k - 1 /\ \A j \in 1..(k - 1) : s1[j] = tracked[j]
    <2>1. k - 1 \in Int /\ \A j \in 1..(k - 1) : tracked[j] \in T
      BY <1>2
    <2> HIDE DEF T, n
    <2>2. /\ s1 \in Seq(T) /\ Len(s1) = (IF 1 <= k - 1 THEN (k - 1) - 1 + 1 ELSE 0)
          /\ \A j \in 1..((k - 1) - 1 + 1) : s1[j] = tracked[1 + j - 1]
      BY <2>1, SubSeqProperties
    <2>3. k \in Nat /\ k >= 1
      BY <1>2
    <2> HIDE DEF s1
    <2> QED BY <2>2, <2>3
  <1>4. s2 \in Seq(T) /\ Len(s2) = n - k /\ \A j \in 1..(n - k) : s2[j] = tracked[k + j]
    <2>1. k + 1 \in Int /\ n \in Int /\ \A j \in (k + 1)..n : tracked[j] \in T
      BY <1>2
    <2> HIDE DEF T, n
    <2> QED BY <1>2, <2>1, SubSeqProperties
  <1> HIDE DEF T, s1, s2
  <1>5. /\ tracked' \in Seq(T) /\ Len(tracked') = Len(s1) + Len(s2) /\ DOMAIN tracked' = 1..Len(tracked')
        /\ \A j \in 1..(Len(s1) + Len(s2)) : tracked'[j] = IF j <= Len(s1) THEN s1[j] ELSE s2[j - Len(s1)]
    BY <1>1, <1>3, <1>4, ConcatProperties, LenProperties
  <1>6. \A j \in DOMAIN tracked' : \E i \in DOMAIN tracked : tracked'[j] = tracked[i]
    <2> SUFFICES ASSUME NEW j \in 1..((k - 1) + (n - k)) PROVE \E i \in 1..n : tracked'[j] = tracked[i]
      BY <1>2, <1>3, <1>4, <1>5
    <2>1. CASE j <= k - 1
      BY <1>2, <1>3, <1>4, <1>5, <2>1
    <2>2. CASE ~(j <= k - 1)
      <3>1. j - (k - 1) \in 1..(n - k) /\ k + (j - (k - 1)) \in 1..n
        BY <1>2, <2>2
      <3> QED BY <1>3, <1>4, <1>5, <2>2, <3>1
    <2> QED BY <2>1, <2>2
  <1>7. \A j \in DOMAIN tracked' : RowTracked(tracked'[j], ordered)
    BY <1>6 DEF TableInv
  <1> QED BY <1>1, <1>5, <1>7 DEF TableInv, TableTypeOK, RowTracked, ToSet, T

LEMMA TableStep == TableInv /\ [TableModelNext]_tableVars => TableInv'
  <1> SUFFICES ASSUME TableInv, [TableModelNext]_tableVars PROVE TableInv'
    OBVIOUS
  <1>1. ASSUME NEW t \in Grown \cup {<< >>}, fetch(t) PROVE TableInv'
    <2>1. DOMAIN t \in SUBSET Rows
      <3>1. CASE t \in Grown
        BY <3>1 DEF Grown, Tables, Trees
      <3>2. CASE t = <<>>
        BY <3>2
      <3> QED BY <1>1, <3>1, <3>2
    <2>2. table' = t /\ ordered' \in SetToSeqs(DOMAIN t) /\ tracked' = Fetched(tracked, ordered')
      BY <1>1 DEF fetch, Sorted
    <2> QED BY <2>1, <2>2, ReorderedStep
  <1>2. ASSUME NEW c \in DOMAIN Columns, activate_column(c) PROVE TableInv'
    BY <1>2, SetOrderStep DEF activate_column
  <1>3. CASE update
    BY <1>3, SetOrderStep DEF update
  <1>4. ASSUME UNCHANGED <<table, ordered, tracked>> PROVE TableInv'
    BY <1>4 DEF TableInv, TableTypeOK, RowTracked, ToSet
  <1>5. CASE store \/ UNCHANGED tableVars \/ \E r \in Rows : NamesArrive({q \in Rows : Module[q] = Module[r]})
    BY <1>4, <1>5 DEF store, tableVars, NamesArrive
  <1> QED BY <1>1, <1>2, <1>3, <1>5, TrackStep, ReleaseStep DEF TableModelNext

\* The focus and the selection follow their rows, whatever is sorted, added,
\* cleared, tracked or released: a position is that of its row, and a row
\* without one is gone.
THEOREM FocusFollows == TableModelSpec => []TrackedRowsFollow
  <1>1. TableInv => TrackedRowsFollow
    <2> SUFFICES ASSUME TableInv PROVE TrackedRowsFollow
      OBVIOUS
    <2>1. ToSet(ordered) = DOMAIN table
      BY RowsInOrder DEF TableInv, TableTypeOK
    <2> QED BY <2>1 DEF TableInv, TrackedRowsFollow, RowTracked
  <1> QED BY <1>1, TableInit, TableStep, PTL DEF TableModelSpec

-----------------------------------------------------------------------------
(* table_model_impl: the tree that is shown.                                 *)

Nodes == Rows \cup {0}
Ranked(depth) ==
  /\ depth \in [Nodes -> Nat] /\ \A r \in Nodes : depth[r] <= Cardinality(Rows)
  /\ \A r \in Rows : Parent[r] \in Nodes /\ depth[Parent[r]] < depth[r]

LEMMA RowsRanked == \E depth : Ranked(depth)
  <1>1. PICK depth \in [Nodes -> 0..Cardinality(Rows)] : \A r \in Rows : depth[Parent[r]] < depth[r]
    BY ParentAssumption DEF Nodes
  <1>2. \A k \in 0..Cardinality(Rows) : k \in Nat /\ k <= Cardinality(Rows)
    BY RowsAssumption, FS_CardinalityType
  <1>3. depth \in [Nodes -> Nat] /\ \A r \in Nodes : depth[r] <= Cardinality(Rows)
    BY <1>1, <1>2
  <1>4. \A r \in Rows : Parent[r] \in Nodes
    BY ParentAssumption DEF Nodes
  <1> QED BY <1>1, <1>3, <1>4 DEF Ranked

\* A statement that goes from every parent to its rows holds of all rows.
LEMMA DownTheTree ==
  ASSUME NEW T \in SUBSET Rows, \A r \in Rows : (Parent[r] \in T \/ Parent[r] = 0) => r \in T
  PROVE  T = Rows
  <1>1. PICK depth : Ranked(depth)
    BY RowsRanked
  <1> DEFINE Wrong == {depth[r] : r \in Rows \ T}
  <1>2. ASSUME Wrong # {} PROVE FALSE
    <2>1. Wrong \in SUBSET Nat
      BY <1>1 DEF Ranked, Nodes
    <2>2. PICK d \in Wrong : \A e \in Wrong : d <= e
      <3> HIDE DEF Wrong
      <3> QED BY <1>2, <2>1, Least
    <2>3. PICK r \in Rows \ T : d = depth[r]
      BY <2>2
    <2>4. Parent[r] \in Rows \ T
      BY <1>1, <2>3 DEF Ranked, Nodes
    <2>5. depth[Parent[r]] \in Wrong
      BY <2>4
    <2>6. d <= depth[Parent[r]] /\ depth[Parent[r]] < d /\ d \in Nat /\ depth[Parent[r]] \in Nat
      BY <1>1, <2>2, <2>3, <2>4, <2>5 DEF Ranked, Nodes
    <2> QED BY <2>6
  <1> QED BY <1>2

\* Paths are there.
Extended(g, r) == IF r = 0 THEN << >> ELSE Append(g[Parent[r]], r)

LEMMA PathsThere == path = [r \in Nodes |-> Extended(path, r)]
  <1>1. PICK depth : Ranked(depth)
    BY RowsRanked
  <1> DEFINE Down(d) == {r \in Nodes : depth[r] <= d}
             Paths(g, d) == g = [r \in Down(d) |-> Extended(g, r)]
             Bad == {d \in Nat : ~\E g : Paths(g, d)}
  <1>2. \A r \in Rows : Parent[r] \in Nodes /\ depth[Parent[r]] \in Nat /\ depth[r] \in Nat /\ depth[Parent[r]] < depth[r]
    BY <1>1 DEF Ranked, Nodes
  <1>3. \A r \in Nodes : r # 0 => r \in Rows
    BY DEF Nodes
  <1>4. Bad = {}
    <2> SUFFICES ASSUME Bad # {} PROVE FALSE
      OBVIOUS
    <2>1. Bad \in SUBSET Nat
      OBVIOUS
    <2>2. PICK d \in Bad : \A e \in Bad : d <= e
      <3> HIDE DEF Bad
      <3> QED BY <2>1, Least
    <2>3. CASE d = 0
      <3> DEFINE g == [r \in Down(0) |-> << >>]
      <3>1. \A r \in Down(0) : r = 0
        BY <1>2, <1>3
      <3>2. \A r \in Down(0) : g[r] = Extended(g, r)
        BY <3>1 DEF Extended
      <3>3. Paths(g, 0)
        BY <3>2
      <3> QED BY <2>3, <3>3
    <2>4. CASE d # 0
      <3>1. d \in Nat /\ d - 1 \in Nat /\ d - 1 \notin Bad
        <4>1. d \in Nat
          BY <2>2
        <4>2. d - 1 \in Nat /\ ~(d <= d - 1)
          BY <2>4, <4>1
        <4> QED BY <2>2, <4>1, <4>2
      <3>2. PICK g : Paths(g, d - 1)
        BY <3>1
      <3> DEFINE new == [r \in Down(d) |-> Extended(g, r)]
      <3>3. \A r \in Down(d - 1) : r \in Down(d) /\ g[r] = Extended(g, r)
        <4>1. \A r \in Down(d - 1) : g[r] = Extended(g, r)
          BY <3>2
        <4>2. ASSUME NEW r \in Nodes, depth[r] <= d - 1 PROVE depth[r] <= d
          BY <1>1, <3>1, <4>2 DEF Ranked
        <4> QED BY <4>1, <4>2
      <3>4. ASSUME NEW r \in Down(d) PROVE new[r] = Extended(new, r)
        <4>1. CASE r = 0
          BY <4>1 DEF Extended
        <4>2. CASE r # 0
          <5>1. r \in Rows /\ depth[r] <= d
            BY <1>3, <4>2
          <5>2. Parent[r] \in Down(d - 1)
            BY <1>2, <3>1, <5>1
          <5>3. new[Parent[r]] = g[Parent[r]]
            BY <3>3, <5>2
          <5> QED BY <5>3 DEF Extended
        <4> QED BY <4>1, <4>2
      <3>5. Paths(new, d)
        BY <3>4
      <3> QED BY <2>2, <3>5
    <2> QED BY <2>3, <2>4
  <1>5. Cardinality(Rows) \in Nat /\ Down(Cardinality(Rows)) = Nodes
    BY <1>1, RowsAssumption, FS_CardinalityType DEF Ranked
  <1>6. ~(Cardinality(Rows) \in Bad)
    <2> HIDE DEF Bad
    <2> QED BY <1>4
  <1>7. \E g : g = [r \in Nodes |-> Extended(g, r)]
    BY <1>5, <1>6
  <1> QED BY <1>7 DEF path, Nodes, Extended

LEMMA PathOfRow ==
  ASSUME NEW r \in Rows
  PROVE  /\ Parent[r] \in Nodes /\ path[0] = << >> /\ path[r] = Append(path[Parent[r]], r)
  <1>1. 0 \in Nodes /\ r \in Nodes /\ r # 0 /\ Parent[r] \in Nodes
    BY RowsAssumption, ParentAssumption DEF Nodes
  <1> QED BY <1>1, PathsThere DEF Extended

LEMMA PathType == \A r \in Nodes : path[r] \in Seq(Rows)
  <1> DEFINE T == {r \in Rows : path[r] \in Seq(Rows)}
  <1>1. path[0] \in Seq(Rows)
    <2>1. 0 \in Nodes
      BY DEF Nodes
    <2> QED BY <2>1, PathsThere, EmptySeq DEF Extended
  <1>2. ASSUME NEW r \in Rows, Parent[r] \in T \/ Parent[r] = 0 PROVE r \in T
    <2>1. path[Parent[r]] \in Seq(Rows)
      BY <1>1, <1>2
    <2>2. path[r] = Append(path[Parent[r]], r)
      BY PathOfRow
    <2>3. Append(path[Parent[r]], r) \in Seq(Rows)
      BY <2>1, AppendProperties
    <2> QED BY <2>2, <2>3
  <1>3. T = Rows
    <2>1. T \in SUBSET Rows
      OBVIOUS
    <2> HIDE DEF T
    <2> QED BY <1>2, <2>1, DownTheTree
  <1> QED BY <1>1, <1>3 DEF Nodes

\* The path of a row is that of its parent, and the row.
LEMMA PathShape ==
  ASSUME NEW r \in Rows
  PROVE  /\ Len(path[r]) \in Nat /\ Len(path[Parent[r]]) \in Nat /\ Len(path[r]) = Len(path[Parent[r]]) + 1
         /\ DOMAIN path[r] = 1..Len(path[r]) /\ path[r][Len(path[r])] = r
         /\ \A k \in 1..Len(path[Parent[r]]) : path[r][k] = path[Parent[r]][k]
         /\ \A k \in 1..Len(path[r]) : path[r][k] \in Rows
  <1> DEFINE p == path[Parent[r]]
  <1>1. p \in Seq(Rows) /\ path[r] = Append(p, r) /\ path[r] \in Seq(Rows)
    BY PathOfRow, PathType DEF Nodes
  <1> HIDE DEF p
  <1>2. /\ Len(p) \in Nat /\ Len(path[r]) \in Nat /\ Len(path[r]) = Len(p) + 1 /\ path[r][Len(p) + 1] = r
        /\ \A k \in 1..Len(p) : path[r][k] = p[k]
    BY <1>1, AppendProperties, LenProperties
  <1>3. DOMAIN path[r] = 1..Len(path[r]) /\ \A k \in 1..Len(path[r]) : path[r][k] \in Rows
    BY <1>1, LenProperties, ElementOfSeq
  <1> QED BY <1>2, <1>3 DEF p

\* The path of a row on another's path is the beginning of that one.
PathBegins(r) ==
  \A k \in 1..Len(path[r]) : Len(path[path[r][k]]) = k /\ \A i \in 1..k : path[path[r][k]][i] = path[r][i]

LEMMA PathPrefix == \A r \in Rows : PathBegins(r)
  <1> DEFINE T == {r \in Rows : PathBegins(r)}
  <1>1. ASSUME NEW r \in Rows, Parent[r] \in T \/ Parent[r] = 0 PROVE PathBegins(r)
    <2> DEFINE n == Len(path[r])
               p == path[Parent[r]]
    <2>1. /\ n \in Nat /\ Len(p) \in Nat /\ n = Len(p) + 1 /\ path[r][n] = r
          /\ \A k \in 1..Len(p) : path[r][k] = p[k]
      BY PathShape
    <2>2. ASSUME NEW k \in 1..n
          PROVE  Len(path[path[r][k]]) = k /\ \A i \in 1..k : path[path[r][k]][i] = path[r][i]
      <3>1. CASE k = n
        BY <2>1, <3>1
      <3>2. CASE k # n
        <4>1. k \in 1..Len(p)
          BY <2>1, <3>2
        <4>2. Parent[r] # 0
          <5>1. ASSUME Parent[r] = 0 PROVE Len(p) = 0
            BY <5>1, PathOfRow, EmptySeq
          <5> QED BY <2>1, <4>1, <5>1
        <4>3. PathBegins(Parent[r])
          BY <1>1, <4>2
        <4>4. Len(path[p[k]]) = k /\ \A i \in 1..k : path[p[k]][i] = p[i]
          BY <4>1, <4>3 DEF PathBegins
        <4>5. path[r][k] = p[k] /\ \A i \in 1..k : i \in 1..Len(p)
          BY <2>1, <4>1
        <4> QED BY <2>1, <4>4, <4>5
      <3> QED BY <3>1, <3>2
    <2> QED BY <2>2 DEF PathBegins
  <1>2. T = Rows
    <2>1. T \in SUBSET Rows /\ \A r \in Rows : (Parent[r] \in T \/ Parent[r] = 0) => r \in T
      BY <1>1
    <2> HIDE DEF T
    <2> QED BY <2>1, DownTheTree
  <1> QED BY <1>2

\* The rows of a table have their callers in it.
LEMMA PathInside ==
  ASSUME NEW S \in Trees, NEW r \in S
  PROVE  \A k \in 1..Len(path[r]) : path[r][k] \in S
  <1> DEFINE T == {q \in Rows : q \in S => \A k \in 1..Len(path[q]) : path[q][k] \in S}
  <1>1. S \in SUBSET Rows /\ \A q \in S : Parent[q] \in S \cup {0}
    BY DEF Trees
  <1>2. ASSUME NEW q \in Rows, Parent[q] \in T \/ Parent[q] = 0, q \in S, NEW k \in 1..Len(path[q]) PROVE path[q][k] \in S
    <2>1. /\ Len(path[q]) \in Nat /\ Len(path[Parent[q]]) \in Nat /\ Len(path[q]) = Len(path[Parent[q]]) + 1
          /\ path[q][Len(path[q])] = q /\ \A i \in 1..Len(path[Parent[q]]) : path[q][i] = path[Parent[q]][i]
      BY PathShape
    <2>2. CASE k = Len(path[q])
      BY <1>2, <2>1, <2>2
    <2>3. CASE k # Len(path[q])
      <3>1. k \in 1..Len(path[Parent[q]])
        BY <2>1, <2>3
      <3>2. Parent[q] # 0
        <4>1. ASSUME Parent[q] = 0 PROVE Len(path[Parent[q]]) = 0
          BY <4>1, PathOfRow, EmptySeq
        <4> QED BY <2>1, <3>1, <4>1
      <3>3. Parent[q] \in S /\ Parent[q] \in T
        BY <1>1, <1>2, <3>2
      <3> QED BY <2>1, <3>1, <3>3
    <2> QED BY <2>2, <2>3
  <1>3. T = Rows
    <2>1. T \in SUBSET Rows /\ \A q \in Rows : (Parent[q] \in T \/ Parent[q] = 0) => q \in T
      BY <1>2
    <2> HIDE DEF T
    <2> QED BY <2>1, DownTheTree
  <1> QED BY <1>1, <1>3

-----------------------------------------------------------------------------
(* hierarchical_less.                                                        *)

\* total_predicate says of two rows which goes first.
LEMMA PredicateTotal ==
  ASSUME NEW S \in SUBSET Rows, NEW t \in [S -> Values], NEW known, NEW o, o.ascending \in BOOLEAN,
         NEW x \in S, NEW y \in S, x # y
  PROVE  total_predicate(t, known, o, x, y) \/ total_predicate(t, known, o, y, x)
  <1> DEFINE l == Shown(t, known, o.column, x)
             r == Shown(t, known, o.column, y)
  <1>1. x \in Nat /\ y \in Nat
    BY RowsAssumption
  <1>2. l \in Nat /\ r \in Nat
    BY ShownAssumption DEF Shown
  <1>3. /\ Compared(t, known, o, x, y) =
             IF o.column = npos \/ l = r THEN "same" ELSE IF (l < r) = o.ascending THEN "less" ELSE "greater"
        /\ Compared(t, known, o, y, x) =
             IF o.column = npos \/ r = l THEN "same" ELSE IF (r < l) = o.ascending THEN "less" ELSE "greater"
    BY DEF Compared
  <1> HIDE DEF l, r
  <1>4. CASE o.column = npos \/ l = r
    BY <1>1, <1>3, <1>4 DEF total_predicate
  <1>5. CASE ~(o.column = npos \/ l = r)
    <2>1. (l < r /\ ~(r < l)) \/ (~(l < r) /\ r < l)
      BY <1>2, <1>5
    <2>2. ((l < r) <=> o.ascending) \/ ((r < l) <=> o.ascending)
      BY <2>1
    <2>3. (l < r) = o.ascending \/ (r < l) = o.ascending
      BY <2>2
    <2> QED BY <1>3, <1>5, <2>3 DEF total_predicate
  <1> QED BY <1>4, <1>5

LEMMA MinOfTwo ==
  ASSUME NEW a \in Nat, NEW b \in Nat
  PROVE  Min({a, b}) = IF a <= b THEN a ELSE b
  <1>1. {a, b} \in SUBSET Int
    OBVIOUS
  <1>2. CASE a <= b
    <2>1. a \in {a, b} /\ \A y \in {a, b} : a <= y
      BY <1>2
    <2> QED BY <1>1, <1>2, <2>1, MinIs
  <1>3. CASE ~(a <= b)
    <2>1. b \in {a, b} /\ \A y \in {a, b} : b <= y
      BY <1>3
    <2> QED BY <1>1, <1>3, <2>1, MinIs
  <1> QED BY <1>2, <1>3

\* Place d is the first where the paths of two rows part.
PartAt(b, c, d) ==
  /\ d \in 1..Len(path[b]) /\ d \in 1..Len(path[c]) /\ path[b][d] # path[c][d]
  /\ \A i \in 1..(d - 1) : path[b][i] = path[c][i]

\* Rows whose paths part are compared as the rows of the level where they do.
LEMMA LessWhereParted ==
  ASSUME NEW b \in Rows, NEW c \in Rows, NEW d \in Nat, PartAt(b, c, d), NEW t, NEW known, NEW o
  PROVE  hierarchical_less(t, known, o, b, c) <=> total_predicate(t, known, o, path[b][d], path[c][d])
  <1>1. /\ Len(path[b]) \in Nat /\ Len(path[Parent[b]]) \in Nat /\ Len(path[b]) = Len(path[Parent[b]]) + 1
        /\ path[b][Len(path[b])] = b /\ \A k \in 1..Len(path[Parent[b]]) : path[b][k] = path[Parent[b]][k]
    BY PathShape
  <1>2. /\ Len(path[c]) \in Nat /\ Len(path[Parent[c]]) \in Nat /\ Len(path[c]) = Len(path[Parent[c]]) + 1
        /\ path[c][Len(path[c])] = c /\ \A k \in 1..Len(path[Parent[c]]) : path[c][k] = path[Parent[c]][k]
    BY PathShape
  <1>3. CASE Parent[b] = Parent[c]
    <2>1. ~(d \in 1..Len(path[Parent[b]]))
      BY <1>1, <1>2, <1>3 DEF PartAt
    <2>2. d = Len(path[b]) /\ d = Len(path[c])
      BY <1>1, <1>2, <1>3, <2>1 DEF PartAt
    <2>3. path[b][d] = b /\ path[c][d] = c
      BY <1>1, <1>2, <2>2
    <2>4. hierarchical_less(t, known, o, b, c) <=> total_predicate(t, known, o, b, c)
      BY <1>3 DEF hierarchical_less
    <2> QED BY <2>3, <2>4
  <1>4. CASE Parent[b] # Parent[c]
    <2> DEFINE both == Min({Len(path[b]), Len(path[c])})
               differ == {k \in 1..both : path[b][k] # path[c][k]}
    <2>1. both \in Nat /\ both = IF Len(path[b]) <= Len(path[c]) THEN Len(path[b]) ELSE Len(path[c])
      BY <1>1, <1>2, MinOfTwo
    <2> HIDE DEF both
    <2>2. d \in differ /\ differ \in SUBSET Int
      BY <1>1, <1>2, <2>1 DEF PartAt
    <2>3. ASSUME NEW k \in differ PROVE d <= k
      <3>1. k \in 1..both /\ path[b][k] # path[c][k] /\ ~(k \in 1..(d - 1))
        BY DEF PartAt
      <3> QED BY <2>1, <3>1
    <2>4. Min(differ) = d
      <3> HIDE DEF differ
      <3> QED BY <2>2, <2>3, MinIs
    <2>5. hierarchical_less(t, known, o, b, c) <=>
            total_predicate(t, known, o, path[b][Min(differ)], path[c][Min(differ)])
      BY <1>4, <2>2 DEF hierarchical_less, both
    <2> QED BY <2>4, <2>5
  <1> QED BY <1>3, <1>4

\* A caller goes before what is called from it.
LEMMA CallerFirst ==
  ASSUME NEW a \in Rows, NEW b \in Rows, Within(b, a), a # b, NEW t, NEW known, NEW o
  PROVE  hierarchical_less(t, known, o, a, b)
  <1>1. Len(path[b]) \in Nat /\ DOMAIN path[b] = 1..Len(path[b]) /\ path[b][Len(path[b])] = b
    BY PathShape
  <1>2. PICK k \in 1..Len(path[b]) : path[b][k] = a
    BY <1>1 DEF Within
  <1>3. Len(path[a]) = k /\ \A i \in 1..k : path[a][i] = path[b][i]
    BY <1>2, PathPrefix DEF PathBegins
  <1>4. k \in Nat /\ k < Len(path[b])
    BY <1>1, <1>2
  <1>5. Parent[a] # Parent[b]
    <2>1. ASSUME Parent[a] = Parent[b] PROVE Len(path[a]) = Len(path[b])
      <3>1. Len(path[a]) = Len(path[Parent[a]]) + 1
        BY PathShape
      <3>2. Len(path[b]) = Len(path[Parent[b]]) + 1
        BY PathShape
      <3> QED BY <2>1, <3>1, <3>2
    <2> QED BY <1>1, <1>3, <1>4, <2>1
  <1>6. Min({Len(path[a]), Len(path[b])}) = k
    BY <1>1, <1>3, <1>4, MinOfTwo
  <1>7. {i \in 1..k : path[a][i] # path[b][i]} = {}
    BY <1>3
  <1>8. hierarchical_less(t, known, o, a, b) <=> Len(path[a]) < Len(path[b])
    BY <1>5, <1>6, <1>7 DEF hierarchical_less
  <1> QED BY <1>3, <1>4, <1>8

\* Two rows of which neither is below the other part somewhere.
LEMMA Parted ==
  ASSUME NEW b \in Rows, NEW c \in Rows, ~Within(b, c), ~Within(c, b)
  PROVE  \E d \in Nat : PartAt(b, c, d)
  <1> DEFINE differ == {k \in Nat : k \in 1..Len(path[b]) /\ k \in 1..Len(path[c]) /\ path[b][k] # path[c][k]}
  <1>1. Len(path[b]) \in Nat /\ DOMAIN path[b] = 1..Len(path[b]) /\ path[b][Len(path[b])] = b /\ Len(path[b]) >= 1
    BY PathShape
  <1>2. Len(path[c]) \in Nat /\ DOMAIN path[c] = 1..Len(path[c]) /\ path[c][Len(path[c])] = c /\ Len(path[c]) >= 1
    BY PathShape
  <1>3. differ # {}
    <2>1. CASE Len(path[b]) <= Len(path[c])
      <3>1. Len(path[b]) \in 1..Len(path[b]) /\ Len(path[b]) \in 1..Len(path[c])
        BY <1>1, <1>2, <2>1
      <3>2. path[c][Len(path[b])] # b
        BY <1>2, <3>1 DEF Within
      <3>3. Len(path[b]) \in differ
        BY <1>1, <3>1, <3>2
      <3> QED BY <3>3
    <2>2. CASE ~(Len(path[b]) <= Len(path[c]))
      <3>1. Len(path[c]) \in 1..Len(path[c]) /\ Len(path[c]) \in 1..Len(path[b])
        BY <1>1, <1>2, <2>2
      <3>2. path[b][Len(path[c])] # c
        BY <1>1, <3>1 DEF Within
      <3>3. Len(path[c]) \in differ
        BY <1>2, <3>1, <3>2
      <3> QED BY <3>3
    <2> QED BY <2>1, <2>2
  <1>4. PICK d \in differ : \A k \in differ : d <= k
    <2>1. differ \in SUBSET Nat
      OBVIOUS
    <2> HIDE DEF differ
    <2> QED BY <1>3, <2>1, Least
  <1>5. ASSUME NEW i \in 1..(d - 1) PROVE path[b][i] = path[c][i]
    <2>1. d \in Nat /\ d \in 1..Len(path[b]) /\ d \in 1..Len(path[c])
      BY <1>4
    <2>2. i \in Nat /\ i \in 1..Len(path[b]) /\ i \in 1..Len(path[c]) /\ ~(d <= i)
      BY <1>1, <1>2, <2>1
    <2> QED BY <1>4, <2>2
  <1>6. PartAt(b, c, d) /\ d \in Nat
    BY <1>4, <1>5 DEF PartAt
  <1> QED BY <1>6

-----------------------------------------------------------------------------
(* The rows in order.                                                        *)

\* A sequence of a table's rows of which none is less than one before it.
InTheOrder(s, t, known, o) ==
  \A i, j \in DOMAIN s : i < j => ~hierarchical_less(t, known, o, s[j], s[i])

LEMMA OrderIsTree ==
  ASSUME NEW S \in Trees, NEW t \in [S -> Values], NEW known, NEW o, o.ascending \in BOOLEAN,
         NEW s \in SetToSeqs(S), InTheOrder(s, t, known, o),
         NEW i \in DOMAIN s, NEW j \in DOMAIN s, i < j
  PROVE  /\ ~Within(s[i], s[j])
         /\ Within(s[j], s[i]) => \A k \in i..j : Within(s[k], s[i])
         /\ Parent[s[i]] = Parent[s[j]] => total_predicate(t, known, o, s[i], s[j])
  <1>1. S \in SUBSET Rows /\ IsFiniteSet(S)
    BY RowsAssumption, FS_Subset DEF Trees
  <1>2. Len(s) \in Nat /\ DOMAIN s = 1..Len(s) /\ \A k \in DOMAIN s : s[k] \in S /\ s[k] \in Rows
    BY <1>1, RowsInOrder
  <1>3. \A k, l \in DOMAIN s : k # l => s[k] # s[l]
    BY <1>1, <1>2, Permuted
  <1>4. \A k, l \in DOMAIN s : k < l => ~hierarchical_less(t, known, o, s[l], s[k])
    BY DEF InTheOrder
  <1>5. ASSUME NEW k \in DOMAIN s, NEW l \in DOMAIN s, k < l PROVE ~Within(s[k], s[l]) /\ k # l
    <2>1. s[k] # s[l] /\ s[k] \in Rows /\ s[l] \in Rows /\ k # l
      BY <1>2, <1>3, <1>5
    <2>2. ASSUME Within(s[k], s[l]) PROVE hierarchical_less(t, known, o, s[l], s[k])
      BY <2>1, <2>2, CallerFirst
    <2> QED BY <1>4, <1>5, <2>1, <2>2
  <1>6. ASSUME Within(s[j], s[i]), NEW k \in i..j, ~Within(s[k], s[i]) PROVE FALSE
    <2> DEFINE a == s[i]
               b == s[j]
               c == s[k]
    <2>1. k \in DOMAIN s /\ a \in Rows /\ b \in Rows /\ c \in Rows /\ a \in S /\ b \in S /\ c \in S
      BY <1>2
    <2>2. Len(path[a]) \in Nat /\ path[a][Len(path[a])] = a /\ DOMAIN path[a] = 1..Len(path[a]) /\ Len(path[a]) >= 1
      BY <2>1, PathShape
    <2>3. Within(a, a)
      <3>1. Len(path[a]) \in DOMAIN path[a]
        BY <2>2
      <3> QED BY <2>2, <3>1 DEF Within
    <2>4. i < k /\ k < j
      <3>1. k # i /\ k # j
        BY <1>6, <2>3
      <3> QED BY <1>2, <3>1
    <2>5. ~Within(a, c)
      BY <1>5, <2>1, <2>4
    <2>6. PICK d \in Nat : PartAt(a, c, d)
      BY <1>6, <2>1, <2>5, Parted
    <2>7. DOMAIN path[b] = 1..Len(path[b]) /\ Len(path[b]) \in Nat
      BY <2>1, PathShape
    <2>8. PICK e \in 1..Len(path[b]) : path[b][e] = a
      BY <1>6, <2>7 DEF Within
    <2>9. Len(path[a]) = e /\ \A n \in 1..e : path[a][n] = path[b][n]
      BY <2>1, <2>8, PathPrefix DEF PathBegins
    <2> HIDE DEF a, b, c
    <2>10. d \in 1..e /\ d \in 1..Len(path[b]) /\ \A n \in 1..(d - 1) : n \in 1..e
      BY <2>2, <2>6, <2>7, <2>8, <2>9 DEF PartAt
    <2>11. PartAt(b, c, d)
      BY <2>6, <2>9, <2>10 DEF PartAt
    <2> DEFINE x == path[a][d]
               y == path[c][d]
    <2>12. x = path[b][d] /\ x # y /\ PartAt(c, a, d)
      BY <2>6, <2>9, <2>10 DEF PartAt
    <2>13. x \in S /\ y \in S
      BY <2>1, <2>6, PathInside DEF PartAt
    <2>14. ~hierarchical_less(t, known, o, c, a) /\ ~hierarchical_less(t, known, o, b, c)
      BY <1>4, <2>1, <2>4 DEF a, b, c
    <2>15. ~total_predicate(t, known, o, y, x)
      BY <2>1, <2>12, <2>14, LessWhereParted
    <2>16. ~total_predicate(t, known, o, x, y)
      BY <2>1, <2>11, <2>12, <2>14, LessWhereParted
    <2> HIDE DEF x, y
    <2> QED BY <1>1, <2>12, <2>13, <2>15, <2>16, PredicateTotal
  <1>7. ASSUME Parent[s[i]] = Parent[s[j]] PROVE total_predicate(t, known, o, s[i], s[j])
    <2>1. ~hierarchical_less(t, known, o, s[j], s[i]) /\ s[i] # s[j] /\ s[i] \in S /\ s[j] \in S
      <3>1. i # j
        BY <1>5
      <3> QED BY <1>2, <1>3, <1>4, <3>1
    <2>2. ~total_predicate(t, known, o, s[j], s[i])
      BY <1>7, <2>1 DEF hierarchical_less
    <2> QED BY <1>1, <2>1, <2>2, PredicateTotal
  <1> QED BY <1>5, <1>6, <1>7

OrderSet == [column : {0} \cup DOMAIN Columns, ascending : BOOLEAN]

\* What is shown was put in the order chosen, with the values and names of now, or
\* is known to be outdated.
ShownInv ==
  /\ DOMAIN table \in Trees /\ table \in [DOMAIN table -> Values]
  /\ order \in OrderSet /\ headers \in OrderSet /\ saved \in OrderSet
  /\ ordered \in SetToSeqs(DOMAIN table)
  /\ outdated \in BOOLEAN
  /\ outdated \/ InTheOrder(ordered, table, named, order)

LEMMA ShownStart == TableModelInit => ShownInv
  <1> SUFFICES ASSUME TableModelInit PROVE ShownInv
    OBVIOUS
  <1>1. table = <<>> /\ ordered = <<>> /\ outdated = FALSE /\ DOMAIN table = {} /\ DOMAIN ordered = {}
    BY DEF TableModelInit
  <1>2. <<>> \in SetToSeqs({}) /\ {} \in Trees /\ table \in [{} -> Values]
    BY <1>1, FS_EmptySet DEF SetToSeqs, Trees
  <1>3. headers \in OrderSet /\ order \in OrderSet /\ saved \in OrderSet
    <2>1. PICK c \in DOMAIN Columns : headers = [column |-> c, ascending |-> FALSE]
      BY DEF TableModelInit
    <2>2. headers \in OrderSet /\ [column |-> npos, ascending |-> TRUE] \in OrderSet
      BY <2>1 DEF OrderSet, npos
    <2> QED BY <2>2 DEF TableModelInit
  <1> QED BY <1>1, <1>2, <1>3 DEF ShownInv, InTheOrder

LEMMA OrderPrimed ==
  InTheOrder(ordered, table, named, order)' <=> InTheOrder(ordered', table', named', order')
  BY DEF InTheOrder, hierarchical_less, total_predicate, Compared, Shown, path, npos

LEMMA ShownSetOrder ==
  ASSUME ShownInv, NEW o \in OrderSet, set_order(o), UNCHANGED <<table, named, saved>>, headers' = o
  PROVE  ShownInv'
  <1>1. CASE o.column = npos \/ Columns[o.column].compare
    <2>1. order' = o /\ ordered' \in Sorted(table, named, o) /\ outdated' = FALSE
      BY <1>1 DEF set_order
    <2>2. ordered' \in SetToSeqs(DOMAIN table) /\ InTheOrder(ordered', table, named, o)
      BY <2>1 DEF Sorted, InTheOrder
    <2>3. InTheOrder(ordered, table, named, order)'
      BY <2>1, <2>2, OrderPrimed
    <2> QED BY <2>1, <2>2, <2>3 DEF ShownInv
  <1>2. CASE ~(o.column = npos \/ Columns[o.column].compare)
    <2>1. UNCHANGED <<order, ordered, outdated>>
      BY <1>2 DEF set_order
    <2>2. outdated' \/ InTheOrder(ordered, table, named, order)'
      BY <2>1, OrderPrimed DEF ShownInv
    <2> QED BY <2>1, <2>2 DEF ShownInv
  <1> QED BY <1>1, <1>2

\* Names that the chosen column does not show, or that were known, change no order.
LEMMA NamesUnseen ==
  ASSUME NEW s, NEW t, NEW o, NEW old, NEW more,
         more \subseteq old \/ o.column = npos \/ Columns[o.column].shows # "name",
         InTheOrder(s, t, old, o)
  PROVE  InTheOrder(s, t, old \cup more, o)
  <1>0. ASSUME \A x, y : Compared(t, old \cup more, o, x, y) = Compared(t, old, o, x, y)
        PROVE  InTheOrder(s, t, old \cup more, o)
    <2>1. \A x, y : total_predicate(t, old \cup more, o, x, y) <=> total_predicate(t, old, o, x, y)
      BY <1>0 DEF total_predicate
    <2>2. ASSUME NEW x, NEW y PROVE hierarchical_less(t, old \cup more, o, x, y) <=> hierarchical_less(t, old, o, x, y)
      BY <2>1 DEF hierarchical_less
    <2> QED BY <2>2 DEF InTheOrder
  <1>1. CASE more \subseteq old
    <2>1. old \cup more = old
      BY <1>1
    <2> QED BY <2>1
  <1>2. CASE o.column = npos
    <2>1. \A x, y : Compared(t, old \cup more, o, x, y) = Compared(t, old, o, x, y)
      BY <1>2 DEF Compared
    <2> QED BY <1>0, <2>1
  <1>3. CASE Columns[o.column].shows # "name"
    <2>1. \A x : Shown(t, old \cup more, o.column, x) = Shown(t, old, o.column, x)
      BY <1>3 DEF Shown
    <2>2. \A x, y : Compared(t, old \cup more, o, x, y) = Compared(t, old, o, x, y)
      BY <2>1 DEF Compared
    <2> QED BY <1>0, <2>2
  <1> QED BY <1>1, <1>2, <1>3

LEMMA ShownStep == ShownInv /\ [TableModelNext]_tableVars => ShownInv'
  <1> SUFFICES ASSUME ShownInv, [TableModelNext]_tableVars PROVE ShownInv'
    OBVIOUS
  <1>1. ASSUME NEW t \in Grown \cup {<< >>}, fetch(t) PROVE ShownInv'
    <2>1. DOMAIN t \in Trees /\ t \in [DOMAIN t -> Values]
      <3>1. CASE t \in Grown
        BY <3>1 DEF Grown, Tables
      <3>2. CASE t = <<>>
        BY <3>2 DEF Trees
      <3> QED BY <1>1, <3>1, <3>2
    <2>2. table' = t /\ ordered' \in Sorted(t, named, order) /\ outdated' = FALSE /\ UNCHANGED <<named, order, headers, saved>>
      BY <1>1 DEF fetch
    <2>3. ordered' \in SetToSeqs(DOMAIN t) /\ InTheOrder(ordered', t, named, order)
      BY <2>2 DEF Sorted, InTheOrder
    <2>4. InTheOrder(ordered, table, named, order)'
      BY <2>2, <2>3, OrderPrimed
    <2> QED BY <2>1, <2>2, <2>3, <2>4 DEF ShownInv
  <1>2. ASSUME NEW c \in DOMAIN Columns, activate_column(c) PROVE ShownInv'
    <2>1. headers' \in OrderSet
      <3>1. headers.ascending \in BOOLEAN /\ Columns[c].ascending \in BOOLEAN
        BY ShownAssumption DEF ShownInv, OrderSet
      <3>2. headers' = [column |-> c, ascending |-> headers'.ascending] /\ headers'.ascending \in BOOLEAN
        BY <1>2, <3>1 DEF activate_column
      <3> QED BY <3>2 DEF OrderSet
    <2> QED BY <1>2, <2>1, ShownSetOrder DEF activate_column
  <1>3. CASE update
    <2>1. headers' \in OrderSet
      BY <1>3 DEF update, ShownInv, OrderSet, npos
    <2> QED BY <1>3, <2>1, ShownSetOrder DEF update
  <1>4. ASSUME UNCHANGED <<table, named, ordered, order, outdated>>, headers' \in OrderSet, saved' \in OrderSet PROVE ShownInv'
    <2>1. outdated' \/ InTheOrder(ordered, table, named, order)'
      BY <1>4, OrderPrimed DEF ShownInv
    <2> QED BY <1>4, <2>1 DEF ShownInv
  <1>5. CASE store
    BY <1>4, <1>5 DEF store, ShownInv
  <1>6. CASE UNCHANGED tableVars
    BY <1>4, <1>6 DEF tableVars, ShownInv
  <1>7. ASSUME NEW i \in DOMAIN ordered, track(i) PROVE ShownInv'
    BY <1>4, <1>7 DEF track, ShownInv
  <1>8. ASSUME NEW k \in DOMAIN tracked, release(k) PROVE ShownInv'
    BY <1>4, <1>8 DEF release, ShownInv
  <1>9. ASSUME NEW known, NamesArrive(known) PROVE ShownInv'
    <2>1. named' = named \cup known /\ UNCHANGED <<table, ordered, order, headers, saved>> /\ outdated' \in BOOLEAN
      BY <1>9 DEF NamesArrive, ShownInv
    <2>2. ASSUME ~outdated' PROVE InTheOrder(ordered, table, named, order)'
      <3>1. ~outdated /\ (known \subseteq named \/ order.column = npos \/ Columns[order.column].shows # "name")
        BY <1>9, <2>2 DEF NamesArrive
      <3>2. InTheOrder(ordered, table, named, order)
        BY <3>1 DEF ShownInv
      <3>3. InTheOrder(ordered, table, named \cup known, order)
        BY <3>1, <3>2, NamesUnseen
      <3> QED BY <2>1, <3>3, OrderPrimed
    <2> QED BY <2>1, <2>2 DEF ShownInv
  <1> QED BY <1>1, <1>2, <1>3, <1>5, <1>6, <1>7, <1>8, <1>9 DEF TableModelNext

\* The rows are shown as the tree of calls, for all trees and columns, with rows
\* that come and go, values that change, orders that are chosen anew and names
\* that come late: a caller first, its callees right after it.
THEOREM TreeIsShown == TableModelSpec => []ShownAsTree
  <1>1. ShownInv => ShownAsTree
    <2> SUFFICES ASSUME ShownInv, ~outdated PROVE ShownAsTree
      BY DEF ShownAsTree
    <2>1. /\ DOMAIN table \in Trees /\ table \in [DOMAIN table -> Values] /\ order.ascending \in BOOLEAN
          /\ ordered \in SetToSeqs(DOMAIN table) /\ InTheOrder(ordered, table, named, order)
      BY DEF ShownInv, OrderSet
    <2>2. DOMAIN table \in SUBSET Rows /\ IsFiniteSet(DOMAIN table)
      BY <2>1, RowsAssumption, FS_Subset DEF Trees
    <2>3. ToSet(ordered) = DOMAIN table /\ Len(ordered) = Cardinality(DOMAIN table)
      BY <2>1, <2>2, Permuted
    <2>4. ASSUME NEW i \in DOMAIN ordered, NEW j \in DOMAIN ordered, i < j
          PROVE  /\ ~Within(ordered[i], ordered[j])
                 /\ Within(ordered[j], ordered[i]) => \A k \in i..j : Within(ordered[k], ordered[i])
                 /\ Parent[ordered[i]] = Parent[ordered[j]] =>
                      total_predicate(table, named, order, ordered[i], ordered[j])
      BY <2>1, <2>4, OrderIsTree
    <2> QED BY <2>3, <2>4 DEF ShownAsTree
  <1> QED BY <1>1, ShownStart, ShownStep, PTL DEF TableModelSpec

-----------------------------------------------------------------------------
(* Histograms.                                                               *)

\* Sums are there, and each is the one before it and the bin's.
LEMMA SumsFacts ==
  ASSUME NEW n \in Nat \ {0}, NEW bins \in [0..(n - 1) -> Nat]
  PROVE  /\ Sums(bins) \in [0..(n - 1) -> Nat]
         /\ Sums(bins)[0] = bins[0]
         /\ \A k \in 1..(n - 1) : Sums(bins)[k] = Sums(bins)[k - 1] + bins[k]
  <1> DEFINE Summed(g, k) == g = [i \in 0..k |-> IF i = 0 THEN bins[i] ELSE g[i - 1] + bins[i]]
             Bad == {k \in 0..(n - 1) : ~\E g \in [0..k -> Nat] : Summed(g, k)}
             upto[k \in DOMAIN bins] == IF k = 0 THEN bins[k] ELSE upto[k - 1] + bins[k]
  <1>1. Bad = {}
    <2> SUFFICES ASSUME Bad # {} PROVE FALSE
      OBVIOUS
    <2>1. Bad \in SUBSET Nat
      OBVIOUS
    <2>2. PICK k \in Bad : \A m \in Bad : k <= m
      <3> HIDE DEF Bad
      <3> QED BY <2>1, Least
    <2>3. CASE k = 0
      <3> DEFINE g == [i \in 0..0 |-> bins[0]]
      <3>1. g \in [0..0 -> Nat] /\ Summed(g, 0)
        OBVIOUS
      <3> QED BY <2>3, <3>1
    <2>4. CASE k # 0
      <3>1. k \in 1..(n - 1) /\ k - 1 \in 0..(n - 1) /\ k - 1 \notin Bad
        <4>1. k \in 0..(n - 1)
          BY <2>2
        <4>2. k \in 1..(n - 1) /\ k - 1 \in 0..(n - 1) /\ ~(k <= k - 1)
          BY <2>4, <4>1
        <4> QED BY <2>2, <4>2
      <3>2. PICK g \in [0..(k - 1) -> Nat] : Summed(g, k - 1)
        BY <3>1
      <3> DEFINE h == [i \in 0..k |-> IF i = k THEN g[k - 1] + bins[k] ELSE g[i]]
      <3>3. h \in [0..k -> Nat]
        BY <3>1
      <3>4. Summed(h, k)
        <4>1. ASSUME NEW i \in 0..k PROVE h[i] = IF i = 0 THEN bins[i] ELSE h[i - 1] + bins[i]
          <5>1. CASE i = k
            BY <3>1, <5>1
          <5>2. CASE i # k
            <6>1. i \in 0..(k - 1) /\ (i # 0 => i - 1 \in 0..(k - 1))
              BY <3>1, <5>2
            <6>2. g[i] = IF i = 0 THEN bins[i] ELSE g[i - 1] + bins[i]
              BY <3>2, <6>1
            <6> QED BY <3>1, <5>2, <6>1, <6>2
          <5> QED BY <5>1, <5>2
        <4> QED BY <3>3, <4>1
      <3> QED BY <3>3, <3>4
    <2> QED BY <2>3, <2>4
  <1>2. PICK g \in [0..(n - 1) -> Nat] : Summed(g, n - 1)
    <2>1. n - 1 \in 0..(n - 1)
      OBVIOUS
    <2>2. ~(n - 1 \in Bad)
      <3> HIDE DEF Bad
      <3> QED BY <1>1
    <2> QED BY <2>1, <2>2
  <1>3. upto = [i \in 0..(n - 1) |-> IF i = 0 THEN bins[i] ELSE upto[i - 1] + bins[i]]
    <2>1. DOMAIN bins = 0..(n - 1)
      OBVIOUS
    <2> QED BY <1>2, <2>1
  <1>4. Sums(bins) = upto
    BY DEF Sums
  <1> HIDE DEF upto
  <1> DEFINE Wrong == {k \in 0..(n - 1) : upto[k] \notin Nat}
  <1>5. ASSUME Wrong # {} PROVE FALSE
    <2>1. PICK k \in Wrong : \A m \in Wrong : k <= m
      <3>1. Wrong \in SUBSET Nat
        OBVIOUS
      <3> HIDE DEF Wrong
      <3> QED BY <1>5, <3>1, Least
    <2>2. upto[k] = IF k = 0 THEN bins[k] ELSE upto[k - 1] + bins[k]
      BY <1>3, <2>1
    <2>3. k # 0 => k - 1 \in 0..(n - 1) /\ ~(k <= k - 1)
      BY <2>1
    <2>4. k # 0 => upto[k - 1] \in Nat
      BY <2>1, <2>3
    <2>5. k \in 0..(n - 1) /\ bins[k] \in Nat
      BY <2>1
    <2>6. upto[k] \in Nat
      BY <2>2, <2>4, <2>5
    <2> QED BY <2>1, <2>6
  <1>6. \A k \in 0..(n - 1) : upto[k] \in Nat
    BY <1>5
  <1>7. upto \in [0..(n - 1) -> Nat]
    BY <1>3, <1>6
  <1>8. upto[0] = bins[0] /\ \A k \in 1..(n - 1) : upto[k] = upto[k - 1] + bins[k]
    BY <1>3
  <1> QED BY <1>4, <1>7, <1>8

\* What holds of the sum of the first bin and goes over from one to the next holds
\* of all: here, that sums of bins that are related are related.
LEMMA SumsAdded ==
  ASSUME NEW n \in Nat \ {0}, NEW a \in [0..(n - 1) -> Nat], NEW b \in [0..(n - 1) -> Nat], NEW c \in [0..(n - 1) -> Nat],
         \A k \in 0..(n - 1) : c[k] = a[k] + b[k]
  PROVE  \A k \in 0..(n - 1) : Sums(c)[k] = Sums(a)[k] + Sums(b)[k]
  <1> DEFINE A == Sums(a)
             B == Sums(b)
             C == Sums(c)
             Wrong == {k \in 0..(n - 1) : C[k] # A[k] + B[k]}
  <1>1. /\ A \in [0..(n - 1) -> Nat] /\ A[0] = a[0] /\ \A k \in 1..(n - 1) : A[k] = A[k - 1] + a[k]
        /\ B \in [0..(n - 1) -> Nat] /\ B[0] = b[0] /\ \A k \in 1..(n - 1) : B[k] = B[k - 1] + b[k]
        /\ C \in [0..(n - 1) -> Nat] /\ C[0] = c[0] /\ \A k \in 1..(n - 1) : C[k] = C[k - 1] + c[k]
    BY SumsFacts
  <1> HIDE DEF A, B, C
  <1>2. ASSUME Wrong # {} PROVE FALSE
    <2>1. PICK k \in Wrong : \A m \in Wrong : k <= m
      <3>1. Wrong \in SUBSET Nat
        OBVIOUS
      <3> HIDE DEF Wrong
      <3> QED BY <1>2, <3>1, Least
    <2>2. k \in 0..(n - 1) /\ C[k] # A[k] + B[k] /\ c[k] = a[k] + b[k]
      BY <2>1
    <2>3. k # 0 => k \in 1..(n - 1) /\ k - 1 \in 0..(n - 1) /\ ~(k <= k - 1)
      BY <2>2
    <2>4. k # 0 => C[k - 1] = A[k - 1] + B[k - 1]
      BY <2>1, <2>3
    <2>5. CASE k = 0
      BY <1>1, <2>2, <2>5
    <2>6. CASE k # 0
      <3>1. C[k] = C[k - 1] + c[k] /\ A[k] = A[k - 1] + a[k] /\ B[k] = B[k - 1] + b[k]
        BY <1>1, <2>3, <2>6
      <3>2. A[k - 1] \in Nat /\ B[k - 1] \in Nat /\ a[k] \in Nat /\ b[k] \in Nat
        BY <1>1, <2>2, <2>3, <2>6
      <3>3. C[k] = (A[k - 1] + B[k - 1]) + (a[k] + b[k])
        BY <2>2, <2>4, <2>6, <3>1
      <3>4. \A p, q, r, s \in Nat : (p + q) + (r + s) = (p + r) + (q + s)
        OBVIOUS
      <3>5. C[k] = (A[k - 1] + a[k]) + (B[k - 1] + b[k])
        BY <3>2, <3>3, <3>4
      <3> QED BY <2>2, <3>1, <3>5
    <2> QED BY <2>5, <2>6
  <1> QED BY <1>2 DEF A, B, C

\* Sums do not fall, and stay while the bins are empty.
LEMMA SumsOrdered ==
  ASSUME NEW n \in Nat \ {0}, NEW bins \in [0..(n - 1) -> Nat], NEW j \in 0..(n - 1)
  PROVE  \A k \in j..(n - 1) : /\ Sums(bins)[j] <= Sums(bins)[k]
                               /\ (\A i \in (j + 1)..k : bins[i] = 0) => Sums(bins)[k] = Sums(bins)[j]
  <1> DEFINE S == Sums(bins)
             Fine(k) == S[j] <= S[k] /\ ((\A i \in (j + 1)..k : bins[i] = 0) => S[k] = S[j])
             Wrong == {k \in j..(n - 1) : ~Fine(k)}
  <1>1. S \in [0..(n - 1) -> Nat] /\ \A k \in 1..(n - 1) : S[k] = S[k - 1] + bins[k]
    BY SumsFacts
  <1> HIDE DEF S
  <1>2. ASSUME Wrong # {} PROVE FALSE
    <2>1. PICK k \in Wrong : \A m \in Wrong : k <= m
      <3>1. Wrong \in SUBSET Nat
        OBVIOUS
      <3> HIDE DEF Wrong
      <3> QED BY <1>2, <3>1, Least
    <2>2. k \in j..(n - 1) /\ ~Fine(k) /\ k # j
      BY <1>1, <2>1
    <2>3. k \in 1..(n - 1) /\ k - 1 \in j..(n - 1) /\ ~(k <= k - 1)
      BY <2>2
    <2>4. Fine(k - 1)
      BY <2>1, <2>3
    <2>5. S[k] = S[k - 1] + bins[k] /\ bins[k] \in Nat /\ S[k - 1] \in Nat /\ S[j] \in Nat
      BY <1>1, <2>3
    <2>6. S[j] <= S[k]
      BY <2>4, <2>5
    <2>7. ASSUME \A i \in (j + 1)..k : bins[i] = 0 PROVE S[k] = S[j]
      <3>1. k \in (j + 1)..k /\ \A i \in (j + 1)..(k - 1) : i \in (j + 1)..k
        BY <2>2, <2>3
      <3>2. bins[k] = 0 /\ S[k - 1] = S[j]
        BY <2>4, <2>7, <3>1
      <3> QED BY <2>5, <3>2
    <2> QED BY <2>2, <2>6, <2>7
  <1> QED BY <1>2 DEF S

LEMMA SumsEmpty ==
  ASSUME NEW n \in Nat \ {0}, NEW bins \in [0..(n - 1) -> Nat], NEW k \in 0..(n - 1), \A i \in 0..k : bins[i] = 0
  PROVE  Sums(bins)[k] = 0
  <1>1. Sums(bins)[0] = 0
    BY SumsFacts
  <1>2. k \in 0..(n - 1) /\ 0 \in 0..(n - 1) /\ \A i \in (0 + 1)..k : bins[i] = 0
    OBVIOUS
  <1>3. Sums(bins)[k] = Sums(bins)[0]
    BY <1>2, SumsOrdered
  <1> QED BY <1>1, <1>3

\* A sample more in one bin is one more in all.
LEMMA SampleCounts ==
  ASSUME NEW n \in Nat \ {0}, NEW bins \in [0..(n - 1) -> Nat], NEW i \in 0..(n - 1)
  PROVE  Sums([bins EXCEPT ![i] = @ + 1])[n - 1] = Sums(bins)[n - 1] + 1
  <1> DEFINE more == [bins EXCEPT ![i] = @ + 1]
             one == [k \in 0..(n - 1) |-> IF k = i THEN 1 ELSE 0]
  <1>1. one \in [0..(n - 1) -> Nat] /\ more \in [0..(n - 1) -> Nat] /\ n - 1 \in 0..(n - 1) /\ 0 \in 0..(n - 1)
    OBVIOUS
  <1>2. \A k \in 0..(n - 1) : more[k] = bins[k] + one[k]
    OBVIOUS
  <1>3. one[i] = 1 /\ \A k \in 0..(n - 1) : k # i => one[k] = 0
    OBVIOUS
  <1> HIDE DEF one, more
  <1>4. Sums(more)[n - 1] = Sums(bins)[n - 1] + Sums(one)[n - 1]
    <2>1. \A k \in 0..(n - 1) : Sums(more)[k] = Sums(bins)[k] + Sums(one)[k]
      BY <1>1, <1>2, SumsAdded
    <2> QED BY <1>1, <2>1
  <1>5. Sums(one)[i] = 1
    <2>1. CASE i = 0
      BY <1>1, <1>3, <2>1, SumsFacts
    <2>2. CASE i # 0
      <3>1. i \in 1..(n - 1) /\ i - 1 \in 0..(n - 1) /\ \A k \in 0..(i - 1) : one[k] = 0
        BY <1>3, <2>2
      <3>2. Sums(one)[i - 1] = 0
        BY <1>1, <3>1, SumsEmpty
      <3>3. Sums(one)[i] = Sums(one)[i - 1] + one[i]
        <4>1. \A k \in 1..(n - 1) : Sums(one)[k] = Sums(one)[k - 1] + one[k]
          BY <1>1, SumsFacts
        <4> QED BY <3>1, <4>1
      <3> QED BY <1>3, <3>2, <3>3
    <2> QED BY <2>1, <2>2
  <1>6. Sums(one)[n - 1] = Sums(one)[i]
    <2>1. n - 1 \in i..(n - 1) /\ \A k \in (i + 1)..(n - 1) : one[k] = 0
      BY <1>3
    <2> QED BY <1>1, <2>1, SumsOrdered
  <1> QED BY <1>4, <1>5, <1>6 DEF more

HistogramOn(s) == [scale : {s}, bins : [0..(s.samples - 1) -> Nat]]
HistogramSet == UNION {HistogramOn(s) : s \in Scales}

\* Histograms have the bins of their scales, and in them what was added.
HistogramInv ==
  /\ histograms \in [1..2 -> HistogramSet] /\ added \in [1..2 -> Nat]
  /\ \A k \in 1..2 : Total(histograms[k]) = added[k]

\* What is known of a histogram.
LEMMA HistogramIs ==
  ASSUME NEW h \in HistogramSet
  PROVE  /\ h.scale \in Scales /\ h = [scale |-> h.scale, bins |-> h.bins]
         /\ h.scale.samples \in Nat \ {0} /\ h.bins \in [0..(h.scale.samples - 1) -> Nat]
         /\ Total(h) \in Nat
  <1>1. PICK s \in Scales : h \in HistogramOn(s)
    BY DEF HistogramSet
  <1>2. h.scale = s /\ h = [scale |-> h.scale, bins |-> h.bins] /\ h.bins \in [0..(s.samples - 1) -> Nat]
    BY <1>1 DEF HistogramOn
  <1>3. s.samples \in Nat \ {0}
    BY ScalesAssumption
  <1>4. Sums(h.bins) \in [0..(s.samples - 1) -> Nat]
    BY <1>2, <1>3, SumsFacts
  <1>5. Total(h) \in Nat
    BY <1>2, <1>3, <1>4 DEF Total
  <1> QED BY <1>1, <1>2, <1>3, <1>5

LEMMA HistogramMade ==
  ASSUME NEW s \in Scales, NEW bins \in [0..(s.samples - 1) -> Nat]
  PROVE  [scale |-> s, bins |-> bins] \in HistogramSet
  <1>1. [scale |-> s, bins |-> bins] \in HistogramOn(s)
    BY DEF HistogramOn
  <1> QED BY <1>1 DEF HistogramSet

\* An empty histogram.
LEMMA EmptyFacts ==
  ASSUME NEW s \in Scales
  PROVE  Empty(s) \in HistogramSet /\ Total(Empty(s)) = 0
  <1> DEFINE bins == [k \in 0..(s.samples - 1) |-> 0]
  <1>1. s.samples \in Nat \ {0}
    BY ScalesAssumption
  <1>2. bins \in [0..(s.samples - 1) -> Nat] /\ (\A k \in 0..(s.samples - 1) : bins[k] = 0) /\ Empty(s) = [scale |-> s, bins |-> bins]
    BY DEF Empty
  <1>3. Empty(s).scale = s /\ Empty(s).bins = bins
    BY <1>2
  <1> HIDE DEF bins
  <1>4. Empty(s) \in HistogramSet
    BY <1>2, HistogramMade
  <1>5. s.samples - 1 \in 0..(s.samples - 1)
    BY <1>1
  <1>6. Sums(bins)[s.samples - 1] = 0
    BY <1>1, <1>2, <1>5, SumsEmpty
  <1> QED BY <1>3, <1>4, <1>6 DEF Total

\* The scale is made of whole steps.
LEMMA StepFacts ==
  ASSUME NEW s \in Scales, s.samples > 1
  PROVE  /\ Step(s) \in Nat \ {0} /\ s.far - s.near = Step(s) * (s.samples - 1)
         /\ Step(s) \div 2 \in Nat /\ 2 * (Step(s) \div 2) <= Step(s) /\ Step(s) - (Step(s) \div 2) >= Step(s) \div 2
         /\ Step(s) <= 2 * (Step(s) \div 2) + 1
  <1>1. PICK e \in 0..(Precision - 1) : 2^e \in Nat \ {0} /\ s.far - s.near = 2^e * (s.samples - 1)
    BY ScalesAssumption
  <1>2. PICK p \in Nat \ {0} : p = 2^e
    BY <1>1
  <1>3. PICK N \in Nat \ {0} : N = s.samples - 1
    BY ScalesAssumption
  <1>4. Step(s) = (p * N) \div N
    BY <1>1, <1>2, <1>3 DEF Step
  <1>5. (p * N) \div N = p
    BY ONLY p \in Nat \ {0}, N \in Nat \ {0}
  <1>6. p \div 2 \in Nat /\ 2 * (p \div 2) <= p /\ p <= 2 * (p \div 2) + 1
    OBVIOUS
  <1> QED BY <1>1, <1>2, <1>3, <1>4, <1>5, <1>6

\* A value falls in one of the bins, also when its quotient is not converted.
LEMMA IndexInRange ==
  ASSUME NEW s \in Scales, NEW v \in Int
  PROVE  Indices(s, v) \subseteq 0..(s.samples - 1)
  <1>1. s.samples \in Nat \ {0} /\ s.near \in Int
    BY ScalesAssumption
  <1>2. \A q \in Int : Clamped(q, s.samples) \in 0..(s.samples - 1)
    BY <1>1 DEF Clamped
  <1>3. CASE s.samples = 1
    BY <1>1, <1>3 DEF Indices
  <1>4. CASE s.samples # 1
    <2> DEFINE quotient == Quotient(v - (s.near - Step(s) \div 2), Step(s))
    <2>1. s.samples > 1
      BY <1>1, <1>4
    <2>2. Step(s) \in Nat \ {0} /\ Step(s) \div 2 \in Nat
      BY <2>1, StepFacts
    <2>3. v - (s.near - Step(s) \div 2) \in Int
      BY <1>1, <2>2
    <2>4. \A a \in Int : \A b \in Nat \ {0} : Quotient(a, b) \in Int
      BY DEF Quotient
    <2>5. quotient \in Int
      BY <2>2, <2>3, <2>4
    <2>6. Indices(s, v) = IF quotient > Convertible THEN {0, s.samples - 1} ELSE {Clamped(quotient, s.samples)}
      BY <1>4 DEF Indices
    <2> HIDE DEF quotient
    <2> QED BY <1>1, <1>2, <2>5, <2>6
  <1> QED BY <1>3, <1>4

LEMMA HistogramStart == HistogramInit => HistogramInv
  <1> SUFFICES ASSUME HistogramInit PROVE HistogramInv
    OBVIOUS
  <1>1. histograms \in [1..2 -> HistogramSet] /\ \A k \in 1..2 : Total(histograms[k]) = 0
    BY EmptyFacts DEF HistogramInit
  <1>2. added \in [1..2 -> Nat] /\ \A k \in 1..2 : added[k] = 0
    BY DEF HistogramInit
  <1> QED BY <1>1, <1>2 DEF HistogramInv

\* One histogram is replaced, and what it holds is counted anew.
LEMMA HistogramReplaced ==
  ASSUME HistogramInv, NEW k \in 1..2, NEW h \in HistogramSet, NEW count \in Nat, Total(h) = count,
         histograms' = [histograms EXCEPT ![k] = h], added' = [added EXCEPT ![k] = count]
  PROVE  HistogramInv'
  <1>1. histograms' \in [1..2 -> HistogramSet] /\ added' \in [1..2 -> Nat]
    BY DEF HistogramInv
  <1>2. ASSUME NEW i \in 1..2 PROVE Total(histograms'[i]) = added'[i]
    <2>1. CASE i = k
      <3>1. histograms'[i] = h /\ added'[i] = count
        BY <2>1 DEF HistogramInv
      <3> QED BY <3>1
    <2>2. CASE i # k
      <3>1. histograms'[i] = histograms[i] /\ added'[i] = added[i]
        BY <2>2 DEF HistogramInv
      <3> QED BY <3>1 DEF HistogramInv
    <2> QED BY <2>1, <2>2
  <1>3. \A i \in 1..2 : Total(histograms[i])' = added'[i]
    BY <1>2 DEF Total, Sums
  <1> QED BY <1>1, <1>3 DEF HistogramInv

LEMMA HistogramStepKept == HistogramInv /\ [HistogramNext]_histogramVars => HistogramInv'
  <1> SUFFICES ASSUME HistogramInv, [HistogramNext]_histogramVars PROVE HistogramInv'
    OBVIOUS
  <1>0. histograms \in [1..2 -> HistogramSet] /\ added \in [1..2 -> Nat] /\ \A k \in 1..2 : Total(histograms[k]) = added[k]
    BY DEF HistogramInv
  <1>1. ASSUME NEW k \in 1..2, NEW s \in Scales, set_scale(k, s) PROVE HistogramInv'
    BY <1>1, EmptyFacts, HistogramReplaced DEF set_scale
  <1>2. ASSUME NEW k \in 1..2, NEW v \in Samples, add_value(k, v) PROVE HistogramInv'
    <2>0. PICK i \in Indices(histograms[k].scale, v) : histograms' = [histograms EXCEPT ![k].bins[i] = @ + 1]
      BY <1>2 DEF add_value
    <2> DEFINE h == histograms[k]
               more == [h.bins EXCEPT ![i] = @ + 1]
               new == [scale |-> h.scale, bins |-> more]
    <2>1. h \in HistogramSet /\ v \in Int
      BY <1>0, SamplesAssumption
    <2>2. /\ h.scale \in Scales /\ h = [scale |-> h.scale, bins |-> h.bins]
          /\ h.scale.samples \in Nat \ {0} /\ h.bins \in [0..(h.scale.samples - 1) -> Nat] /\ Total(h) \in Nat
      BY <2>1, HistogramIs
    <2>3. i \in 0..(h.scale.samples - 1)
      BY <2>1, <2>2, IndexInRange
    <2>4. histograms' = [histograms EXCEPT ![k] = new]
      <3>1. [h EXCEPT !.bins = more] = new
        BY <2>2
      <3>2. histograms' = [histograms EXCEPT ![k] = [h EXCEPT !.bins = more]]
        BY <2>0
      <3> QED BY <3>1, <3>2
    <2>5. added' = [added EXCEPT ![k] = added[k] + 1]
      BY <1>2 DEF add_value
    <2>6. more \in [0..(h.scale.samples - 1) -> Nat]
      <3> HIDE DEF h
      <3> QED BY <2>2, <2>3
    <2>7. Sums(more)[h.scale.samples - 1] = Sums(h.bins)[h.scale.samples - 1] + 1
      <3> HIDE DEF h
      <3> QED BY <2>2, <2>3, SampleCounts
    <2>8. Total(new) = added[k] + 1 /\ added[k] + 1 \in Nat
      <3>1. Total(h) = added[k]
        BY <1>0
      <3>2. Total(new) = Sums(more)[h.scale.samples - 1]
        BY DEF Total
      <3>3. Total(h) = Sums(h.bins)[h.scale.samples - 1]
        BY DEF Total
      <3>4. added[k] \in Nat
        BY <1>0
      <3> QED BY <2>7, <3>1, <3>2, <3>3, <3>4
    <2>9. new \in HistogramSet
      <3> HIDE DEF h, more
      <3> QED BY <2>2, <2>6, HistogramMade
    <2> HIDE DEF new
    <2> QED BY <2>4, <2>5, <2>8, <2>9, HistogramReplaced
  <1>3. ASSUME NEW k \in 1..2, merge(k) PROVE HistogramInv'
    <2> DEFINE h == histograms[k]
               other == histograms[3 - k]
               new == AddUp(h, other)
               count == added[3 - k] + IF h.scale = other.scale THEN added[k] ELSE 0
               sum == [i \in DOMAIN h.bins |-> h.bins[i] + other.bins[i]]
    <2>1. 3 - k \in 1..2 /\ h \in HistogramSet /\ other \in HistogramSet
      BY <1>0
    <2>2. histograms' = [histograms EXCEPT ![k] = new] /\ added' = [added EXCEPT ![k] = count]
      BY <1>3 DEF merge
    <2>3. added[k] \in Nat /\ added[3 - k] \in Nat /\ count \in Nat /\ Total(h) = added[k] /\ Total(other) = added[3 - k]
      BY <1>0, <2>1
    <2> HIDE DEF h, other
    <2>4. CASE h.scale # other.scale
      <3>1. new = other /\ count = added[3 - k]
        BY <2>3, <2>4 DEF AddUp
      <3> QED BY <2>1, <2>2, <2>3, <3>1, HistogramReplaced
    <2>5. CASE h.scale = other.scale
      <3> DEFINE n == h.scale.samples
      <3>1. /\ h.scale \in Scales /\ h = [scale |-> h.scale, bins |-> h.bins]
            /\ n \in Nat \ {0} /\ h.bins \in [0..(n - 1) -> Nat] /\ other.bins \in [0..(n - 1) -> Nat]
        BY <2>1, <2>5, HistogramIs
      <3>2. sum \in [0..(n - 1) -> Nat] /\ \A i \in 0..(n - 1) : sum[i] = h.bins[i] + other.bins[i]
        BY <3>1
      <3>3. new = [scale |-> h.scale, bins |-> sum]
        <4>1. new = [h EXCEPT !.bins = sum]
          BY <2>5 DEF AddUp
        <4> HIDE DEF sum, new
        <4> QED BY <3>1, <4>1
      <3>4. count = added[3 - k] + added[k]
        BY <2>5
      <3> HIDE DEF sum, new, count, n
      <3>5. \A i \in 0..(n - 1) : Sums(sum)[i] = Sums(h.bins)[i] + Sums(other.bins)[i]
        BY <3>1, <3>2, SumsAdded
      <3>6. n - 1 \in 0..(n - 1)
        BY <3>1
      <3>7. Sums(sum)[n - 1] = Sums(h.bins)[n - 1] + Sums(other.bins)[n - 1]
        BY <3>5, <3>6
      <3>8. Total(new) = Sums(sum)[n - 1] /\ Total(h) = Sums(h.bins)[n - 1] /\ Total(other) = Sums(other.bins)[n - 1]
        BY <2>5, <3>3 DEF Total, n
      <3>9. Total(new) = count
        BY <2>3, <3>4, <3>7, <3>8
      <3>10. new \in HistogramSet
        BY <3>1, <3>2, <3>3, HistogramMade DEF n
      <3> QED BY <2>2, <2>3, <3>9, <3>10, HistogramReplaced
    <2> QED BY <2>4, <2>5
  <1>4. ASSUME NEW k \in 1..2, reset(k) PROVE HistogramInv'
    <2> DEFINE h == histograms[k]
    <2>1. h \in HistogramSet
      BY <1>0
    <2>2. h.scale \in Scales /\ h = [scale |-> h.scale, bins |-> h.bins] /\ h.bins \in [0..(h.scale.samples - 1) -> Nat]
      BY <2>1, HistogramIs
    <2>3. histograms' = [histograms EXCEPT ![k] = [h EXCEPT !.bins = [i \in DOMAIN h.bins |-> 0]]]
      BY <1>4 DEF reset
    <2>4. added' = [added EXCEPT ![k] = 0]
      BY <1>4 DEF reset
    <2> HIDE DEF h
    <2>5. [h EXCEPT !.bins = [i \in DOMAIN h.bins |-> 0]] = Empty(h.scale)
      <3> DEFINE e == [i \in DOMAIN h.bins |-> 0]
      <3>1. e = [i \in 0..(h.scale.samples - 1) |-> 0]
        BY <2>2
      <3> HIDE DEF e
      <3>2. [h EXCEPT !.bins = e] = [scale |-> h.scale, bins |-> e]
        BY <2>2
      <3> QED BY <3>1, <3>2 DEF Empty, e
    <2>6. histograms' = [histograms EXCEPT ![k] = Empty(h.scale)]
      BY <2>3, <2>5
    <2> QED BY <2>2, <2>4, <2>6, EmptyFacts, HistogramReplaced
  <1>5. CASE UNCHANGED histogramVars
    BY <1>5 DEF histogramVars, HistogramInv, Total, Sums
  <1> QED BY <1>1, <1>2, <1>3, <1>4, <1>5 DEF HistogramNext

\* The sample of a value's bin is the nearest one: at most half a step away.
LEMMA NearestBin ==
  ASSUME NEW s \in Scales, s.samples > 1, NEW v \in Int, s.near <= v, v <= s.far,
         NEW i \in Indices(s, v), NEW j \in 0..(s.samples - 1)
  PROVE  Distance(v, At(s, i)) <= Distance(v, At(s, j))
  <1>1. s.samples \in Nat /\ s.near \in Int /\ s.far \in Int /\ s.samples <= Convertible /\ Convertible \in Nat
    BY ScalesAssumption, SamplesAssumption
  <1>2. PICK N \in Nat \ {0} : N = s.samples - 1
    BY <1>1
  <1>3. PICK S \in Nat \ {0}, h \in Nat : /\ S = Step(s) /\ h = Step(s) \div 2 /\ s.far - s.near = S * N
                                          /\ 2 * h <= S /\ S <= 2 * h + 1
    BY <1>2, StepFacts
  <1>4. PICK x \in Nat : x = v - s.near /\ x <= S * N
    BY <1>1, <1>3
  <1>5. PICK q \in Nat : q = Quotient(x + h, S) /\ S * q <= x + h /\ x + h < S * q + S
    <2>1. \A a \in Nat : \A b \in Nat \ {0} : Quotient(a, b) \in Nat /\ b * Quotient(a, b) <= a /\ a < b * Quotient(a, b) + b
      BY DEF Quotient
    <2>2. x + h \in Nat
      BY <1>3, <1>4
    <2>3. Quotient(x + h, S) \in Nat /\ S * Quotient(x + h, S) <= x + h /\ x + h < S * Quotient(x + h, S) + S
      BY <1>3, <2>1, <2>2
    <2> QED BY ONLY <2>3
  <1>6. q <= N
    <2>1. S * q < S * N + S
      BY <1>2, <1>3, <1>4, <1>5
    <2>2. ASSUME q >= N + 1 PROVE FALSE
      <3>1. S * q >= S * (N + 1)
        BY <1>2, <1>3, <1>5, <2>2
      <3>2. S * (N + 1) = S * N + S
        BY <1>2, <1>3
      <3> QED BY <1>2, <1>3, <1>5, <2>1, <3>1, <3>2
    <2> QED BY <1>2, <1>5, <2>2
  <1>7. i = q
    <2>1. v - (s.near - h) = x + h
      BY <1>1, <1>3, <1>4
    <2>2. Quotient(v - (s.near - Step(s) \div 2), Step(s)) = q
      BY <1>3, <1>5, <2>1
    <2>3. Indices(s, v) = IF q > Convertible THEN {0, s.samples - 1} ELSE {Clamped(q, s.samples)}
      <3> DEFINE quotient == Quotient(v - (s.near - Step(s) \div 2), Step(s))
      <3>1. s.samples # 1
        BY <1>1
      <3>2. Indices(s, v) = IF quotient > Convertible THEN {0, s.samples - 1} ELSE {Clamped(quotient, s.samples)}
        BY <3>1, Zenon DEF Indices
      <3> QED BY <2>2, <3>2, Zenon
    <2>4. ~(q > Convertible) /\ Clamped(q, s.samples) = q
      BY <1>1, <1>2, <1>5, <1>6 DEF Clamped
    <2> QED BY <2>3, <2>4
  <1>8. \A k \in Nat : At(s, k) = s.near + S * k
    BY <1>1, <1>3 DEF At
  <1>9. PICK d \in Int : d = x - S * q /\ -h <= d /\ d <= h
    <2>1. S * q \in Nat
      BY <1>3, <1>5
    <2> QED BY <1>3, <1>4, <1>5, <2>1
  <1>10. Distance(v, At(s, i)) <= h
    <2>1. v - At(s, i) = d /\ v \in Int /\ At(s, i) \in Int
      <3>1. S * q \in Nat /\ At(s, i) = s.near + S * q
        BY <1>3, <1>5, <1>7, <1>8
      <3> QED BY <1>1, <1>4, <1>9, <3>1
    <2> QED BY <1>9, <2>1 DEF Distance
  <1>11. CASE j = q
    <2>1. Distance(v, At(s, i)) \in Int
      <3>1. At(s, i) \in Int
        BY <1>1, <1>3, <1>5, <1>7, <1>8
      <3> QED BY <3>1 DEF Distance
    <2> QED BY <1>7, <1>11, <2>1
  <1>12. CASE j # q
    <2>1. PICK Sq \in Nat, Sj \in Nat : Sq = S * q /\ Sj = S * j
      <3>1. S * q \in Nat
        BY <1>3, <1>5
      <3>2. S * j \in Nat
        BY <1>3, <1>1
      <3> QED BY <3>1, <3>2
    <2>2. Sj <= Sq - S \/ Sj >= Sq + S
      <3>1. CASE j < q
        <4>1. S * j <= S * (q - 1)
          BY <1>1, <1>3, <1>5, <3>1
        <4>2. S * (q - 1) = S * q - S
          BY <1>3, <1>5
        <4> QED BY <2>1, <4>1, <4>2
      <3>2. CASE j > q
        <4>1. S * j >= S * (q + 1)
          BY <1>1, <1>3, <1>5, <3>2
        <4>2. S * (q + 1) = S * q + S
          BY <1>3, <1>5
        <4> QED BY <2>1, <4>1, <4>2
      <3>3. j \in Int /\ q \in Int
        BY <1>1, <1>5
      <3> QED BY <1>12, <3>1, <3>2, <3>3
    <2>3. v - At(s, j) = d + (Sq - Sj) /\ At(s, j) \in Int
      BY <1>1, <1>4, <1>8, <1>9, <2>1
    <2>4. Distance(v, At(s, j)) >= S - h
      BY <1>3, <1>9, <2>1, <2>2, <2>3 DEF Distance
    <2>5. Distance(v, At(s, j)) \in Int /\ Distance(v, At(s, i)) \in Int
      <3>1. At(s, i) \in Int
        BY <1>1, <1>3, <1>5, <1>7, <1>8
      <3> QED BY <2>3, <3>1 DEF Distance
    <2> QED BY <1>3, <1>10, <2>4, <2>5
  <1> QED BY <1>11, <1>12

LEMMA SamplesAreKept == HistogramInv => SamplesKept
  <1> SUFFICES ASSUME HistogramInv, NEW k \in 1..2
               PROVE  LET h == histograms[k]
                          s == h.scale
                      IN  /\ DOMAIN h.bins = 0..(s.samples - 1) /\ Total(h) = added[k]
                          /\ \A v \in Samples \cap s.near..s.far : s.samples > 1 =>
                               \A i \in Indices(s, v), j \in DOMAIN h.bins : Distance(v, At(s, i)) <= Distance(v, At(s, j))
    BY DEF SamplesKept
  <1> DEFINE h == histograms[k]
             s == h.scale
  <1>1. h \in HistogramSet /\ Total(h) = added[k]
    BY DEF HistogramInv
  <1>2. s \in Scales /\ DOMAIN h.bins = 0..(s.samples - 1)
    BY <1>1, HistogramIs
  <1>3. ASSUME NEW v \in Samples \cap s.near..s.far, s.samples > 1, NEW i \in Indices(s, v), NEW j \in DOMAIN h.bins
        PROVE  Distance(v, At(s, i)) <= Distance(v, At(s, j))
    <2>1. j \in 0..(s.samples - 1)
      BY <1>2
    <2> HIDE DEF s, h
    <2>2. s.near \in Int /\ s.far \in Int
      BY <1>2, ScalesAssumption
    <2>3. v \in Int /\ s.near <= v /\ v <= s.far
      BY <1>3, <2>2
    <2> QED BY <1>2, <1>3, <2>1, <2>3, NearestBin
  <1> QED BY <1>1, <1>2, <1>3

-----------------------------------------------------------------------------
(* Quantiles: where the reference has them.                                   *)

Bins(h) == 0..(h.scale.samples - 1)

\* A quantile in bin i, which is not empty and neither is j, the one before it.
LEMMA QuantileInside ==
  ASSUME NEW h \in HistogramSet, NEW m \in Nat, NEW i \in Bins(h), NEW j \in Bins(h), j < i,
         h.bins[i] # 0, h.bins[j] # 0, \A k \in Bins(h) : j < k /\ k < i => h.bins[k] = 0,
         m <= Sums(h.bins)[i], Sums(h.bins)[i - 1] < m
  PROVE  Quantile(h, m) = At(h.scale, j) +
            Quotient((At(h.scale, i) - At(h.scale, j)) * (m - Sums(h.bins)[i - 1]), h.bins[i])
  <1> DEFINE full == {k \in DOMAIN h.bins : h.bins[k] # 0}
             upto == Sums(h.bins)
             over == {k \in full : m <= upto[k]}
             below == {k \in full : k < i}
             n == h.scale.samples
  <1>1. n \in Nat \ {0} /\ h.bins \in [0..(n - 1) -> Nat] /\ i \in 0..(n - 1) /\ j \in 0..(n - 1)
    BY HistogramIs DEF Bins
  <1>2. full \in SUBSET Int /\ i \in full /\ j \in full /\ \A k \in full : k \in 0..(n - 1) /\ h.bins[k] # 0
    BY <1>1
  <1>3. upto \in [0..(n - 1) -> Nat]
    BY <1>1, SumsFacts
  <1> HIDE DEF full, upto
  <1>4. Min(over) = i
    <2>1. over \in SUBSET Int /\ i \in over
      BY <1>2 DEF upto
    <2>2. ASSUME NEW k \in over, k < i PROVE FALSE
      <3>1. k \in 0..(n - 1) /\ m <= upto[k] /\ i - 1 \in k..(n - 1) /\ i - 1 \in 0..(n - 1)
        BY <1>1, <1>2, <2>2
      <3>2. upto[k] <= upto[i - 1]
        BY <1>1, <3>1, SumsOrdered DEF upto
      <3>3. upto[k] \in Nat /\ upto[i - 1] \in Nat /\ upto[i - 1] < m
        BY <1>3, <3>1 DEF upto
      <3> QED BY <3>1, <3>2, <3>3
    <2>3. \A k \in over : i <= k
      BY <1>1, <2>1, <2>2
    <2> HIDE DEF over
    <2> QED BY <2>1, <2>3, MinIs
  <1>5. Max(below) = j /\ below # {}
    <2>1. below \in SUBSET Int /\ j \in below
      BY <1>2
    <2>2. ASSUME NEW k \in below PROVE k <= j
      <3>1. k \in Bins(h) /\ k < i /\ h.bins[k] # 0
        BY <1>2 DEF Bins
      <3> QED BY <1>1, <1>2, <3>1
    <2> HIDE DEF below
    <2> QED BY <2>1, <2>2, MaxIs
  <1>6. upto[j] = upto[i - 1]
    <2>1. i - 1 \in j..(n - 1)
      BY <1>1
    <2>2. ASSUME NEW k \in (j + 1)..(i - 1) PROVE h.bins[k] = 0
      <3>1. k \in Bins(h) /\ j < k /\ k < i
        BY <1>1 DEF Bins
      <3> QED BY <3>1
    <2> QED BY <1>1, <2>1, <2>2, SumsOrdered DEF upto
  <1>7. full # {} /\ over # {}
    BY <1>2 DEF upto
  <1>8. Quantile(h, m) = At(h.scale, Max(below)) +
          Quotient((At(h.scale, i) - At(h.scale, Max(below))) * (m - upto[Max(below)]), h.bins[i])
    BY <1>4, <1>5, <1>7 DEF Quantile, full, upto
  <1>9. Quantile(h, m) = At(h.scale, j) + Quotient((At(h.scale, i) - At(h.scale, j)) * (m - upto[i - 1]), h.bins[i])
    BY <1>5, <1>6, <1>8
  <1> QED BY <1>9 DEF upto

\* One at or below the first bin that is not empty.
LEMMA QuantileFirst ==
  ASSUME NEW h \in HistogramSet, NEW m \in Nat, NEW i \in Bins(h),
         h.bins[i] # 0, \A k \in Bins(h) : k < i => h.bins[k] = 0, m <= Sums(h.bins)[i]
  PROVE  Quantile(h, m) = At(h.scale, i)
  <1> DEFINE full == {k \in DOMAIN h.bins : h.bins[k] # 0}
             over == {k \in full : m <= Sums(h.bins)[k]}
             below == {k \in full : k < i}
             n == h.scale.samples
  <1>1. n \in Nat \ {0} /\ h.bins \in [0..(n - 1) -> Nat] /\ i \in 0..(n - 1)
    BY HistogramIs DEF Bins
  <1>2. full \in SUBSET Int /\ i \in full /\ \A k \in full : k \in 0..(n - 1) /\ h.bins[k] # 0
    BY <1>1
  <1> HIDE DEF full
  <1>3. \A k \in full : i <= k
    BY <1>1, <1>2 DEF Bins
  <1>4. below = {}
    <2>1. ASSUME NEW k \in full PROVE ~(k < i)
      <3>1. k \in Int /\ i \in Int /\ i <= k
        BY <1>1, <1>2, <1>3
      <3> QED BY ONLY <3>1
    <2> QED BY ONLY <2>1
  <1>5. Min(over) = i /\ over # {}
    <2>1. over \in SUBSET Int /\ i \in over /\ \A k \in over : i <= k
      BY <1>2, <1>3
    <2> HIDE DEF over
    <2> QED BY <2>1, MinIs
  <1> QED BY <1>2, <1>4, <1>5 DEF Quantile, full

\* One beyond all samples.
LEMMA QuantileLast ==
  ASSUME NEW h \in HistogramSet, NEW m \in Nat, NEW j \in Bins(h),
         h.bins[j] # 0, \A k \in Bins(h) : j < k => h.bins[k] = 0, Sums(h.bins)[h.scale.samples - 1] < m
  PROVE  Quantile(h, m) = At(h.scale, j)
  <1> DEFINE full == {k \in DOMAIN h.bins : h.bins[k] # 0}
             upto == Sums(h.bins)
             over == {k \in full : m <= upto[k]}
             n == h.scale.samples
  <1>1. n \in Nat \ {0} /\ h.bins \in [0..(n - 1) -> Nat] /\ j \in 0..(n - 1)
    BY HistogramIs DEF Bins
  <1>2. full \in SUBSET Int /\ j \in full /\ \A k \in full : k \in 0..(n - 1) /\ h.bins[k] # 0
    BY <1>1
  <1>3. upto \in [0..(n - 1) -> Nat]
    BY <1>1, SumsFacts
  <1> HIDE DEF full, upto
  <1>4. over = {}
    <2>1. ASSUME NEW k \in over PROVE FALSE
      <3>1. k \in 0..(n - 1) /\ m <= upto[k] /\ n - 1 \in k..(n - 1) /\ n - 1 \in 0..(n - 1)
        BY <1>1, <1>2
      <3>2. upto[k] <= upto[n - 1]
        BY <1>1, <3>1, SumsOrdered DEF upto
      <3>3. upto[k] \in Nat /\ upto[n - 1] \in Nat /\ upto[n - 1] < m
        BY <1>3, <3>1 DEF upto
      <3> QED BY <3>1, <3>2, <3>3
    <2> QED BY <2>1
  <1>5. Max(full) = j /\ full # {}
    <2>1. \A k \in full : k <= j
      BY <1>1, <1>2 DEF Bins
    <2> QED BY <1>2, <2>1, MaxIs
  <1> QED BY <1>4, <1>5 DEF Quantile, full, upto

\* Without samples, the end of the scale, which is its last sample.
LEMMA QuantileNone ==
  ASSUME NEW h \in HistogramSet, h.scale.samples > 1, NEW m \in Nat, \A k \in Bins(h) : h.bins[k] = 0
  PROVE  Quantile(h, m) = At(h.scale, h.scale.samples - 1)
  <1>1. /\ h.scale \in Scales /\ h.scale.samples \in Nat \ {0}
        /\ h.bins \in [0..(h.scale.samples - 1) -> Nat]
    BY HistogramIs
  <1>2. PICK near \in Int, far \in Int : near = h.scale.near /\ far = h.scale.far /\ near < far
    BY <1>1, ScalesAssumption
  <1>3. PICK N \in Nat : N = h.scale.samples - 1 /\ N > 0
    BY <1>1
  <1>4. Quantile(h, m) = far
    <2>1. {k \in DOMAIN h.bins : h.bins[k] # 0} = {}
      BY <1>1 DEF Bins
    <2> QED BY <1>2, <2>1 DEF Quantile
  <1>5. far - near = Step(h.scale) * N
    BY <1>1, <1>2, <1>3, StepFacts
  <1>6. At(h.scale, N) = near + (far - near)
    BY <1>1, <1>2, <1>3, <1>5 DEF At
  <1> QED BY <1>2, <1>3, <1>4, <1>6

-----------------------------------------------------------------------------
(* The loop of find_partitions.                                               *)

\* After the round of bin i: the last bin that is not empty, the sum, and the
\* quantiles up to this sum in their places.
RoundInv(h, mids, acc, i) ==
  /\ acc.j \in 0..i /\ h.bins[acc.j] # 0 /\ \A k \in Bins(h) : acc.j < k /\ k <= i => h.bins[k] = 0
  /\ acc.sum = Sums(h.bins)[i]
  /\ DOMAIN acc.placed = {q \in mids : q <= Sums(h.bins)[i]}
  /\ \A m \in DOMAIN acc.placed : acc.placed[m] = Quantile(h, m)

LEMMA RoundKeeps ==
  ASSUME NEW h \in HistogramSet, NEW mids \in SUBSET Nat, NEW acc, NEW i \in Bins(h), i > 0,
         RoundInv(h, mids, acc, i - 1)
  PROVE  RoundInv(h, mids, Round(h, mids, acc, i), i)
  <1> DEFINE new == Round(h, mids, acc, i)
             S == Sums(h.bins)
             d == h.bins[i]
             n == h.scale.samples
             previous == At(h.scale, acc.j)
             Location(m) == previous + Quotient((At(h.scale, i) - previous) * (m - acc.sum), d)
  <1>1. n \in Nat \ {0} /\ h.bins \in [0..(n - 1) -> Nat] /\ i \in 1..(n - 1) /\ i - 1 \in 0..(n - 1)
    BY HistogramIs DEF Bins
  <1>2. S \in [0..(n - 1) -> Nat] /\ S[i] = S[i - 1] + d /\ d \in Nat /\ S[i - 1] \in Nat /\ S[i] \in Nat
    <2>1. S \in [0..(n - 1) -> Nat] /\ \A k \in 1..(n - 1) : S[k] = S[k - 1] + h.bins[k]
      BY <1>1, SumsFacts
    <2> HIDE DEF S, n
    <2> QED BY <1>1, <2>1
  <1>3. /\ acc.j \in 0..(i - 1) /\ h.bins[acc.j] # 0 /\ \A k \in Bins(h) : acc.j < k /\ k <= i - 1 => h.bins[k] = 0
        /\ acc.sum = S[i - 1] /\ DOMAIN acc.placed = {q \in mids : q <= S[i - 1]}
        /\ \A m \in DOMAIN acc.placed : acc.placed[m] = Quantile(h, m)
    BY DEF RoundInv
  <1>4. new.j = (IF d # 0 THEN i ELSE acc.j) /\ new.sum = acc.sum + d
        /\ new.placed = Upto(acc.placed, mids, acc.sum + d, Location)
    BY DEF Round, LastFull
  <1> HIDE DEF S, new
  <1>5. new.sum = S[i]
    BY <1>2, <1>3, <1>4
  <1>6. new.j \in 0..i /\ h.bins[new.j] # 0 /\ \A k \in Bins(h) : new.j < k /\ k <= i => h.bins[k] = 0
    <2>1. CASE d # 0
      <3>1. new.j = i
        BY <1>4, <2>1
      <3>2. i \in 0..i /\ \A k \in Bins(h) : ~(i < k /\ k <= i)
        BY <1>1 DEF Bins
      <3> QED BY <2>1, <3>1, <3>2
    <2>2. CASE d = 0
      <3>1. new.j = acc.j
        BY <1>4, <2>2
      <3>2. ASSUME NEW k \in Bins(h), acc.j < k, k <= i PROVE h.bins[k] = 0
        <4>1. CASE k = i
          BY <2>2, <4>1
        <4>2. CASE k # i
          <5>1. k <= i - 1
            BY <1>1, <3>2, <4>2 DEF Bins
          <5> QED BY <1>3, <3>2, <5>1
        <4> QED BY <4>1, <4>2
      <3> QED BY <1>1, <1>3, <3>1, <3>2
    <2> QED BY <2>1, <2>2
  <1>7. new.placed = [m \in DOMAIN acc.placed \cup {q \in mids : q <= S[i]} |->
                        IF m \in DOMAIN acc.placed THEN acc.placed[m] ELSE Location(m)]
    BY <1>2, <1>3, <1>4 DEF Upto
  <1>8. DOMAIN new.placed = {q \in mids : q <= S[i]}
    <2>1. \A q \in mids : q <= S[i - 1] => q <= S[i]
      BY <1>2
    <2>2. DOMAIN new.placed = DOMAIN acc.placed \cup {q \in mids : q <= S[i]}
      BY <1>7
    <2> QED BY <1>3, <2>1, <2>2
  <1>9. ASSUME NEW m \in DOMAIN new.placed PROVE new.placed[m] = Quantile(h, m)
    <2>1. m \in mids /\ m \in Nat /\ m <= S[i]
      BY <1>8
    <2>2. CASE m \in DOMAIN acc.placed
      BY <1>3, <1>7, <2>2
    <2>3. CASE m \notin DOMAIN acc.placed
      <3>1. new.placed[m] = Location(m) /\ S[i - 1] < m
        BY <1>2, <1>3, <1>7, <1>8, <2>1, <2>3
      <3>2. d # 0
        BY <1>2, <2>1, <3>1
      <3>3. acc.j \in Bins(h) /\ acc.j < i /\ \A k \in Bins(h) : acc.j < k /\ k < i => h.bins[k] = 0
        BY <1>1, <1>3 DEF Bins
      <3>4. Quantile(h, m) = At(h.scale, acc.j) +
              Quotient((At(h.scale, i) - At(h.scale, acc.j)) * (m - S[i - 1]), h.bins[i])
        BY <1>3, <2>1, <3>1, <3>2, <3>3, QuantileInside DEF S
      <3> QED BY <1>3, <3>1, <3>4
    <2> QED BY <2>2, <2>3
  <1> QED BY <1>5, <1>6, <1>8, <1>9 DEF RoundInv, S, new

\* The rounds from bin j0 on are there.
AreRounds(g, h, mids, first, j0, last) ==
  g = [i \in j0..last |-> IF i = j0 THEN first ELSE Round(h, mids, g[i - 1], i)]

LEMMA RoundsThere ==
  ASSUME NEW h, NEW mids, NEW first, NEW j0 \in Nat, NEW last \in Nat, j0 <= last
  PROVE  \E g : AreRounds(g, h, mids, first, j0, last)
  <1> DEFINE Following(x, i) == Round(h, mids, x, i)
             Series(g, e) == g = [i \in j0..e |-> IF i = j0 THEN first ELSE Following(g[i - 1], i)]
             Bad == {e \in j0..last : ~\E g : Series(g, e)}
  <1> HIDE DEF Following
  <1>1. Bad = {}
    <2> SUFFICES ASSUME Bad # {} PROVE FALSE
      OBVIOUS
    <2>1. Bad \in SUBSET Nat
      OBVIOUS
    <2>2. PICK e \in Bad : \A m \in Bad : e <= m
      <3> HIDE DEF Bad
      <3> QED BY <2>1, Least
    <2>3. CASE e = j0
      <3> DEFINE g == [i \in j0..j0 |-> first]
      <3>1. \A i \in j0..j0 : i = j0
        OBVIOUS
      <3>2. Series(g, j0)
        BY <3>1
      <3> QED BY <2>3, <3>2
    <2>4. CASE e # j0
      <3>1. e \in (j0 + 1)..last /\ e - 1 \in j0..last /\ e - 1 \notin Bad
        <4>1. e \in j0..last
          BY <2>2
        <4>2. e \in (j0 + 1)..last /\ e - 1 \in j0..last /\ ~(e <= e - 1)
          BY <2>4, <4>1
        <4> QED BY <2>2, <4>2
      <3>2. PICK g : Series(g, e - 1)
        BY <3>1
      <3> DEFINE new == [i \in j0..e |-> IF i = e THEN Following(g[e - 1], e) ELSE g[i]]
      <3>3. ASSUME NEW i \in j0..e PROVE new[i] = IF i = j0 THEN first ELSE Following(new[i - 1], i)
        <4>1. CASE i = e
          <5>1. e - 1 \in j0..e /\ e - 1 # e /\ e # j0
            BY <3>1
          <5> QED BY <4>1, <5>1
        <4>2. CASE i # e
          <5>1. i \in j0..(e - 1) /\ (i # j0 => i - 1 \in j0..(e - 1) /\ i - 1 \in j0..e /\ i - 1 # e)
            BY <3>1, <4>2
          <5>2. g[i] = IF i = j0 THEN first ELSE Following(g[i - 1], i)
            BY <3>2, <5>1
          <5> QED BY <4>2, <5>1, <5>2
        <4> QED BY <4>1, <4>2
      <3>4. Series(new, e)
        BY <3>3
      <3> QED BY <3>4
    <2> QED BY <2>3, <2>4
  <1>2. \E g : Series(g, last)
    <2>1. last \in j0..last
      OBVIOUS
    <2>2. ~(last \in Bad)
      <3> HIDE DEF Bad
      <3> QED BY <1>1
    <2> QED BY <2>1, <2>2
  <1> QED BY <1>2 DEF Following, AreRounds

LEMMA PlacedRight ==
  ASSUME NEW h \in HistogramSet, h.scale.samples > 1, NEW mids \in SUBSET Nat, \A q \in mids : q <= MaxTotal,
         NEW m \in mids
  PROVE  Placed(h, mids)[m] = Quantile(h, m)
  <1> DEFINE n == h.scale.samples
             S == Sums(h.bins)
             starts == {k \in 0..(n - 2) : h.bins[k] # 0}
             j0 == IF starts = {} THEN n - 1 ELSE Min(starts)
             sum0 == IF starts = {} THEN 0 ELSE h.bins[j0]
             first == [j |-> j0, sum |-> sum0, placed |-> Upto(<< >>, mids, sum0, LAMBDA q : At(h.scale, j0))]
             after[i \in j0..(n - 1)] == IF i = j0 THEN first ELSE Round(h, mids, after[i - 1], i)
             end == after[n - 1]
  <1>1. n \in Nat \ {0} /\ h.bins \in [0..(n - 1) -> Nat] /\ n > 1 /\ n - 1 \in 0..(n - 1) /\ n - 1 \in Nat
    BY HistogramIs
  <1>2. S \in [0..(n - 1) -> Nat]
    BY <1>1, SumsFacts
  <1>3. Placed(h, mids) = Upto(end.placed, mids, MaxTotal, LAMBDA q : At(h.scale, end.j))
    BY DEF Placed
  <1>4. first.j = j0 /\ first.sum = sum0 /\ first.placed = [q \in {r \in mids : r <= sum0} |-> At(h.scale, j0)]
    <2>1. DOMAIN << >> = {}
      OBVIOUS
    <2> QED BY <2>1 DEF Upto
  <1>7. ASSUME j0 \in Nat, j0 <= n - 1
        PROVE  after[j0] = first /\ \A i \in (j0 + 1)..(n - 1) : after[i] = Round(h, mids, after[i - 1], i)
    <2> HIDE DEF first, j0, n
    <2>1. \E g : AreRounds(g, h, mids, first, j0, n - 1)
      BY <1>7, <1>1, RoundsThere
    <2>2. after = [i \in j0..(n - 1) |-> IF i = j0 THEN first ELSE Round(h, mids, after[i - 1], i)]
      BY <2>1 DEF AreRounds
    <2> HIDE DEF after
    <2>3. j0 \in j0..(n - 1) /\ \A i \in (j0 + 1)..(n - 1) : i \in j0..(n - 1) /\ i # j0
      BY <1>7, <1>1
    <2> QED BY <2>2, <2>3
  <1>5. CASE starts = {}
    <2>1. j0 = n - 1 /\ sum0 = 0
      BY <1>5
    <2>2. end = first
      <3>1. after[j0] = first
        <4> HIDE DEF first, j0, n
        <4>1. j0 \in Nat /\ j0 <= n - 1 /\ n - 1 \in Nat
          BY <1>1, <2>1
        <4> QED BY <4>1, <1>7
      <3> QED BY <2>1, <3>1
    <2> HIDE DEF after, first, starts, j0, sum0
    <2>3. Placed(h, mids)[m] = At(h.scale, n - 1)
      <3>1. m <= MaxTotal /\ m \in mids
        OBVIOUS
      <3> QED BY <1>3, <1>4, <2>1, <2>2, <3>1 DEF Upto
    <2>4. \A k \in Bins(h) : k < n - 1 => h.bins[k] = 0
      BY <1>1, <1>5 DEF Bins, starts
    <2>5. m \in Nat
      OBVIOUS
    <2>6. CASE h.bins[n - 1] = 0
      <3>1. \A k \in Bins(h) : h.bins[k] = 0
        BY <1>1, <2>4, <2>6 DEF Bins
      <3> QED BY <2>3, <2>5, <3>1, QuantileNone
    <2>7. CASE h.bins[n - 1] # 0
      <3>1. n - 1 \in Bins(h) /\ \A k \in Bins(h) : ~(n - 1 < k)
        BY <1>1 DEF Bins
      <3>2. CASE m <= S[n - 1]
        BY <2>3, <2>4, <2>5, <2>7, <3>1, <3>2, QuantileFirst
      <3>3. CASE ~(m <= S[n - 1])
        <4>1. S[n - 1] < m
          BY <1>1, <1>2, <2>5, <3>3
        <4> QED BY <2>3, <2>5, <2>7, <3>1, <4>1, QuantileLast
      <3> QED BY <3>2, <3>3
    <2> QED BY <2>6, <2>7
  <1>6. CASE starts # {}
    <2>1. j0 \in starts /\ \A k \in starts : j0 <= k
      <3>1. starts \in SUBSET Nat
        BY <1>1
      <3>2. j0 = Min(starts)
        BY <1>6
      <3> HIDE DEF starts, j0
      <3>3. PICK least \in starts : \A y \in starts : least <= y
        BY <1>6, <3>1, Least
      <3>4. starts \in SUBSET Int
        BY <3>1
      <3>5. Min(starts) = least
        BY <3>3, <3>4, MinIs
      <3> QED BY <3>2, <3>3, <3>5
    <2>2. /\ j0 \in Bins(h) /\ j0 \in 0..(n - 1) /\ j0 \in Nat /\ j0 <= n - 1 /\ h.bins[j0] # 0 /\ sum0 = h.bins[j0]
          /\ \A k \in Bins(h) : k < j0 => h.bins[k] = 0
      <3>1. j0 \in 0..(n - 2) /\ h.bins[j0] # 0
        BY <2>1
      <3>2. sum0 = h.bins[j0]
        BY <1>6
      <3> HIDE DEF j0, sum0
      <3> QED BY <1>1, <2>1, <3>1, <3>2 DEF Bins
    <2> HIDE DEF j0, starts, sum0, S
    <2>3. S[j0] = sum0
      <3>1. CASE j0 = 0
        BY <1>1, <2>2, <3>1, SumsFacts DEF S
      <3>2. CASE j0 # 0
        <4>1. j0 \in 1..(n - 1) /\ j0 - 1 \in 0..(n - 1) /\ \A k \in 0..(j0 - 1) : h.bins[k] = 0
          BY <1>1, <2>2, <3>2 DEF Bins
        <4>2. S[j0 - 1] = 0
          BY <1>1, <4>1, SumsEmpty DEF S
        <4>3. \A k \in 1..(n - 1) : S[k] = S[k - 1] + h.bins[k]
          BY <1>1, SumsFacts DEF S
        <4>4. h.bins[j0] \in Nat
          BY <1>1, <2>2
        <4> QED BY <2>2, <4>1, <4>2, <4>3, <4>4
      <3> QED BY <3>1, <3>2
    <2>4. RoundInv(h, mids, first, j0)
      <3>1. DOMAIN first.placed = {q \in mids : q <= S[j0]} /\ \A q \in DOMAIN first.placed : first.placed[q] = At(h.scale, j0)
        BY <1>4, <2>3
      <3>2. \A q \in DOMAIN first.placed : q \in Nat /\ q <= S[j0]
        BY <3>1
      <3>3. \A q \in DOMAIN first.placed : Quantile(h, q) = At(h.scale, j0)
        BY <2>2, <3>2, QuantileFirst DEF S
      <3>4. j0 \in 0..j0 /\ \A k \in Bins(h) : ~(j0 < k /\ k <= j0)
        BY <1>1, <2>2 DEF Bins
      <3> HIDE DEF first
      <3> QED BY <1>4, <2>2, <2>3, <3>1, <3>3, <3>4 DEF RoundInv, S
    <2>5. after[j0] = first /\ \A i \in (j0 + 1)..(n - 1) : after[i] = Round(h, mids, after[i - 1], i)
      <3> HIDE DEF first, after
      <3> QED BY <2>2, <1>7
    <2> HIDE DEF after, first
    <2> DEFINE Wrong == {i \in j0..(n - 1) : ~RoundInv(h, mids, after[i], i)}
    <2>6. ASSUME Wrong # {} PROVE FALSE
      <3>1. PICK i \in Wrong : \A k \in Wrong : i <= k
        <4>1. Wrong \in SUBSET Nat
          BY <2>2
        <4> HIDE DEF Wrong
        <4> QED BY <2>6, <4>1, Least
      <3>2. i \in j0..(n - 1) /\ ~RoundInv(h, mids, after[i], i)
        BY <3>1
      <3>3. i # j0
        BY <2>4, <2>5, <3>2
      <3>4. i \in (j0 + 1)..(n - 1) /\ i - 1 \in j0..(n - 1) /\ i \in Bins(h) /\ i > 0 /\ ~(i <= i - 1)
        BY <1>1, <2>2, <3>2, <3>3 DEF Bins
      <3>5. RoundInv(h, mids, after[i - 1], i - 1)
        BY <3>1, <3>4
      <3>6. RoundInv(h, mids, Round(h, mids, after[i - 1], i), i)
        BY <3>4, <3>5, RoundKeeps
      <3> QED BY <2>5, <3>2, <3>4, <3>6
    <2>7. RoundInv(h, mids, end, n - 1)
      <3>1. n - 1 \in j0..(n - 1) /\ ~(n - 1 \in Wrong)
        <4>1. n - 1 \in j0..(n - 1)
          BY <1>1, <2>2
        <4> HIDE DEF Wrong
        <4> QED BY <2>6, <4>1
      <3> QED BY <3>1
    <2> HIDE DEF end, Wrong
    <2>8. /\ end.j \in Bins(h) /\ h.bins[end.j] # 0 /\ \A k \in Bins(h) : end.j < k => h.bins[k] = 0
          /\ DOMAIN end.placed = {q \in mids : q <= S[n - 1]}
          /\ \A q \in DOMAIN end.placed : end.placed[q] = Quantile(h, q)
      <3>1. \A k \in Bins(h) : k <= n - 1
        BY <1>1 DEF Bins
      <3> QED BY <2>7, <3>1 DEF RoundInv, Bins, S
    <2>9. m \in Nat /\ m \in {q \in mids : q <= MaxTotal}
      OBVIOUS
    <2>10. Placed(h, mids)[m] = IF m \in DOMAIN end.placed THEN end.placed[m] ELSE At(h.scale, end.j)
      BY <1>3, <2>9 DEF Upto
    <2>11. CASE m \in DOMAIN end.placed
      BY <2>8, <2>10, <2>11
    <2>12. CASE m \notin DOMAIN end.placed
      <3>1. S[n - 1] < m
        <4>1. ~(m <= S[n - 1]) /\ S[n - 1] \in Nat
          BY <1>1, <1>2, <2>8, <2>12
        <4> QED BY <2>9, <4>1
      <3> QED BY <2>8, <2>9, <2>10, <2>12, <3>1, QuantileLast DEF S
    <2> QED BY <2>11, <2>12
  <1> QED BY <1>5, <1>6

\* What is asked of a histogram, its samples and its quantiles, is what was added to
\* it, for all scales whose steps are powers of two that floats hold, all values
\* and ways in which histograms are scaled anew, added up and reset.
THEOREM HistogramsTrue == HistogramSpec => []HistogramExact
  <1>1. HistogramInv => QuantilesPlaced
    <2> SUFFICES ASSUME HistogramInv, NEW k \in 1..2, histograms[k].scale.samples > 1, NEW m \in 0..MaxTotal
                 PROVE  Placed(histograms[k], 0..MaxTotal)[m] = Quantile(histograms[k], m)
      BY DEF QuantilesPlaced
    <2>1. histograms[k] \in HistogramSet
      BY DEF HistogramInv
    <2>2. 0..MaxTotal \in SUBSET Nat /\ \A q \in 0..MaxTotal : q <= MaxTotal
      BY SamplesAssumption
    <2> QED BY <2>1, <2>2, PlacedRight
  <1>2. HistogramInv => HistogramExact
    BY <1>1, SamplesAreKept DEF HistogramExact
  <1> QED BY <1>2, HistogramStart, HistogramStepKept, PTL DEF HistogramSpec

==============================================================================
