---------------------------- MODULE PrivateQueue ----------------------------
(* Work that outlives the one who asked for it: the file requests of the     *)
(* frontend (frontend/async_file.h), which run on the worker's thread through *)
(* a private_worker_queue, and the polls of statistics_poll, which are        *)
(* deferred on the apartment's queue through a private_queue                  *)
(* (scheduler/private_queue.cpp). The apartment's thread makes and destroys   *)
(* requests, and may do so in the very callback that a request has called;    *)
(* a request's record goes with its queue, its last member, as the first to   *)
(* be destroyed.                                                              *)
EXTENDS Naturals, Sequences, FiniteSets

CONSTANTS
  Requests,    \* file requests there may be, reads and writes
  None,        \* no request
  MaxPolls     \* bound on polls scheduled at a time

ASSUME RequestsAssumption == None \notin Requests /\ MaxPolls \in Nat

VARIABLES
  request,     \* per request: "none", "made", "destroying", "destroyed"
  block,       \* per request: its control_block, [alive, mutex]
  tasks,       \* the worker's queue
  worker,      \* the worker's thread: [at, request]
  delivered,   \* the apartment's queue: results to be told
  ready,       \* the request whose ready callback runs
  told,        \* requests whose ready was called
  frontend,    \* "open", "closing", "closed"
  records,     \* the frontend holds its database, whose records are written to the cache
  poll         \* statistics_poll: [exists, enabled, scheduled, pending]

requestVars == <<request, block, delivered, ready, told, frontend, records>>
workerVars == <<tasks, worker>>
privateVars == <<requestVars, workerVars, poll>>

Destroying == \E r \in Requests : request[r] = "destroying"
Free == ready = None /\ ~Destroying /\ frontend # "closing"

PrivateQueueInit ==
  /\ request = [r \in Requests |-> "none"]
  /\ block = [r \in Requests |-> [alive |-> TRUE, mutex |-> "free"]]
  /\ tasks = << >> /\ worker = [at |-> "idle", request |-> None]
  /\ delivered = << >> /\ ready = None /\ told = {}
  /\ frontend = "open" /\ records = TRUE
  /\ poll = [exists |-> TRUE, enabled |-> FALSE, scheduled |-> 0, pending |-> FALSE]

-----------------------------------------------------------------------------
(* The apartment's thread: file requests.                                    *)

\* async_file_read or async_file_write, also from within another one's ready.
MakeRequest(r) ==
  /\ request[r] = "none" /\ frontend = "open" /\ ~Destroying
  /\ request' = [request EXCEPT ![r] = "made"]
  /\ tasks' = Append(tasks, r)
  /\ UNCHANGED <<block, worker, delivered, ready, told, frontend, records, poll>>

\* The last reference to a request goes, by a cancel, by another request put in
\* its place or by its own ready, or with the frontend.
ReleaseRequest(r) ==
  /\ request[r] = "made" /\ frontend # "closed" /\ ~Destroying
  /\ request' = [request EXCEPT ![r] = "destroying"]
  /\ UNCHANGED <<block, delivered, ready, told, frontend, records, workerVars, poll>>

\* Mutant: the destructor does not wait for the worker.
DestroyAtOnce(r) ==
  /\ request[r] = "destroying"
  /\ request' = [request EXCEPT ![r] = "destroyed"]
  /\ block' = [block EXCEPT ![r].alive = FALSE]
  /\ UNCHANGED <<delivered, ready, told, frontend, records, workerVars, poll>>

\* ~private_worker_queue takes the mutex that the worker holds while it runs the
\* operation; the rest of the request is freed after it.
DestroyRequest(r) ==
  /\ request[r] = "destroying" /\ block[r].mutex = "free"
  /\ request' = [request EXCEPT ![r] = "destroyed"]
  /\ block' = [block EXCEPT ![r].alive = FALSE]
  /\ UNCHANGED <<delivered, ready, told, frontend, records, workerVars, poll>>

\* Mutant: a result is told without a look at alive.
RunProgressAnyway ==
  /\ Free /\ delivered # << >>
  /\ delivered' = Tail(delivered)
  /\ ready' = Head(delivered) /\ told' = told \cup {Head(delivered)}
  /\ UNCHANGED <<request, block, frontend, records, workerVars, poll>>

\* private_worker_queue::deliver: alive is read without the mutex, by the thread
\* that alone clears it.
RunProgress ==
  /\ Free /\ delivered # << >>
  /\ delivered' = Tail(delivered)
  /\ IF block[Head(delivered)].alive
     THEN ready' = Head(delivered) /\ told' = told \cup {Head(delivered)}
     ELSE UNCHANGED <<ready, told>>
  /\ UNCHANGED <<request, block, frontend, records, workerVars, poll>>

ReadyReturns ==
  /\ ready # None /\ ~Destroying
  /\ ready' = None
  /\ UNCHANGED <<request, block, delivered, told, frontend, records, workerVars, poll>>

\* ~frontend leaves stubs in the database and destroys its members from the
\* last to the first: requests before the database.
CloseFrontend ==
  /\ Free /\ frontend = "open"
  /\ frontend' = "closing"
  /\ poll' = [poll EXCEPT !.pending = FALSE]
  /\ UNCHANGED <<request, block, delivered, ready, told, records, workerVars>>

ReleaseRecords ==
  /\ frontend = "closing"
  /\ \A r \in Requests : request[r] \notin {"made", "destroying"}
  /\ frontend' = "closed" /\ records' = FALSE
  /\ UNCHANGED <<request, block, delivered, ready, told, workerVars, poll>>

-----------------------------------------------------------------------------
(* The worker's thread: private_worker_queue::schedule's task.               *)
TakeTask ==
  /\ worker.at = "idle" /\ tasks # << >>
  /\ worker' = [at |-> "entering", request |-> Head(tasks)]
  /\ tasks' = Tail(tasks)
  /\ UNCHANGED <<requestVars, poll>>

LockBlock ==
  /\ worker.at = "entering" /\ block[worker.request].mutex = "free"
  /\ block' = [block EXCEPT ![worker.request].mutex = "worker"]
  /\ worker' = [worker EXCEPT !.at = IF block[worker.request].alive THEN "operating" ELSE "leaving"]
  /\ UNCHANGED <<request, tasks, delivered, ready, told, frontend, records, poll>>

\* The file is read or written, or an exception says that it cannot be.
Operate ==
  /\ worker.at = "operating"
  /\ worker' = [worker EXCEPT !.at = "delivering"]
  /\ UNCHANGED <<requestVars, tasks, poll>>

deliver ==
  /\ worker.at = "delivering"
  /\ delivered' = Append(delivered, worker.request)
  /\ worker' = [worker EXCEPT !.at = "leaving"]
  /\ UNCHANGED <<request, block, tasks, ready, told, frontend, records, poll>>

\* Mutant: the mutex is left locked.
KeepLocked ==
  /\ worker.at = "leaving"
  /\ worker' = [at |-> "idle", request |-> None]
  /\ UNCHANGED <<requestVars, tasks, poll>>

UnlockBlock ==
  /\ worker.at = "leaving"
  /\ block' = [block EXCEPT ![worker.request].mutex = "free"]
  /\ worker' = [at |-> "idle", request |-> None]
  /\ UNCHANGED <<request, tasks, delivered, ready, told, frontend, records, poll>>

-----------------------------------------------------------------------------
(* The apartment's thread: statistics_poll.                                  *)
Schedule(p) == [p EXCEPT !.scheduled = @ + 1]
Invalidated(p) == IF p.enabled THEN Schedule(p) ELSE p

\* The subscription is made, and the first poll scheduled, unless it is already.
enable(value) ==
  /\ Free /\ poll.exists /\ poll.scheduled < MaxPolls
  /\ poll.enabled # value
  /\ poll' = IF value THEN Schedule([poll EXCEPT !.enabled = TRUE]) ELSE [poll EXCEPT !.enabled = FALSE]
  /\ UNCHANGED <<requestVars, workerVars>>

\* request_update, unless an update is awaited or only a stub of it is left; the
\* captured task looks whether its private_queue is alive.
PollTask ==
  /\ Free /\ poll.scheduled > 0
  /\ poll' = [poll EXCEPT !.scheduled = @ - 1, !.pending = @ \/ (poll.exists /\ frontend = "open")]
  /\ UNCHANGED <<requestVars, workerVars>>

\* Mutant: the poll asks for the next update from within invalidate, when the present
\* one is still awaited.
AnswerPolledAtOnce ==
  /\ Free /\ poll.pending
  /\ poll' = [poll EXCEPT !.pending = FALSE]
  /\ UNCHANGED <<requestVars, workerVars>>

\* update_callback: reading the statistics invalidates them, which schedules the
\* next poll; the request is released after it.
UpdateAnswered ==
  /\ Free /\ poll.pending /\ poll.scheduled < MaxPolls
  /\ poll' = [Invalidated(poll) EXCEPT !.pending = FALSE]
  /\ UNCHANGED <<requestVars, workerVars>>

\* The statistics are cleared by the user, which invalidates them too.
ClearStatistics ==
  /\ Free /\ poll.scheduled < MaxPolls
  /\ poll' = Invalidated(poll)
  /\ UNCHANGED <<requestVars, workerVars>>

\* ~statistics_poll: the subscription goes first, then the private_queue.
DestroyPoll ==
  /\ Free /\ poll.exists
  /\ poll' = [poll EXCEPT !.exists = FALSE, !.enabled = FALSE]
  /\ UNCHANGED <<requestVars, workerVars>>

WorkerNext == TakeTask \/ LockBlock \/ Operate \/ deliver \/ UnlockBlock

PrivateQueueNext ==
  \/ \E r \in Requests : MakeRequest(r)
  \/ \E r \in Requests : ReleaseRequest(r)
  \/ \E r \in Requests : DestroyRequest(r)
  \/ RunProgress
  \/ ReadyReturns
  \/ CloseFrontend
  \/ ReleaseRecords
  \/ WorkerNext
  \/ \E value \in BOOLEAN : enable(value)
  \/ PollTask
  \/ UpdateAnswered
  \/ ClearStatistics
  \/ DestroyPoll

\* Both threads run: what they can do they do in the end. Nobody has to ask.
PrivateQueueFairness ==
  /\ WF_privateVars(WorkerNext)
  /\ WF_privateVars(RunProgress)
  /\ WF_privateVars(ReadyReturns)
  /\ \A r \in Requests : WF_privateVars(DestroyRequest(r))

PrivateQueueSpec == PrivateQueueInit /\ [][PrivateQueueNext]_privateVars /\ PrivateQueueFairness

-----------------------------------------------------------------------------
\* While the worker runs an operation, neither the request whose members it
\* uses nor the database whose record it writes to the cache is freed.
OperationOnLiving ==
  worker.at \in {"operating", "delivering"} =>
    request[worker.request] \in {"made", "destroying"} /\ records

\* ready is called only for a request that is still wanted.
ReadyWhileWanted ==
  [][ready' \notin {ready, None} => request[ready'] = "made"]_privateVars

\* Whoever releases a request does not wait for the worker for ever.
DestructionEnds ==
  \A r \in Requests : request[r] = "destroying" ~> request[r] = "destroyed"

\* Polling that is enabled never stops by itself: a poll is scheduled, or an
\* update is awaited whose answer will schedule the next one.
PollingGoesOn ==
  poll.enabled /\ frontend = "open" => poll.scheduled > 0 \/ poll.pending

=============================================================================
