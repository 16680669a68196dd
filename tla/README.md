# A TLA+ verification of micro-profiler

micro-profiler is a real-time profiler. Instrumented functions of the profiled
process record their calls in buffers; a thread of the collector, in the same
process, turns the records into statistics and serves them to a frontend in
another process, which shows them while the program runs.

This directory holds TLA+ models of the parts of the program where its
correctness depends on interleavings, orders and long sequences of calls, TLC
configurations that check them on small instances, and TLAPS proofs of the most
important safety properties for every value of the constants.

`PROJECT.json` is the index: every definition with the lines of code it models,
every run with its properties, every hazard with the properties that watch it.
Paths below are relative to `src/`.

## 1. Inventory

### The profiled process

| Part | State | Operations | Hard behaviour | What makes it correct |
|---|---|---|---|---|
| **Trace buffers**, `collector/buffers_queue.h` | the active buffer, a lock-free ring of ready ones, a stack of empty ones under a lock, an auto-reset event, the policy | `push`, `flush` (profiled thread); `read_collected`, `set_buffering_policy` (collector) | two threads, a ring outside the lock, an event set partly outside the lock, unsigned arithmetic that may wrap | no record lost or reordered, no array overrun, a blocked thread always resumes |
| **Collection of traces**, `collector/thread_queue_manager.h`, `calls_collector.cpp`, `thread_monitor.cpp`, `mt/src/thread_callbacks_unix.cpp` | the list of traces, the policy, a TLS slot and exit handlers per thread, the registry of threads | first call of a thread, exit of a thread, collection, change of policy | threads that start and end meanwhile, native identifiers that are reused, a lock taken twice in one operation | the calls of one thread under one identifier, all of them, those recorded last included |
| **Return stack**, `collector/src/calls_collector_thread.cpp` | return addresses taken aside, by place on the stack | `on_enter`, `on_exit` | tail calls, callee-removed arguments, frames left by `longjmp` or an exception | every function returns to its caller |
| **Analyzer**, `collector/shadow_stack.h`, `analyzer.cpp` | a shadow stack and a tree of statistics per thread | `accept_calls`, `clear` | batches cut anywhere, statistics cleared with calls open, overheads subtracted level by level | counts and times are the program's own |
| **Module tracker**, `collector/src/module_tracker.cpp` | registry of files, current mappings, numbering of instances | `get_changes`, `lock_mapping` | loads and unloads between two snapshots, requests for modules that are gone | the reports add up to what is mapped; a patched module stays |
| **Collector application**, `collector/src/collector_app.cpp`, `active_server_app.cpp` | the session, the flags of the exit, a task queue | request handlers, periodic collection, the handshake of the exit | the process exits before, while or after a frontend connects or disconnects | the exit completes, and the frontend then has everything that was published |
| **Patching**, `patcher/` | patches per module, a lock on the module while any is applied; the head of a patched function moved elsewhere | apply, revert, detach; translation of jumps | partial failure, a module unloaded meanwhile; jumps into and out of the part that is moved | what is patched is locked, what was reverted is not; every jump goes where it went |
| **Startup and exit**, `collector/src/main.cpp`, `main_win32.cpp`, `calibration.cpp` | the instance, the global pointer to it, the hook of `ExitProcess` | construction, calibration, `track`, exit | the program's threads call before, during and after construction and exit | no call reaches a part that is not there; construction ends |

### Between the processes and below them

| Part | State | Operations | Hard behaviour | What makes it correct |
|---|---|---|---|---|
| **Task queues**, `scheduler/src/task_queue.cpp`, `thread_queue.cpp`, `ui_queue_win32.cpp` | tasks with deadlines, whether notifications are inhibited | `schedule`, `wait`, `execute_ready`, `stop` | notifications left out on purpose, a clock read outside the lock, tasks that throw | every task runs, in order, never early, never overslept |
| **Private queues**, `scheduler/src/private_queue.cpp` | a control block with `alive` | `schedule`, `deliver`, destruction | tasks that outlive their owner | no task runs for an owner that is gone |
| **Sessions**, `ipc/client_session.h`, `ipc/server_session.h` | tokens, expected answers, handlers, continuations | request, message, subscription, disconnect | late answers to requests given up, deferred answers | an answer reaches its own request or nobody |
| **Marshalled sessions**, `ipc/src/marshalled_session.cpp`, `lifetime.h` | lifetimes shared by two threads | message, disconnect, destruction | destruction while the apartment runs or queues tasks | no use after destruction, no deadlock |
| **Endpoints**, `ipc/src/*_endpoint_*.cpp` | connections and their handlers, an auxiliary connection that wakes the server's thread | connect, accept, send, disconnect, stop | both ends disconnect, the apartment asks the thread to | messages in order until a disconnect; the thread serves until it is stopped |

### The frontend

| Part | State | Operations | Hard behaviour | What makes it correct |
|---|---|---|---|---|
| **Frontend**, `frontend/src/frontend.cpp`, `frontend_metadata.cpp`, `reqm/multiplexing_request.h` | the database, the update under way, one shared request per module | init, poll, request of metadata (from a cache or over the network), finalize | requests shared by users who come and go, two kinds of updates overlapping, callbacks during a loop over requests | all calls counted once; finalize ends exactly when all is there |
| **Frontend patcher**, `frontend/src/frontend_patcher.cpp` | per function: requested, active, error | apply, revert, answers | answers that come late or say "unchanged" | a patch is never requested twice at a time |
| **Frontend manager**, `frontend/src/frontend_manager.cpp` | instances, the active one | attach, set_ui, close, close_all | UI and frontend end in either order, each ending the other | no instance outlives both or dies while one is there |
| **Statistics and representations**, `sdb/`, `frontend/src/representation.cpp`, `derived_statistics.cpp`, `serialization.h` | the session's calls, tables aggregated and joined from them, the selection | a message of statistics, clear, select, change of mode | one commit sets off a cascade of commits, in an order that indices and joins depend on | a derived table always equals its definition |
| **Lists**, `frontend/table_model_impl.h`, `views/`, `frontend/src/headers_model.cpp`, `image_patch_model.cpp`, `symbol_resolver.cpp` | an order, the rows tracked, the symbols asked for | order, invalidate, track, filter, look up | caches that follow a table by notifications; metadata that comes later | the view shows the rows there are, and a tracked row stays the same row |
| **Files and polls**, `frontend/async_file.h`, `statistics_poll.h` | requests with private queues, one poll scheduled | read, write, destroy, enable | a request destroyed while its task or its callback runs | nothing runs for one that is gone; polling goes on while it is enabled |
| **User interface**, `frontend/src/untested/`, `standalone/`, `micro-profiler/` | windows, menus | | | (presentation) |
| **math** | histograms over scales | add, scale anew, add up, quantiles | rounding at the ends of a bin, a scale of one sample | no sample is lost; a quantile is where the samples are |
| **logger, common, mt, injector, explorer** | | helpers | | (see section 7) |

The parts interact like this: the profiled threads share *trace buffers* with
the collector's worker, which is a *task queue* served by its own thread. Every
10 ms it reads all traces into the *analyzer*. A *session* carries requests from
the *frontend*, which lives on the task queue of its UI thread; request handlers
read and clear the analyzer and ask the *module tracker* for what was loaded.
The destructor of the collector application queues one more task, `finalize`,
and joins the worker, which goes on until the frontend disconnects.

## 2. Modules

| Module | Models | Uses |
|---|---|---|
| `BufferingPolicy` | construction of policies, `common/types.h` | |
| `TraceChannel` | *abstract:* a bounded FIFO channel of batches | |
| `BuffersQueue` | `buffers_queue` | `BufferingPolicy`; implements `TraceChannel` |
| `CallsCollector` | `thread_queue_manager`, `thread_monitor`, exit callbacks | a trace is used for what `TraceChannel` says |
| `CallsCollectorThread` | `on_enter`, `on_exit` and a machine stack | |
| `Analyzer` | `analyzer`, `shadow_stack` and a program with true times | |
| `ModuleTracker` | `module_tracker`, and a loader (no run of its own) | |
| `Patching` | marks of `frontend_patcher`, requests and answers, `image_patch_manager`, the handlers that lock modules | `ModuleTracker` |
| `TaskQueue` | `task_queue` (no specification of its own) | |
| `ThreadQueue` | `thread_queue`: a thread that serves it | `TaskQueue` |
| `UiQueue` | `ui_queue` on Windows: a message loop that serves it | `TaskQueue` |
| `ProfilingSession` | both processes: worker, sessions, frontend, shared requests, exit | what the modules above say of their parts |
| `FrontendServer` | the socket server and its thread, marshalled sessions with `lifetime`, `frontend_manager`, `ipc_manager` | |
| `PrivateQueue` | `private_queue` and `private_worker_queue`, as `async_file.h` and `statistics_poll` use them | |
| `Statistics` | tables, indices and transforms of `sdb`, as representations use them | |
| `TableModel` | `table_model_impl`, `ordered`, trackables, headers, projections | |
| `SymbolTables` | `symbol_resolver`, `image_patch_model`, metadata that comes later | |
| `Histogram` | `histogram` over `linear_scale`, partitions | |
| `BinaryTranslation` | moving the head of a function, `binary_translation_x86.cpp` | |
| `Instance` | `collector_app_instance` from construction to exit, calibration | |
| `MCBuffersQueue`, `MCAnalyzer` | constants of the small instances | |
| `MCComponents` | constants of the seven modules before them, and their sum | these seven |
| `BuffersQueueProofs` | theorems | `BuffersQueue` |
| `ThreadQueueProofs` | theorems of both queues | `ThreadQueue`, `UiQueue` |
| `CallsCollectorProofs` | theorems | `CallsCollector` |
| `AnalyzerProofs` | theorem of the statistics | `Analyzer` |
| `PatchingProofs` | theorems of modules, patches and marks | `Patching` |
| `ComponentProofs` | theorems of components that share no state | `CallsCollectorThread` and those of `MCComponents` but `Statistics` |
| `FrontendServerProofs` | theorems | `FrontendServer` |
| `ProfilingSessionProofs` | theorems | `ProfilingSession` |

Names follow the source where TLA+ allows it: `_n_left` is `n_left`,
`read_collected` is `ReadCollected`. A variable's comment names the field it
stands for. Variables called *history* and programs, loaders, clocks and stacks
called *external* are not part of the code: they are what it is judged by.
Some definitions are plausible errors of the code; each stands before the
definition it could replace, its comment says so, and `PROJECT.json` lists them
under "mutants". With one of them in place, the property it was written for is
violated; this is how each property is known to depend on the code.

**Sums.** The seven components of `MCComponents` share no state. A behaviour is
one of a single component, which the variable `part` names, while the others
stay in an initial state. So the states checked are the sum of theirs, not the
product, and what is checked of a component is what its own specification does.

**Granularity.** One action is one critical section, or one access to shared
state outside of any, or one handler where a single thread owns the state.
`BuffersQueue` splits `flush` into the publishing of a buffer, the look at the
empties under the lock and the wait; `read_collected` into entering, taking a
buffer, giving it back, signalling, leaving the loop and the closing critical
section. `TaskQueue` splits `execute_ready` where the lock is released.
`CallsCollector` splits `construct_queue` between its two critical sections.
`FrontendServer` splits what the server's thread and the apartment do where
they take or release a session's lock, post a task or write to a socket, and
`PrivateQueue` splits a request where its control block's lock is taken. The
tables of `Statistics`, `TableModel` and `SymbolTables` belong to one thread: an
action is a message or a gesture, with the whole cascade of commits it causes.
In `ProfilingSession` a step is one task of the worker's queue, one message
handled by the frontend or one action of the UI: each side is single-threaded,
the interleaving is between the two sides and with the exiting thread.

**Data.** Records are numbers or pairs of a thread and a number; statistics in
`ProfilingSession` are the sets of calls they account for; addresses, modules,
policies and identifiers are model values. Times in `Analyzer` are integers.
`size_t` differences of `buffers_queue.h:186` are taken modulo `SizeMod`, as the
code relies on (or suffers from) their wrapping, as is the `rva` of
`SymbolTables` modulo `2^Width`; displacements of jumps in `BinaryTranslation` are
added modulo `2 * Reach` as the code adds them as `sdword`s. `Histogram` is about
scales whose step is a power of two and whose range has at most `Precision` bits:
for these the code's floats are exact, with others they round.

## 3. Runs

| Run | Shows | Bounds, and why they are enough |
|---|---|---|
| `buffers_queue` | buffers accounted for and within capacity, no missed wakeup, every flush returns, `TraceChannel` is implemented | buffers of 2 records so that full, partly filled and empty ones are flushed; 4 buffers and 9 records so that the ring and the stack of empties reach both their ends and the writer blocks; one change of policy at any step, as the program makes, over the three shapes rounding gives it |
| `calls_collector` | calls attributed to their thread and published when it is complete, all calls collected, threads end | 2 native threads, 2 lives, so that an identifier is reused or two threads live at a time; ring of 1 batch of 2, so that a thread blocks in push and in its exit |
| `return_stack` | functions return to their callers, every running function has an entry, the trace shows the stack | 5 calls on 5 places: nesting, tail calls and skipped frames combine; frames are left only for a function that then returns |
| `analyzer` | times, counts and the tree are true | one thread nesting 3 deep, so that the overhead of grandchildren matters, and one that interrupts it; two functions, so recursion, direct and mutual, is included; four different delays, so that no two of them can be mistaken for each other |
| `patching` | reports add up, marks of the frontend tell the truth, a module stays exactly as long as it is patched | 2 modules, 2 addresses, 3 loads: unload and reload at the same and at another address, one module at the place another had; 2 functions, one of them not patchable, so that part of a request fails; 3 requests under way together and two frontends one after another, the second of which finds patches active |
| `thread_queue` | never oversleeps, order, every task runs, the destructor returns | 3 tasks, deferrals 0 and 2, 3 ticks: tasks that are overtaken, overtake, and schedule others while the thread looks, sleeps, times out or runs |
| `ui_queue` | the queue is served, every task runs | as above with two scheduling threads and tasks that throw; deferrals 0 and 1, 2 ticks: immediate and timed wakeups, a timer replaced, a timer that expires while others are posted |
| `profiling_session` | calls conserved, finalization complete and what it waits for under way, the destructor returns, symbols arrive | 2 modules, 2 calls, at most one of them in the active buffer of the exiting thread and one in those of others, published before, during or after the exit or never; one poll besides the first, one interest of the UI: shared and cancelled requests, cached or not, a poll overlapping finalize, the user closing the window at any step, no frontend at all |
| `frontend_server` | messages conserved, nothing freed is used, instances agree with windows and frontends | 2 clients and a file, so that one session ends while another begins; a message each, as a session's order is a queue's; 2 clicks: a window closed or activated and then all closed, or a restart of the server |
| `components` | the properties below | below; 90 000 states between them. Deadlock is not checked: each of these may stop |

`components` asks of each of its seven parts:

| Part | Properties | Bounds, and why they are enough |
|---|---|---|
| `Statistics` | `StatisticsExact`: every derived table is what its definition gives for the calls received | 3 messages, two roots, a nested call and a recursion, in any order and number up to 2, one clear between; all modes and selections |
| `TableModel` | `ShownAsTree`: callers before and around what they call, siblings in order; `TrackedRowsFollow` | 4 rows, three generations; a column without order, one of names, one of numbers where rows tie; a row tracked while one more is added or changed |
| `PrivateQueue` | `OperationOnLiving`, `PollingGoesOn`, `ReadyWhileWanted`, `DestructionEnds` | 2 requests, so that one runs while another is queued, delivered or destroyed from the other's callback; 2 polls, so that a second could be scheduled beside the first |
| `SymbolTables` | `SymbolsResolved`, `FunctionsListed` | 2 modules with gaps before, between and after their symbols, one with two symbols of one address, as an ELF image with two symbol tables gives; all addresses at the ends of a symbol and one that wraps |
| `Histogram` | `HistogramExact`: what was added is there, a sample of the scale's range in the nearest bin, and quantiles are where a reference puts them | scales of 4, 3 and 1 samples, with steps of 8 and 4; samples below, inside and above them, and one so far above that its quotient does not fit an int (`Convertible` is 8 here) |
| `BinaryTranslation` | `JumpsKept`, `RefusedUntouched` | all functions of 2 and 3 instructions of every kind, jumping before, into, inside and behind the moved head; `Reach` is 64, so that of two destinations, one on either side, the first is within the reach of every jump and from the second some jumps cannot go back |
| `Instance` | `CollectorLivesOn`, `CalibrationEnds` | 3 threads: one loads, one exits at any moment, also while the first still constructs, one only calls; 2 rounds of calibration |

Two runs show a disagreement between the code and what its tests say of it; each
is a finding in `PROJECT.json`:

| Run | What happens |
|---|---|
| `module_tracker_unload` | metadata is asked for a module whose unload was noticed: an empty mapping is dereferenced |
| `frontend_server_thread` | a client leaves as its window is closed: the server's thread is asked to disconnect an id it no longer knows, takes it for its own stop and ends; nobody is served until remote connections are toggled |

Some behaviours are visible in the models although no run states them:

* A policy that makes buffers while a thread is blocked in `flush` wakes nobody:
  `set_buffering_policy` has no signal, and later reads find the stack of empties
  not empty. The program only makes one change, after allocating everything,
  which is safe (`NoWakeupMissed`). With `InitialPolicy <- Growing` and
  `Policies <- Mixed` of `MCBuffersQueue`, TLC shows `NoMissedWakeup` violated, and
  `FlushReturns` when it is checked alone.
* A policy set between the two critical sections of `construct_queue` never
  reaches the new trace. It keeps its first policy, on which nothing depends.
* Code that frames were left for, calling again at the same place of the stack,
  is taken for a tail call and returns to the wrong address. With
  `CallsAfterSkip = TRUE`, TLC shows `ReturnsToCaller` violated.
* `SetTimer` in `ui_queue_win32.cpp:49` replaces the timer, so of two threads that
  schedule at the same time the one with the farther deadline may postpone the
  closer task (it still runs: `EveryUiTaskRuns`).
* A module that is unloaded and loaded at another address between two snapshots
  keeps its old instance and address (`module_tracker.cpp:76`), which is also
  where its patches then go.
* `~collector_app` flushes the trace of the thread that exits and of no other
  (`collector_app.cpp:48`). What other threads have in their active buffers when
  the worker reads for the last time never reaches the frontend; `FinalizationSound`
  is about the calls that were published.
* The hook of `ExitProcess` is set after the application was started
  (`main.cpp:140`, `main_win32.cpp:64`). An exit that another thread begins between
  the two ends the process under its worker; `CollectorLivesOn` is about later ones.
* An exported ELF function is in both symbol tables that `sym-elf.cpp:131-134` reads,
  and `collector_app.cpp:83-84` keeps what it is given, so the list of functions
  has two rows for it, which `FunctionsListed` requires: one for each symbol.
* A head moved farther than a 32-bit displacement reaches gets jumps that go
  elsewhere, and nothing refuses the move (`binary_translation_x86.cpp:127`, `:163`).
  `JumpsKept` is about the destinations that can be reached. Only tests call
  `move_function` so far.
* The index of a value far above its scale is an `int` converted from a float that
  does not fit one (`math/scale.h:132`): such a value may come to the first bin.

## 4. Fairness

Fairness is assumed only of what the code or the system keeps running, never of
anybody's wish to call, poll, schedule or exit.

* `BuffersQueue`: the collector reads again and again (`collect_and_reschedule`
  schedules itself every 10 ms), a thread inside `flush` goes on, and a set event
  wakes its waiter.
* `CallsCollector`: weak fairness of the reader and of an ending thread; strong
  fairness of a thread that waits for the manager's lock, which the reader takes
  and releases over and over: the system's locks do not starve a waiter for ever.
* `ThreadQueue`, `UiQueue`: the thread or message loop runs, time passes, and a
  thread that has scheduled goes on to post its wakeup.
* `ProfilingSession`: both task queues serve their tasks (which is what
  `EveryTaskRuns` and `EveryUiTaskRuns` say of them), files are read, a connection
  that was closed is noticed. This is one weak fairness of all of it together: while
  there is something of it to do, something of it is done. It says less than a
  fairness of each part would. A frontend that hangs is outside this assumption: the code has no
  timeout for it, see the hazards.
* `FrontendServer`: the server's thread, the apartment and a destruction under way
  go on. Its run that passes has safety properties only.
* `PrivateQueue`: the worker runs its tasks, the apartment delivers results and
  leaves callbacks, and a destructor that was entered goes on once it may.
* `Instance`: the thread that constructs the collector goes on. The threads of
  the program need not, and may record as much as they like.

## 5. Proofs

Assumptions on constants are named `ASSUME`s of the component modules. Most of
them are bounds or types, say that a set is finite (the modules of a process,
the functions of a request) or keep a name for "nothing" apart from the values
it stands beside (`NoneAssumption`, `RequestsAssumption`,
`FrontendServerAssumption`). `SymbolsAssumption` is a type only: a module's symbols
may overlap or share an address. Four say more:

* `PolicyAssumption` (`BuffersQueue`): later policies ask for no more buffers than
  the first one, whose number sizes both arrays. The code does not check it and its
  callers satisfy it.
* `ScalesAssumption` (`Histogram`): a scale has a sample and does not end where it
  begins (the constructor of `linear_scale` throws or leaves it empty otherwise);
  and its step is a power of two, with a range that a float holds. The last part is
  a restriction of what is claimed, not a fact about the callers.
* `ParentAssumption` (`TableModel`): rows are those of a tree, as identifiers of
  calls are given to a caller before what it calls.
* `DestinationsAssumption` (`BinaryTranslation`): the place a head is moved to does not
  overlap the function. It may be as far away as it likes. The callers, which
  are tests, keep to this.

Four theorems have a hypothesis on the program that is profiled, each explained
below: `CollectorOutlives`, `ReturnsSound`, `TraceTrue` and `NamesAreRight`. Two
properties are about part of the cases only and say so: `JumpsKept` about jumps
whose new displacement fits, `SymbolsResolved` about addresses less than `2^Width`
away from their module's base.

**Induction over data.** What a recursion computes is proved where it is written
as a recursive function over numbers: the statement is taken to fail somewhere, the
lemma `Least` gives the first place where it does, and the step before it shows
that it does not. The replay of a trace, the shadow stack after each record, sums
over bins and lengths, paths in a tree and the rounds of a loop are all done so.

**`BuffersQueueProofs`**, for every buffer size, first policy, set of later ones
and number of records:

* `MadePolicyIsPolicy`: rounding in `buffering_policy` always leaves at least one
  empty buffer allowed and fewer required than there are buffers.
* `TypeCorrect`, `Conservation`, `Capacities`, `Contiguity`, and `Accounting`, which
  states the run's `BuffersAccounted` from the second and third, rest on one inductive
  invariant, `IInv == TypeOK /\ BuffersConserved /\ WithinCapacity /\
  ActiveHasRoom /\ TraceContiguous`. No conjunct is inductive without the others:
  capacity needs the count of buffers, the count needs the types of the reader's
  locals, and that an accepted record fits needs `ActiveHasRoom`. The arithmetic
  of `adjust_empty_buffers` is one lemma, `AdjustFacts`, which holds whatever the
  wrapping of its argument gave.
* `Implementation`: every step of writer, reader and policy setter is a step of
  `TraceChannel` or leaves it unchanged, with the ring's sizes as the channel's
  batches (`SizesFacts`, `ChannelStep`).
* `NoWakeupMissed`: for the use the program makes (no change of policy, or one
  change with all buffers allocated ahead) a waiting writer with empties at hand
  has its signal set or about to be set. `WInv` adds that until the change such a
  queue neither makes nor frees a buffer, so that the change can only free some.
  Without the restriction the statement is false, as section 3 says.

**`ThreadQueueProofs`**, for every set of deferrals and number of tasks:

* `TypeCorrect`.
* `NeverOversleeps`: besides types it needs `GuardScope`, that notifications are
  inhibited only while the serving thread is inside `execute_ready`, so it cannot
  sleep then; a notification left out because of a closer task is covered by the
  sleep that this task bounded.
* `OrderKept`, with `IInv == TypeOK /\ OrderInv /\ RunsInOrder`. `OrderInv`
  says of every task that was run, or was popped and is about to be, that no task
  still queued should have gone before it, and that it was due.

* `MessagesServe` (`UiQueue`). The wakeups a window is served by are posted after the
  lock was released, so "a task waits and nothing is coming" is excluded by three
  facts together: types, `UiScope` (notifications are inhibited only while the window
  procedure is inside `execute_ready`), and `WakeupComes`: while tasks wait, a message,
  the timer or a thread about to post is there, or the loop has yet to look at the
  queue under the lock, or it has looked and is going to ask for a wakeup. A task
  that throws leaves through `scope_guard`, and all this has to hold on that way too.

**`CallsCollectorProofs`**, for every number of lives, set of native identifiers,
ring and batch size: `CallsTrue`. Its invariant, `StateTyped /\ TracePerThread /\
HandlersInOrder /\ Apart /\ TracesInOrder /\ CompleteIsPublished`, follows a call
from the batch being written over the ready ones to what was accepted:
`TracesInOrder` says that these, the last first, are the calls of one life from the
first on. Identifiers are used again, so it has to be known that
a trace belongs to the thread it was registered with and that no two living threads
share one (`TracePerThread`, `Apart`). That a complete thread has published
everything rests on the order of its exit handlers, which is the reverse of their
registration (`HandlersInOrder`): the flush comes first.

**`AnalyzerProofs`**, for every set of threads and functions, all delays and any
number of records: `TimesTrue`. Records wait in batches, so the analyzer's stack is
that of an earlier moment than the program's. `ThreadInv` joins the two: there is a
sequence of shadow stacks, one after each pending record, that begins with the
analyzer's and ends with one that matches the calls now running (`Matches`), each
following from the one before by its record (`Reads`). Of an exit record it is
known that the times it closes are the program's true times with the profiler's
delays removed level by level (`Right`), so that wherever a batch is cut, and
whenever the statistics are cleared with calls open, the tree collected stays the
true one (`TreeTrue`).

**`PatchingProofs`**, for every finite set of modules and functions and any number
of loads, requests and frontends, in three layers, each resting on the one before:

* `ReportsTrue`, with `TrackerInv == TrackerTypeOK /\ IdsFresh /\ ReportsAddUp`: the
  number of an instance is given once. That several new mappings of one snapshot
  get numbers apart is the lemma `NumberingProperties`.
* `ModulesHeld`, with `LockInv`: `patches_applied` is the number of active patches
  (`PatchesCounted`), so that it becomes 0 exactly with the last of them; a module
  with active patches stays mapped (`PatchedStaysLoaded`).
* `MarksTrue`, with `MarksInv`: of every function it is known that at most one request
  or answer about it is under way, which is why `requested` is enough to keep
  late answers from being taken for newer ones, and what this message will do to
  its mark. After a second frontend attached, its marks may say less than is
  patched, never more; the property says so.

**`ComponentProofs`**, for every value of the constants of seven components:

* `OperationSafe` (`PrivateQueue`): a destructor waits for the lock of the control
  block that the worker holds while it runs an operation (`HeldWhileRun`); the records
  go last when the frontend closes (`RecordsLast`). `PollingKept` and the action
  property `ReadyWanted` follow from the same `PrivateInv`.
* `TrackSafe` (`Instance`): members are constructed and destroyed in their order
  (`MembersInOrder`), and the pointer is set only between; the thread that exits
  calls instrumented functions in static destructors, until the collector's own
  begin. `CollectorOutlives` adds that the worker has ended when the process does,
  unless an exit began before the constructor's end (`early`). It is under the
  hypothesis `OneExits`: the hook of `ExitProcess` puts the original code back
  before it waits for the worker (`HookedUntilExit`), so that a second thread that
  exits would pass; the code does not provide for this, see section 7.
* `ReturnsSound` (`CallsCollectorThread`): besides `ReturnStackSound` it needs that
  entries are ordered by their place on the stack, down from the sentinel
  (`StackOrdered`), which is what makes the loop of `on_exit` stop at the right one,
  and that entries without a frame are there only after frames were left
  (`Balanced`). The hypothesis `NoCallsAfterSkip` excludes what section 3 shows to go
  wrong: frames left by a jump, followed by a call at the same place before any
  return. `TraceTrue` adds `TraceRead`: what a replay of the records gives is the
  functions on the stack, and above them those whose frames were left.
* `ListIsComplete` and `NamesAreRight` (`SymbolTables`) rest on `SymbolInv`: a mapped
  module whose symbols are not there is waited for, by the list and by the resolver
  each for itself (`WaitingForMissing`, `LookedUpAwaited`). The list has one row for
  each symbol, so two for one that is in two tables. `NamesAreRight` needs
  `SymbolsApart`: symbols of one address have one size, and no other begins inside
  them. Of symbols inside one another, the search finds the one that begins last,
  which may end too early; of those at one address, the cache keeps the last.
* `RefusalUndone` and `JumpsGoOn` (`BinaryTranslation`): `TranslationInv` says what body,
  copy and the entries to restore are for a function that was found so, at each
  stage. A refusal in the middle of the references needs that entries
  put back last first give the instructions found. For a jump the cases are where
  it stands and where it goes: head or rest, inside or not. Displacements are sums
  of `sdword`s, which lose what is beyond their width; such a sum is the true
  one exactly when that fits (`DwordKeeps`, `JumpArithmetic`), and this is all that
  is claimed of a destination out of reach.
* `FocusFollows` and `TreeIsShown` (`TableModel`): the sort is known to give some
  order that agrees with its predicate (`InTheOrder`), so the predicate has to be
  one that makes a tree. Paths are those of the rows above, by induction down the
  tree (`DownTheTree`); two rows are compared where their paths part
  (`LessWhereParted`), a caller is before what it calls (`CallerFirst`), so no row
  comes between that is not the caller's (`OrderIsTree`). `TableInv` and `ShownInv`
  carry this through changes, which leave what is shown outdated until it is fetched.
* `HistogramsTrue` (`Histogram`): sums over bins change with one bin by as much as it
  does (`SumsAdded`), and a sample's bin is the nearest one, which rests on the step
  being an integer whose half is rounded alike on both sides (`StepFacts`,
  `NearestBin`). `find_partitions` is followed round by round: after each, the
  quantiles up to the sum so far are placed where the reference puts them, and `j` is
  the last bin that is not empty (`RoundKeeps`, `PlacedRight`).

**`FrontendServerProofs`**, for every set of clients and files and any number of
messages and clicks: `FreedUnused`, `MessagesTrue`, `InstancesTrue`. They rest on one
inductive invariant, `IInv == ServerInv /\ TaskInv /\ ListInv /\ MessagesConserved`:

* `ServerInv` is about what the two threads share. A connection waits to be
  accepted, has one handler or is being destroyed (`OnePlace`); what `select` found
  ready is still listed (`ReadyListed`); a session ends first, then its outbound
  wrapper, then its socket (`Lifetimes`); `Phase`, `Course` and `Inside` say where
  either thread may be while the other is somewhere, in particular that the
  apartment calls out only with the lock of the wrapper that a destruction must
  take.
* `TaskInv` is about the apartment's tasks: for a connection without a session
  nothing was queued or done (`FreshBefore`), and of those with one the frontend's
  creation is the first task and runs once, its destruction the last (`MadeFirst`).
* `ListInv` relates the list of instances, the windows, the frontends and the active
  instance, also in the middle of a closing.
* Conservation of messages counts tasks in a queue; appending or taking one changes
  the count by one or not at all (`CountAppended`, `CountTaken`, by bijections
  between sets of positions).

**`ProfilingSessionProofs`**, for every finite set of modules and any number of calls,
polls and requests of the UI: `CallsKept` and `FinalizationTrue`. One inductive
invariant, `IInv`, carries both, because what `finalize` may rely on is where calls
are and in which order messages come:

* `ExitInOrder`: the exit is told once. There is one finalize task, which leaves at
  most one `exiting` message, and only that message leads to the update of
  `finalize`; from then on no call that is due is still in a buffer. Due are the
  calls that the exiting thread had made and those that others had published when the
  exit began; what is in the active buffers of others is not (`CallsTyped`), and
  does not become so when it is published later.
* `UpdatesInOrder`: an update has one task and after it one answer, never both,
  and its token is the UI's or that of `finalize`; modules are told of right before
  the statistics of the same update.
* `HeldApart`, `SentApart`, `Kept`: a call is in one place, and is lost only to a
  frontend that is gone. The handler of `request_update` clears the analyzer also
  when nobody is there to receive, which is why `Kept` says no more.
* `Mapped`: the modules of calls under way or merged are mapped, or told of by an
  earlier message, so that `finalize` overlooks no module.
* `FinalLast`: once the answer to `finalize` is among the messages, whatever was due
  is in it, before it or in the frontend already.
* A module whose metadata are there already calls back while `finalize` still counts
  its modules, and must not end it: that is the flag `*enable` of `frontend.cpp:181` (`LastOne`).
* `AwaitsAfter`, `RequestsNeeded`, `AwaitsAll`: `finalize` waits for nothing before
  that answer; afterwards it has joined the request of every module with a call
  that was due, and the UI, which shares these requests, cannot end them.

The lemmas before the steps say how tasks and messages move (`MessagesShift`,
`TasksShift`: a queue lost its first, or got something that does not matter), and
each part of the invariant is shown once for such a move; a step then only says
which move it makes.

`MaxTasks`, `MaxTime` and the other bounds occur in guards only, so the theorems
hold for any of their values.

**Only model-checked:**

* All liveness properties: fairness and `ENABLED` are not within the prover's reach.
* `StatisticsExact`. The reference and the reading of a message recurse over trees
  of calls, with `RECURSIVE` operators, and each commit folds over the tables that
  follow; no recursive function over numbers says this as plainly. `Statistics` is
  the only module with such operators, and no proof uses it.

## 6. Plan

Modelled first was what loses data or hangs the profiled program, then what two
threads share in the frontend, then what the frontend derives from its data. In
this order could follow:

1. The deferred continuations of `server_session`, several handlers of one
   message, and the table of threads in `ProfilingSession`.
2. The active marshalled session, which the injected side uses, and the spawned
   and COM endpoints.

## 7. Not modelled

The modules stand for about one line in seven of the repository's 32 500. What
remains is mostly not logic that a state machine could say something about:

* Headers of other systems that are carried along (`common/src/macos-compat/elf.h`
  alone is 2 800 lines, `android-compat` several hundred), declarations, includes
  and licences.
* Presentation: windows, menus, charts, column layouts and their texts, style
  sheets, the Visual Studio package (`micro-profiler/`), `frontend/src/untested`.
* Endpoints over COM and pipes, injection, process enumeration, image, ELF, Mach-O
  and symbol readers, and the wrappers of system calls that exist once for Windows
  and once for Unix: system calls and file formats with no protocol of their own.
* Formats of messages, files and versions (`*serialization.h`), which convert and
  keep no state; `logger`, strings, containers and allocators.
* The assembly hooks, the decoder of instruction lengths and references relative
  to `RIP` other than jumps (`jumper.cpp:58`): their correctness is that of an
  instruction set.
* What the calibration measures: only that its load fits the trace is modelled.
* Linear scales whose steps or ranges the code's floats round.
* Logarithmic scales and interpolation, floating-point functions without state,
  and the overflow of the cross-multiplication at `frontend/helpers.h:45`.
* The macOS and Android queues, which differ from `ui_queue_win32.cpp` in the
  system's timer only.
* The exit of a Unix process, where nothing hooks the exit, and two threads inside
  `ExitProcess` at a time.
* The truncation to 32 bits of an address 4 GB or more above its module's base
  (`symbol_resolver.cpp:94`) is in the model, but nothing is claimed of it.
* The end of the server's thread by an exception of `accept` or of the socket's
  options (`server_endpoint_sockets.cpp:127-134`): `Select` of `FrontendServer` ends it
  by a stop only.
* What listeners see in the middle of `set_order`, which notifies them
  (`table_model_impl.h:166`) before the trackables are fetched (`:179`): the action is
  one step of one thread, and `TrackedRowsFollow` is about what holds after it.
* A module tracker per session: a second frontend of `Patching` finds the tracker
  of the first, which knows more than the new one the code makes
  (`collector_app.cpp:54`) and can be asked for more.
* A memory model weaker than sequential consistency: the ring of `buffers_queue`
  is a library outside of the repository and is taken to publish atomically.
