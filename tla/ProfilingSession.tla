---------------------------- MODULE ProfilingSession ----------------------------
(***************************************************************************)
(* A profiling session from end to end: collector_app and the worker of    *)
(* active_server_app in the profiled process, the frontend with its        *)
(* multiplexed requests for metadata in another one.                       *)
(*                                                                         *)
(* The frontend polls for statistics, the UI asks for the symbols of       *)
(* modules and may lose interest before they come, the user may close the  *)
(* window, and the process may exit at any moment: the destructor of       *)
(* collector_app then waits until the frontend has what it needs.          *)
(*                                                                         *)
(* Traces, analyzer and module tracker are used for what their own         *)
(* modules say of them: statistics are the set of calls they account for.  *)
(* A module is mapped from its first call on.  The table of threads, which *)
(* every update asks for as well, is not modelled.                         *)
(***************************************************************************)
EXTENDS Naturals, Sequences, FiniteSets

CONSTANTS Modules,      \* modules of the profiled process
          MaxCalls,     \* bound: calls made
          MaxActive,    \* bound: calls in active buffers, of either kind
          MaxPolls,     \* bound: updates asked for by the UI
          MaxInterest   \* bound: requests of the UI for metadata

ASSUME SessionBoundsAssumption == MaxCalls \in Nat /\ MaxActive \in Nat /\ MaxPolls \in Nat /\ MaxInterest \in Nat
ASSUME SessionModulesAssumption == IsFiniteSet(Modules)

Calls == Modules \X (1..MaxCalls)
ModulesOf(S) == {c[1] : c \in S}

VARIABLES
    \* the profiled process
    made,            \* the calls made
    open,            \* calls in the active buffer of the thread that will exit
    buffered,        \* calls in the active buffers of other threads
    unread,          \* calls in buffers that were published
    analyzed,        \* calls in _analyzer
    reported,        \* modules reported by module_tracker
    tasks,           \* _queue: the tasks of the worker
    connection,      \* what the worker was given: "none" yet, a "null" or a "live" channel
    session,         \* whether _session is set
    exit_requested,  \* _exit_requested
    exit_confirmed,  \* _exit_confirmed
    owner,           \* ~collector_app: "alive", "joining" or "joined"
    due,             \* history: what ~collector_app owes to the frontend
    \* between the processes
    to_front,        \* messages for the frontend
    \* the frontend
    front,           \* "open", "closing" (disconnect_session was called) or "closed"
    initialized,     \* _initialized
    token,           \* _token of client_session
    update_request,  \* the token of _update_request, or 0
    final_request,   \* the token of the update asked for by finalize, or 0
    statistics,      \* calls in _db->statistics
    mappings,        \* modules in _db->mappings
    metadata,        \* modules in _db->modules
    requests,        \* per module: its multiplexing_request, [callbacks, stage, token]
    remaining,       \* finalize: *remaining
    enable,          \* finalize: *enable
    finalized,       \* finalize has ended the session
    polls,           \* updates asked for by the UI
    interest         \* requests made by the UI

collectorVars == <<made, open, buffered, unread, analyzed, reported>>
workerVars == <<connection, session, exit_requested, exit_confirmed>>
finalVars == <<final_request, remaining, enable, finalized>>
dataVars == <<statistics, mappings, metadata>>
boundVars == <<polls, interest>>
vars == <<collectorVars, tasks, workerVars, owner, due, to_front, front, initialized, token,
          update_request, finalVars, dataVars, requests, boundVars>>

Idle == [callbacks |-> {}, stage |-> "none", token |-> 0]

Init ==
    /\ made = {} /\ open = {} /\ buffered = {} /\ unread = {} /\ analyzed = {} /\ reported = {}
    /\ connection = "none"
    /\ tasks = <<>>
    /\ session = FALSE
    /\ exit_requested = FALSE /\ exit_confirmed = FALSE
    /\ owner = "alive"
    /\ due = {}
    /\ front = "closed"
    /\ to_front = <<>>
    /\ initialized = FALSE
    /\ token = 1
    /\ update_request = 0
    /\ final_request = 0 /\ remaining = 0 /\ enable = FALSE /\ finalized = FALSE
    /\ statistics = {} /\ mappings = {} /\ metadata = {}
    /\ requests = [m \in Modules |-> Idle]
    /\ polls = 0 /\ interest = 0

-----------------------------------------------------------------------------
(* The profiled threads.                                                   *)

\* A call is made by the thread that will exit, or by another one.
Record(m) ==
    LET c == <<m, Cardinality(made) + 1>>
    IN  /\ Cardinality(made) < MaxCalls
        /\ made' = made \cup {c}
        /\ \/ owner = "alive" /\ Cardinality(open) < MaxActive /\ open' = open \cup {c} /\ UNCHANGED buffered
           \/ owner # "joined" /\ Cardinality(buffered) < MaxActive /\ buffered' = buffered \cup {c} /\ UNCHANGED open
        /\ UNCHANGED <<unread, analyzed, reported, tasks, workerVars, owner, due, to_front, front, initialized, token,
                       update_request, finalVars, dataVars, requests, boundVars>>

\* A thread's buffer is full, or the thread flushes it or ends: its calls can be read.
Publish(calls) ==
    /\ owner # "joined"
    /\ calls # {}
    /\ calls \subseteq buffered \/ calls = open
    /\ unread' = unread \cup calls
    /\ buffered' = buffered \ calls
    /\ open' = open \ calls
    /\ UNCHANGED <<made, analyzed, reported, tasks, workerVars, owner, due, to_front, front, initialized, token,
                   update_request, finalVars, dataVars, requests, boundVars>>

\* ~collector_app, which flushes the buffer of the exiting thread and no other, and
\* then ~active_server_app, up to the join.
Destroy ==
    /\ owner = "alive"
    /\ unread' = unread \cup open
    /\ open' = {}
    /\ owner' = "joining"
    /\ tasks' = Append(tasks, [kind |-> "finalize"])
    /\ due' = made \ buffered
    /\ UNCHANGED <<made, buffered, analyzed, reported, workerVars, to_front, front, initialized, token, update_request,
                   finalVars, dataVars, requests, boundVars>>

\* The worker has left its loop.
Join ==
    /\ owner = "joining"
    /\ exit_confirmed
    /\ owner' = "joined"
    /\ UNCHANGED <<collectorVars, tasks, workerVars, due, to_front, front, initialized, token, update_request,
                   finalVars, dataVars, requests, boundVars>>

-----------------------------------------------------------------------------
(* The worker of active_server_app.                                        *)

\* The worker connects and makes the session, which greets the frontend.
\* The process may be exiting already.  Without a frontend there is the null
\* channel, which answers every message by a disconnect.
StartWorker ==
    /\ connection = "none"
    /\ session' = TRUE
    /\ \/ connection' = "live" /\ front' = "open" /\ to_front' = <<[kind |-> "init"]>> /\ UNCHANGED tasks
       \/ connection' = "null" /\ tasks' = Append(tasks, [kind |-> "disconnected"]) /\ UNCHANGED <<front, to_front>>
    /\ UNCHANGED <<collectorVars, exit_requested, exit_confirmed, owner, due, initialized, token, update_request,
                   finalVars, dataVars, requests, boundVars>>

Working == connection # "none" /\ ~exit_confirmed

\* Messages sent to a frontend that is gone are lost.
Deliver(messages) == to_front' = IF front = "closed" THEN to_front ELSE to_front \o messages

\* collect_and_reschedule, every 10 ms.
Collect ==
    /\ Working
    /\ analyzed' = analyzed \cup unread
    /\ unread' = {}
    /\ UNCHANGED <<made, open, buffered, reported, tasks, workerVars, owner, due, to_front, front, initialized, token,
                   update_request, finalVars, dataVars, requests, boundVars>>

Task(kind) ==
    /\ Working
    /\ tasks # <<>>
    /\ Head(tasks).kind = kind

\* The task of ~active_server_app, with finalize_session if there is a session.
Finalize ==
    /\ Task("finalize")
    /\ IF session
         THEN /\ analyzed' = analyzed \cup unread
              /\ unread' = {}
              /\ Deliver(<<[kind |-> "exiting"]>>)
              /\ exit_requested' = TRUE
              /\ UNCHANGED exit_confirmed
         ELSE /\ exit_confirmed' = TRUE
              /\ UNCHANGED <<analyzed, unread, to_front, exit_requested>>
    /\ tasks' = Tail(tasks) \o (IF session /\ connection = "null" THEN <<[kind |-> "disconnected"]>> ELSE <<>>)
    /\ UNCHANGED <<made, open, buffered, reported, connection, session, owner, due, front, initialized, token, update_request,
                   finalVars, dataVars, requests, boundVars>>

\* Mutant: a disconnect confirms no exit.
MutantDisconnected ==
    /\ Task("disconnected")
    /\ session' = FALSE
    /\ tasks' = Tail(tasks)
    /\ UNCHANGED <<collectorVars, connection, exit_requested, exit_confirmed, owner, due, to_front, front, initialized, token,
                   update_request, finalVars, dataVars, requests, boundVars>>

\* frontend_disconnected.
Disconnected ==
    /\ Task("disconnected")
    /\ exit_confirmed' = (exit_confirmed \/ (session /\ exit_requested))
    /\ session' = FALSE
    /\ tasks' = Tail(tasks)
    /\ UNCHANGED <<collectorVars, connection, exit_requested, owner, due, to_front, front, initialized, token, update_request,
                   finalVars, dataVars, requests, boundVars>>

\* What the handler of request_update sends.
UpdateMessages(t) ==
    LET new == ModulesOf(made) \ reported
    IN  (IF new = {} THEN <<>> ELSE <<[kind |-> "loaded", token |-> t, modules |-> new]>>)
        \o <<[kind |-> "statistics", token |-> t, calls |-> analyzed]>>

\* Mutant: the analyzer is not cleared.
MutantRequestUpdate ==
    /\ Task("update")
    /\ IF session
         THEN /\ Deliver(UpdateMessages(Head(tasks).token))
              /\ reported' = ModulesOf(made)
         ELSE UNCHANGED <<to_front, reported>>
    /\ tasks' = Tail(tasks)
    /\ UNCHANGED <<made, open, buffered, unread, analyzed, workerVars, owner, due, front, initialized, token, update_request,
                   finalVars, dataVars, requests, boundVars>>

\* The handler of request_update.  A session that has ended takes its pending
\* requests along.
RequestUpdate ==
    /\ Task("update")
    /\ IF session
         THEN /\ Deliver(UpdateMessages(Head(tasks).token))
              /\ reported' = ModulesOf(made)
              /\ analyzed' = {}
         ELSE UNCHANGED <<to_front, reported, analyzed>>
    /\ tasks' = Tail(tasks)
    /\ UNCHANGED <<made, open, buffered, unread, workerVars, owner, due, front, initialized, token, update_request,
                   finalVars, dataVars, requests, boundVars>>

\* The handler of request_module_metadata.
RequestModuleMetadata ==
    /\ Task("metadata")
    /\ IF session
         THEN Deliver(<<[kind |-> "metadata", token |-> Head(tasks).token, module |-> Head(tasks).module]>>)
         ELSE UNCHANGED to_front
    /\ tasks' = Tail(tasks)
    /\ UNCHANGED <<collectorVars, workerVars, owner, due, front, initialized, token, update_request,
                   finalVars, dataVars, requests, boundVars>>

-----------------------------------------------------------------------------
(* The frontend: messages.                                                 *)

\* What the frontend sends, and the disconnect that may follow; what it
\* sends after a disconnect is lost.
Send(messages, disconnects) ==
    /\ tasks' = IF front # "open" THEN tasks
                ELSE tasks \o messages \o (IF disconnects THEN <<[kind |-> "disconnected"]>> ELSE <<>>)
    /\ front' = IF disconnects THEN "closing" ELSE front

Message(kind) ==
    /\ front # "closed"
    /\ to_front # <<>>
    /\ Head(to_front).kind = kind
    /\ to_front' = Tail(to_front)

\* The subscription to init: the UI is made and the first update asked for.
OnInit ==
    /\ Message("init")
    /\ initialized' = TRUE
    /\ update_request' = token
    /\ token' = token + 1
    /\ Send(<<[kind |-> "update", token |-> token]>>, FALSE)
    /\ UNCHANGED <<collectorVars, workerVars, owner, due, finalVars, dataVars, requests, boundVars>>

\* The subscription to exiting: finalize asks for an update of its own.
OnExiting ==
    /\ Message("exiting")
    /\ final_request' = token
    /\ token' = token + 1
    /\ Send(<<[kind |-> "update", token |-> token]>>, FALSE)
    /\ UNCHANGED <<collectorVars, workerVars, owner, due, initialized, update_request, remaining, enable, finalized,
                   dataVars, requests, boundVars>>

\* modules_callback.
OnLoaded ==
    /\ Message("loaded")
    /\ mappings' = IF Head(to_front).token \in {update_request, final_request}
                     THEN mappings \cup Head(to_front).modules ELSE mappings
    /\ UNCHANGED <<collectorVars, tasks, workerVars, owner, due, front, initialized, token, update_request, finalVars,
                   statistics, metadata, requests, boundVars>>

\* update_callback of a polled update, which ends the request.
OnPolled ==
    /\ Message("statistics")
    /\ Head(to_front).token = update_request
    /\ statistics' = statistics \cup Head(to_front).calls
    /\ update_request' = 0
    /\ UNCHANGED <<collectorVars, tasks, workerVars, owner, due, front, initialized, token, finalVars,
                   mappings, metadata, requests, boundVars>>

\* Mutant: the request is started for the second callback.
MutantJoined(r, callback, known) ==
    [r EXCEPT !.callbacks = @ \cup {callback},
              !.stage = IF r.callbacks # {} /\ ~known /\ @ = "none" THEN "file" ELSE @]

\* create: a callback joins the request of a module.  The first one starts it,
\* with a look into the cache, unless the module is already in the table.
Joined(r, callback, known) ==
    [r EXCEPT !.callbacks = @ \cup {callback},
              !.stage = IF r.callbacks = {} /\ ~known THEN "file" ELSE @]

\* Mutant: *enable is not looked at.
MutantLastOne(left, enabled) == left = 0

\* The callback of finalize: whether it ends the session.
LastOne(left, enabled) == left = 0 /\ enabled

\* After the loop the session ends when nothing has to be waited for.
Finishing(needed) == needed \subseteq metadata

\* update_callback of the update asked for by finalize: the metadata of every module
\* with statistics is asked for, in a loop. What is there calls back in the loop,
\* where *enable is not set yet; the first of them, if no other module was met
\* before, finds none remaining.
OnFinal ==
    LET calls  == statistics \cup Head(to_front).calls
        needed == ModulesOf(calls) \cap mappings
    IN  /\ Message("statistics")
        /\ Head(to_front).token = final_request
        /\ statistics' = calls
        /\ requests' = [m \in Modules |->
                          IF m \in needed THEN Joined(requests[m], "final", m \in metadata) ELSE requests[m]]
        /\ remaining' = Cardinality(needed \ metadata)
        /\ enable' = ~Finishing(needed)
        /\ \E met \in (IF needed = {} THEN {{}} ELSE {{first} : first \in needed}) :
             LET ends == Finishing(needed) \/ (\E first \in met : first \in metadata /\ LastOne(0, FALSE))
             IN  finalized' = (finalized \/ ends) /\ Send(<<>>, ends)
        /\ UNCHANGED <<collectorVars, workerVars, owner, due, initialized, token, update_request, final_request,
                       mappings, metadata, boundVars>>

-----------------------------------------------------------------------------
(* The frontend: metadata.                                                 *)

\* The metadata of m enter the table and every callback is invoked: that of
\* finalize counts down and ends the session with the last one.
Ready(m) ==
    LET counted == "final" \in requests[m].callbacks
        last    == counted /\ LastOne(remaining - 1, enable)
    IN  /\ metadata' = metadata \cup {m}
        /\ requests' = [requests EXCEPT ![m].stage = "none", ![m].token = 0]
        /\ remaining' = IF counted THEN remaining - 1 ELSE remaining
        /\ finalized' = (finalized \/ last)
        /\ Send(<<>>, last)

\* The file is in the cache.
CacheHit(m) ==
    /\ front # "closed"
    /\ requests[m].stage = "file"
    /\ Ready(m)
    /\ UNCHANGED <<collectorVars, workerVars, owner, due, to_front, initialized, token, update_request, final_request,
                   enable, statistics, mappings, boundVars>>

\* It is not, or cannot be read: request_metadata_nw.
CacheMiss(m) ==
    /\ front # "closed"
    /\ requests[m].stage = "file"
    /\ requests' = [requests EXCEPT ![m].stage = "network", ![m].token = token]
    /\ token' = token + 1
    /\ Send(<<[kind |-> "metadata", token |-> token, module |-> m]>>, FALSE)
    /\ UNCHANGED <<collectorVars, workerVars, owner, due, to_front, initialized, update_request, finalVars,
                   dataVars, boundVars>>

\* The answer to a request that is still there ...
OnMetadata ==
    /\ Message("metadata")
    /\ requests[Head(to_front).module].token = Head(to_front).token
    /\ Ready(Head(to_front).module)
    /\ UNCHANGED <<collectorVars, workerVars, owner, due, initialized, token, update_request, final_request,
                   enable, statistics, mappings, boundVars>>

\* ... or to one that was given up.
OnStaleMetadata ==
    /\ Message("metadata")
    /\ requests[Head(to_front).module].token # Head(to_front).token
    /\ UNCHANGED <<collectorVars, tasks, workerVars, owner, due, front, initialized, token, update_request, finalVars,
                   dataVars, requests, boundVars>>

-----------------------------------------------------------------------------
(* The frontend: the UI.                                                   *)

\* statistics_poll: one update at a time.
Poll ==
    /\ initialized
    /\ front # "closed"
    /\ polls < MaxPolls
    /\ update_request = 0
    /\ polls' = polls + 1
    /\ update_request' = token
    /\ token' = token + 1
    /\ Send(<<[kind |-> "update", token |-> token]>>, FALSE)
    /\ UNCHANGED <<collectorVars, workerVars, owner, due, to_front, initialized, finalVars, dataVars, requests, interest>>

\* request_presence: symbols of a module are asked for.
UiRequest(m) ==
    /\ front # "closed"
    /\ m \in mappings
    /\ "ui" \notin requests[m].callbacks
    /\ interest < MaxInterest
    /\ interest' = interest + 1
    /\ requests' = [requests EXCEPT ![m] = Joined(@, "ui", m \in metadata)]
    /\ UNCHANGED <<collectorVars, tasks, workerVars, owner, due, to_front, front, initialized, token, update_request,
                   finalVars, dataVars, polls>>

\* destroy_inner: without its last callback a request is given up, its file
\* read or its place among the expected answers included.
Without(r, callback) ==
    IF r.callbacks \subseteq {callback} THEN Idle ELSE [r EXCEPT !.callbacks = @ \ {callback}]

\* The UI lets its request go.
UiCancel(m) ==
    /\ front # "closed"
    /\ "ui" \in requests[m].callbacks
    /\ requests' = [requests EXCEPT ![m] = Without(@, "ui")]
    /\ UNCHANGED <<collectorVars, tasks, workerVars, owner, due, to_front, front, initialized, token, update_request,
                   finalVars, dataVars, boundVars>>

\* The user closes the window: the UI goes with its requests, and the session.
UserCloses ==
    /\ initialized
    /\ front = "open"
    /\ Send(<<>>, TRUE)
    /\ requests' = [m \in Modules |-> Without(requests[m], "ui")]
    /\ UNCHANGED <<collectorVars, workerVars, owner, due, to_front, initialized, token, update_request, finalVars,
                   dataVars, boundVars>>

\* The endpoint has closed the connection and the frontend is destroyed.
FrontDestroyed ==
    /\ front = "closing"
    /\ front' = "closed"
    /\ to_front' = <<>>
    /\ requests' = [m \in Modules |-> Idle]
    /\ UNCHANGED <<collectorVars, tasks, workerVars, owner, due, initialized, token, update_request, finalVars,
                   dataVars, boundVars>>

-----------------------------------------------------------------------------

Worker == StartWorker \/ Collect \/ Finalize \/ Disconnected \/ RequestUpdate \/ RequestModuleMetadata
Messages == OnInit \/ OnExiting \/ OnLoaded \/ OnPolled \/ OnFinal \/ OnMetadata \/ OnStaleMetadata
CacheReads == \E m \in Modules : CacheHit(m) \/ CacheMiss(m)

\* The process has exited and the frontend is gone.
Finished == owner = "joined" /\ UNCHANGED vars

Next ==
    \/ \E m \in Modules : Record(m) \/ UiRequest(m) \/ UiCancel(m) \/ CacheHit(m) \/ CacheMiss(m)
    \/ \E calls \in (SUBSET buffered) \cup {open} : Publish(calls)
    \/ Destroy \/ Join
    \/ StartWorker \/ Collect \/ Finalize \/ Disconnected \/ RequestUpdate \/ RequestModuleMetadata
    \/ OnInit \/ OnExiting \/ OnLoaded \/ OnPolled \/ OnFinal \/ OnMetadata \/ OnStaleMetadata
    \/ Poll \/ UserCloses \/ FrontDestroyed
    \/ Finished

Spec == Init /\ [][Next]_vars

\* The worker and the frontend's queue serve their tasks, connections are closed and
\* files are read: something of this goes on as long as there is something to do. That
\* is enough, since within the bounds all of it ends. Nobody has to call, poll, lose interest or exit.
Fairness == WF_vars(Worker \/ Join \/ Messages \/ FrontDestroyed \/ CacheReads)

FairSpec == Spec /\ Fairness

-----------------------------------------------------------------------------
(* Properties.                                                             *)

\* The calls under way to the frontend, message by message.
Sent == {i \in 1..Len(to_front) : to_front[i].kind = "statistics"}

\* A call is in one place at any moment, so it is counted once at most; and
\* it is in some place as long as the session lasts: neither the clearing of
\* the analyzer nor the two kinds of updates lose it.
CallsConserved ==
    LET places == <<open, buffered, unread, analyzed, statistics>> \o
                  [i \in 1..Len(to_front) |-> IF i \in Sent THEN to_front[i].calls ELSE {}]
    IN  /\ \A i, j \in 1..Len(places) : i # j => places[i] \cap places[j] = {}
        /\ session /\ front = "open" => made = UNION {places[i] : i \in 1..Len(places)}

\* Whatever was polled, cached, asked for or given up before: when finalize
\* ends the session the frontend has every call that the exiting thread made and
\* every call that others had published before the exit, and the symbols of their
\* modules. What others had in their active buffers may be lost.
FinalizationComplete ==
    finalized => due \subseteq statistics /\ ModulesOf(due) \subseteq metadata

\* finalize waits for exactly the requests it has under way, none of them
\* given up when the UI, which shares them, lets go.
RemainingIsAwaited ==
    front # "closed" =>
        remaining = Cardinality({m \in Modules \ metadata : "final" \in requests[m].callbacks})

\* finalize ends neither too early nor on a wrong count.
FinalizationSound == FinalizationComplete /\ RemainingIsAwaited

\* The exit of the process never hangs: the worker confirms it, be the
\* frontend there, closing, gone or never found.
DestructorReturns == owner = "joining" ~> owner = "joined"

\* Symbols the UI asks for arrive, unless it loses interest or the session
\* ends, although others ask for them and give up.
SymbolsArrive ==
    \A m \in Modules :
        "ui" \in requests[m].callbacks ~>
            (m \in metadata \/ "ui" \notin requests[m].callbacks \/ ~session \/ front # "open")
================================================================================
