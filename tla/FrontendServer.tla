--------------------------- MODULE FrontendServer ---------------------------
(***************************************************************************)
(* How profiled processes reach the frontend: the thread of the socket     *)
(* server with its list of handlers and its auxiliary socket               *)
(* (ipc/src/server_endpoint_sockets.cpp), the marshalled sessions that     *)
(* carry calls into the apartment and end under their locks                *)
(* (ipc/src/marshalled_session.cpp, marshalled_server.cpp, lifetime.h),    *)
(* the list of instances with their windows                                *)
(* (frontend/src/frontend_manager.cpp) and the owner of the server, which  *)
(* clicks and stops it (frontend/src/untested/ipc_manager.cpp).          *)
(*                                                                         *)
(* Two threads act: the server's thread and the apartment (the thread of   *)
(* the user interface).  A connection stands for its socket, its handler   *)
(* and the handler's id: ids are never used twice by one server.           *)
(***************************************************************************)
EXTENDS Naturals, Sequences, FiniteSets, SequencesExt

CONSTANTS Clients,      \* connections profiled processes make, each at most once
          Files,        \* sessions the user loads from a file
          NULL,
          MaxMessages,  \* bound: messages a client sends
          MaxClicks     \* bound: times the user does something

Magic == "magic"
Stop == "stop"

\* A destruction in progress.
Release == [by : {"thread", "apartment"}, of : Clients, stage : {"session", "outbound", "socket"}]

ASSUME FrontendServerAssumption ==
    /\ NULL \notin Clients \cup Files
    /\ Clients \cap (Files \cup {"acceptor", "aux", Magic, Stop}) = {}
    /\ NULL \notin Release
    /\ {MaxMessages, MaxClicks} \subseteq Nat

VARIABLES
    remote,     \* client end: "none", "connected", "gone"
    sent,       \* messages a client has sent
    wire,       \* of them, those the server has not received
    backlog,    \* connections not accepted yet
    aux,        \* what the auxiliary socket carries: the magic, ids, 0
    handlers,   \* the list of handlers
    kind,       \* the function each of them is bound to
    thread,     \* server's thread: "select", "dispatch", "ended"
    ready,      \* handlers select reported and the pass has not reached
    release,    \* destruction in progress: [by, of, stage], or NULL
    alive,      \* lifetime of a marshalled session
    out,        \* lifetime of its outbound wrapper
    socket,     \* the socket of a handler is open
    accepting,  \* lifetime of the marshalled server
    queue,      \* tasks of the apartment
    apartment,  \* what the apartment does: [at, of, then]
    todo,       \* instances reset_entry is still to be called for
    received,   \* messages the frontend of a connection was given
    underlying, \* the frontend: "none", "made", "gone"
    instances,  \* frontend_manager::_instances
    ui,         \* instances that have a window
    frontend,   \* instances that have a frontend
    active,     \* frontend_manager::_active_instance
    clicks      \* times the user did something

serverVars == <<handlers, kind, thread, ready>>
sessionVars == <<alive, out, socket>>
managerVars == <<instances, ui, frontend, active>>
wireVars == <<remote, sent, wire, backlog>>
vars == <<wireVars, aux, serverVars, release, sessionVars, accepting, queue,
          apartment, todo, received, underlying, managerVars, clicks>>

At(place, c, next) == [at |-> place, of |-> c, then |-> next]
Idle == At("idle", NULL, NULL)
Task(k, c) == [kind |-> k, of |-> c]

Init ==
    /\ remote = [c \in Clients |-> "none"]
    /\ sent = [c \in Clients |-> 0]
    /\ wire = [c \in Clients |-> 0]
    /\ backlog = <<>>
    /\ aux = <<>>
    /\ handlers = <<>>
    /\ kind = [h \in Clients \cup {"acceptor", "aux"} |-> "none"]
    /\ thread = "ended"
    /\ ready = {}
    /\ release = NULL
    /\ alive = [c \in Clients |-> FALSE]
    /\ out = [c \in Clients |-> FALSE]
    /\ socket = [c \in Clients |-> FALSE]
    /\ accepting = TRUE
    /\ queue = <<>>
    /\ apartment = At("listen", NULL, NULL)
    /\ todo = <<>>
    /\ received = [c \in Clients |-> 0]
    /\ underlying = [c \in Clients |-> "none"]
    /\ instances = <<>>
    /\ ui = {}
    /\ frontend = {}
    /\ active = NULL
    /\ clicks = 0

-----------------------------------------------------------------------------
(* The profiled processes. *)

Listening == "acceptor" \in ToSet(handlers) \/ apartment.at = "connect_aux"

Connect(c) ==
    /\ remote[c] = "none"
    /\ Listening
    /\ remote' = [remote EXCEPT ![c] = "connected"]
    /\ backlog' = Append(backlog, c)
    /\ UNCHANGED <<sent, wire, aux, serverVars, release, sessionVars, accepting, queue,
                   apartment, todo, received, underlying, managerVars, clicks>>

\* The server's end is open: it waits to be accepted, or has been and was not closed.
Reachable(c) == socket[c] \/ c \in ToSet(backlog)

Send(c) ==
    /\ remote[c] = "connected" /\ Reachable(c)
    /\ sent[c] < MaxMessages
    /\ sent' = [sent EXCEPT ![c] = @ + 1]
    /\ wire' = [wire EXCEPT ![c] = @ + 1]
    /\ UNCHANGED <<remote, backlog, aux, serverVars, release, sessionVars, accepting, queue,
                   apartment, todo, received, underlying, managerVars, clicks>>

Leave(c) ==
    /\ remote[c] = "connected" /\ Reachable(c)
    /\ remote' = [remote EXCEPT ![c] = "gone"]
    /\ UNCHANGED <<sent, wire, backlog, aux, serverVars, release, sessionVars, accepting, queue,
                   apartment, todo, received, underlying, managerVars, clicks>>

\* The client's worker finds the connection closed by the server.
Dropped(c) ==
    /\ remote[c] = "connected" /\ ~Reachable(c)
    /\ remote' = [remote EXCEPT ![c] = "gone"]
    /\ UNCHANGED <<sent, wire, backlog, aux, serverVars, release, sessionVars, accepting, queue,
                   apartment, todo, received, underlying, managerVars, clicks>>

-----------------------------------------------------------------------------
(* The server's thread: select, then the handlers it reported in their order. *)

Readable(h) ==
    CASE h = "acceptor" -> backlog # <<>>
      [] h = "aux" -> aux # <<>>
      [] OTHER -> wire[h] > 0 \/ remote[h] = "gone"

Select ==
    /\ thread = "select"
    /\ release = NULL
    /\ ready' = {h \in ToSet(handlers) : Readable(h)}
    /\ ready' # {}
    /\ thread' = "dispatch"
    /\ UNCHANGED <<wireVars, aux, handlers, kind, release, sessionVars, accepting, queue,
                   apartment, todo, received, underlying, managerVars, clicks>>

\* The handler whose turn it is: the first of the list that is still ready.
Turn(h) ==
    /\ thread = "dispatch"
    /\ release = NULL
    /\ h \in ready
    /\ \E k \in 1 .. Len(handlers) : handlers[k] = h /\ \A j \in 1 .. (k - 1) : handlers[j] \notin ready

\* The pass goes on with the handlers that are left, then select is called again.
Proceed(left) ==
    /\ ready' = left
    /\ thread' = IF left = {} THEN "select" ELSE "dispatch"

\* marshalled_server::create_session for connections cs, in their order: a live
\* session and a task that makes its frontend; null once the server was stopped.
CreateSession(cs) ==
    IF accepting
    THEN /\ alive' = [c \in Clients |-> alive[c] \/ c \in ToSet(cs)]
         /\ out' = [c \in Clients |-> out[c] \/ c \in ToSet(cs)]
         /\ queue' = queue \o [i \in 1 .. Len(cs) |-> Task("create", cs[i])]
    ELSE UNCHANGED <<alive, out, queue>>

AcceptPreinit ==
    /\ Turn("acceptor") /\ kind["acceptor"] = "accept_preinit"
    /\ LET n == Head(backlog) IN
        /\ handlers' = Append(handlers, n)
        /\ kind' = [kind EXCEPT ![n] = "preinit"]
        /\ socket' = [c \in Clients |-> socket[c] \/ c = n]
    /\ backlog' = Tail(backlog)
    /\ Proceed(ready \ {"acceptor"})
    /\ UNCHANGED <<remote, sent, wire, aux, release, alive, out, accepting, queue, apartment,
                   todo, received, underlying, managerVars, clicks>>

\* Before the auxiliary connection has said the magic, whatever else comes is left alone.
HandlePreinit(h) ==
    /\ Turn(h) /\ kind[h] = "preinit"
    /\ IF h = "aux"
       THEN LET cs == RemoveFirst(RemoveFirst(handlers, "acceptor"), "aux") IN
            /\ aux' = Tail(aux)
            /\ kind' = [x \in DOMAIN kind |-> CASE x = "acceptor" -> "accept_regular"
                                                [] x = "aux" -> "aux"
                                                [] x \in ToSet(cs) -> "session"
                                                [] OTHER -> kind[x]]
            /\ CreateSession(cs)
       ELSE UNCHANGED <<aux, kind, alive, out, queue>>
    /\ Proceed(ready \ {h})
    /\ UNCHANGED <<wireVars, handlers, release, socket, accepting, apartment, todo,
                   received, underlying, managerVars, clicks>>

AcceptRegular ==
    /\ Turn("acceptor") /\ kind["acceptor"] = "accept_regular"
    /\ LET n == Head(backlog) IN
        /\ CreateSession(<<n>>)
        /\ handlers' = Append(handlers, n)
        /\ kind' = [kind EXCEPT ![n] = "session"]
        /\ socket' = [socket EXCEPT ![n] = TRUE]
    /\ backlog' = Tail(backlog)
    /\ Proceed(ready \ {"acceptor"})
    /\ UNCHANGED <<remote, sent, wire, aux, release, accepting, apartment, todo, received,
                   underlying, managerVars, clicks>>

\* Mutant: a message that comes before the frontend was made is dropped.
SessionMessageEarlyLost(c) ==
    /\ Turn(c) /\ kind[c] = "session" /\ alive[c] /\ wire[c] > 0
    /\ wire' = [wire EXCEPT ![c] = @ - 1]
    /\ queue' = IF underlying[c] = "made" THEN Append(queue, Task("message", c)) ELSE queue
    /\ Proceed(ready \ {c})
    /\ UNCHANGED <<remote, sent, backlog, aux, handlers, kind, release, sessionVars, accepting,
                   apartment, todo, received, underlying, managerVars, clicks>>

\* A message is put on the apartment's queue.
SessionMessage(c) ==
    /\ Turn(c) /\ kind[c] = "session" /\ alive[c] /\ wire[c] > 0
    /\ wire' = [wire EXCEPT ![c] = @ - 1]
    /\ queue' = Append(queue, Task("message", c))
    /\ Proceed(ready \ {c})
    /\ UNCHANGED <<remote, sent, backlog, aux, handlers, kind, release, sessionVars, accepting,
                   apartment, todo, received, underlying, managerVars, clicks>>

Destroy(c, by) == release' = [by |-> by, of |-> c, stage |-> "session"]

SessionDisconnect(c) ==
    /\ Turn(c) /\ kind[c] = "session" /\ alive[c] /\ wire[c] = 0 /\ remote[c] = "gone"
    /\ queue' = Append(queue, Task("disconnect", c))
    /\ handlers' = RemoveFirst(handlers, c)
    /\ Destroy(c, "thread")
    /\ Proceed(ready \ {c})
    /\ UNCHANGED <<wireVars, aux, kind, sessionVars, accepting, apartment, todo,
                   received, underlying, managerVars, clicks>>

\* A session that is null, as it was made after the marshalled server was stopped, is called
\* all the same: the process crashes.
NullSession(c) ==
    /\ Turn(c) /\ kind[c] = "session" /\ ~alive[c]
    /\ thread' = "ended"
    /\ ready' = {}
    /\ apartment' = At("crashed", NULL, NULL)
    /\ UNCHANGED <<wireVars, aux, handlers, kind, release, sessionVars, accepting, queue, todo,
                   received, underlying, managerVars, clicks>>

Listed(id) == id \in ToSet(handlers)

\* An id that is no handler's ends the thread, just as the 0 of ~server does.
HandleAux ==
    /\ Turn("aux") /\ kind["aux"] = "aux"
    /\ aux' = Tail(aux)
    /\ IF Listed(Head(aux))
       THEN /\ handlers' = RemoveFirst(handlers, Head(aux))
            /\ Destroy(Head(aux), "thread")
            /\ Proceed(ready \ {"aux", Head(aux)})
       ELSE /\ thread' = "ended"
            /\ ready' = {}
            /\ UNCHANGED <<handlers, release>>
    /\ UNCHANGED <<wireVars, kind, sessionVars, accepting, queue, apartment, todo,
                   received, underlying, managerVars, clicks>>

-----------------------------------------------------------------------------
(* ~socket_handler and, through it, ~marshalled_passive_session: the         *)
(* session's lifetime ends (no task of it may be running), the outbound      *)
(* wrapper is stopped (no call may be inside it), the frontend's destruction *)
(* is scheduled, and only then the socket is closed.                         *)

ReleaseSession ==
    /\ release # NULL /\ release.stage = "session"
    /\ ~(apartment.at = "task" /\ apartment.of = release.of)
    /\ alive' = [alive EXCEPT ![release.of] = FALSE]
    /\ release' = [release EXCEPT !.stage = "outbound"]
    /\ UNCHANGED <<wireVars, aux, serverVars, out, socket, accepting, queue, apartment, todo,
                   received, underlying, managerVars, clicks>>

\* Mutant: the wrapper is stopped without its lock.
ReleaseOutboundUnlocked ==
    /\ release # NULL /\ release.stage = "outbound"
    /\ out' = [out EXCEPT ![release.of] = FALSE]
    /\ release' = [release EXCEPT !.stage = "socket"]
    /\ UNCHANGED <<wireVars, aux, serverVars, alive, socket, accepting, queue, apartment, todo,
                   received, underlying, managerVars, clicks>>

ReleaseOutbound ==
    /\ release # NULL /\ release.stage = "outbound"
    /\ ~(apartment.at = "outbound" /\ apartment.of = release.of)
    /\ out' = [out EXCEPT ![release.of] = FALSE]
    /\ release' = [release EXCEPT !.stage = "socket"]
    /\ UNCHANGED <<wireVars, aux, serverVars, alive, socket, accepting, queue, apartment, todo,
                   received, underlying, managerVars, clicks>>

ReleaseSocket ==
    /\ release # NULL /\ release.stage = "socket"
    /\ queue' = Append(queue, Task("destroy", release.of))
    /\ socket' = [socket EXCEPT ![release.of] = FALSE]
    /\ release' = NULL
    /\ UNCHANGED <<wireVars, aux, serverVars, alive, out, accepting, apartment, todo,
                   received, underlying, managerVars, clicks>>

-----------------------------------------------------------------------------
(* The apartment: tasks of its queue.  A task of a session runs under the   *)
(* session's lock, from BeginTask to EndTask.                               *)

BeginTask ==
    /\ apartment = Idle /\ queue # <<>> /\ Head(queue).kind # "destroy"
    /\ queue' = Tail(queue)
    /\ apartment' = IF alive[Head(queue).of]
                    THEN At("task", Head(queue).of, Head(queue).kind) ELSE Idle
    /\ UNCHANGED <<wireVars, aux, serverVars, release, sessionVars, accepting, todo, received,
                   underlying, managerVars, clicks>>

\* frontend_manager::attach: the frontend is made and its instance listed.
Attach(c) ==
    /\ underlying' = [underlying EXCEPT ![c] = "made"]
    /\ instances' = Append(instances, c)
    /\ frontend' = frontend \cup {c}
    /\ UNCHANGED <<received, ui, active>>

\* prepare_ui and set_ui
SetUi(i) ==
    /\ ui' = ui \cup {i}
    /\ active' = i

\* The first message tells of the process: its window is opened.
Deliver(c) ==
    /\ received' = [received EXCEPT ![c] = @ + 1]
    /\ IF received[c] = 0 THEN SetUi(c) ELSE UNCHANGED <<ui, active>>
    /\ UNCHANGED <<underlying, instances, frontend>>

EndTask ==
    /\ apartment.at = "task"
    /\ \/ apartment.then = "create" /\ Attach(apartment.of)
       \/ apartment.then = "message" /\ Deliver(apartment.of)
       \/ apartment.then = "disconnect" /\ UNCHANGED <<received, underlying, managerVars>>
    /\ apartment' = Idle
    /\ UNCHANGED <<wireVars, aux, serverVars, release, sessionVars, accepting, queue, todo,
                   clicks>>

Erase(i) == instances' = RemoveFirst(instances, i)

\* Mutant: the deleter takes the instance off the list although its window is open.
DestroyTaskErases ==
    /\ apartment = Idle /\ queue # <<>> /\ Head(queue).kind = "destroy"
    /\ queue' = Tail(queue)
    /\ LET c == Head(queue).of IN
       IF underlying[c] = "made"
       THEN /\ underlying' = [underlying EXCEPT ![c] = "gone"]
            /\ frontend' = frontend \ {c}
            /\ active' = IF active = c THEN NULL ELSE active
            /\ Erase(c)
       ELSE UNCHANGED <<underlying, frontend, active, instances>>
    /\ UNCHANGED <<wireVars, aux, serverVars, release, sessionVars, accepting, apartment, todo,
                   received, ui, clicks>>

\* The deleter attach gave the frontend; a session whose frontend was never made
\* has nothing to destroy.
DestroyTask ==
    /\ apartment = Idle /\ queue # <<>> /\ Head(queue).kind = "destroy"
    /\ queue' = Tail(queue)
    /\ LET c == Head(queue).of IN
       IF underlying[c] = "made"
       THEN /\ underlying' = [underlying EXCEPT ![c] = "gone"]
            /\ frontend' = frontend \ {c}
            /\ active' = IF active = c THEN NULL ELSE active
            /\ IF c \in ui THEN UNCHANGED instances ELSE Erase(c)
       ELSE UNCHANGED <<underlying, frontend, active, instances>>
    /\ UNCHANGED <<wireVars, aux, serverVars, release, sessionVars, accepting, apartment, todo,
                   received, ui, clicks>>

-----------------------------------------------------------------------------
(* The apartment: what the user does. *)

Click ==
    /\ apartment = Idle /\ clicks < MaxClicks
    /\ clicks' = clicks + 1

LoadSession(f) ==
    /\ Click /\ f \notin ToSet(instances)
    /\ instances' = Append(instances, f)
    /\ SetUi(f)
    /\ UNCHANGED <<wireVars, aux, serverVars, release, sessionVars, accepting, queue, apartment,
                   todo, received, underlying, frontend>>

OnUiActivated(i) ==
    /\ Click /\ i \in ui /\ active # i
    /\ active' = i
    /\ UNCHANGED <<wireVars, aux, serverVars, release, sessionVars, accepting, queue, apartment,
                   todo, received, underlying, instances, ui, frontend>>

OnUiClosed(i) ==
    /\ Click /\ i \in ui
    /\ active' = IF active = i THEN NULL ELSE active
    /\ apartment' = At("reset", NULL, NULL)
    /\ todo' = <<i>>
    /\ UNCHANGED <<wireVars, aux, serverVars, release, sessionVars, accepting, queue,
                   received, underlying, instances, ui, frontend>>

\* close_all, and ~frontend_manager in the end
CloseAll ==
    /\ Click /\ instances # <<>>
    /\ apartment' = At("close", NULL, NULL)
    /\ todo' = instances
    /\ UNCHANGED <<wireVars, aux, serverVars, release, sessionVars, accepting, queue,
                   received, underlying, managerVars>>

Resetting == apartment.at \in {"reset", "close", "quit"}

\* reset_entry: without a frontend the instance goes at once; a frontend is asked to
\* disconnect, through the outbound wrapper unless that was stopped.
ResetEntry ==
    /\ Resetting /\ todo # <<>>
    /\ LET i == Head(todo) IN
        /\ ui' = ui \ {i}
        /\ IF i \in frontend THEN UNCHANGED instances ELSE Erase(i)
        /\ apartment' = IF i \in frontend /\ out[i]
                        THEN At("outbound", i, apartment.at) ELSE apartment
    /\ todo' = Tail(todo)
    /\ UNCHANGED <<wireVars, aux, serverVars, release, sessionVars, accepting, queue,
                   received, underlying, frontend, active, clicks>>

\* socket_handler::disconnect, under the wrapper's lock: the id goes through the aux socket.
OutboundDisconnect ==
    /\ apartment.at = "outbound"
    /\ aux' = Append(aux, apartment.of)
    /\ apartment' = At(apartment.then, NULL, NULL)
    /\ UNCHANGED <<wireVars, serverVars, release, sessionVars, accepting, queue, todo,
                   received, underlying, managerVars, clicks>>

ResetDone ==
    /\ Resetting /\ todo = <<>>
    /\ apartment' = IF apartment.at = "quit" THEN At("done", NULL, NULL) ELSE Idle
    /\ active' = IF apartment.at = "close" THEN NULL ELSE active
    /\ UNCHANGED <<wireVars, aux, serverVars, release, sessionVars, accepting, queue,
                   todo, received, underlying, instances, ui, frontend, clicks>>

-----------------------------------------------------------------------------
(* The apartment: the server is started, restarted and stopped. *)

\* The constructor of server: it listens, then connects its auxiliary socket to itself
\* (others may come first), then starts the thread.
Listen ==
    /\ apartment.at = "listen"
    /\ apartment' = At("connect_aux", NULL, NULL)
    /\ UNCHANGED <<wireVars, aux, serverVars, release, sessionVars, accepting, queue, todo,
                   received, underlying, managerVars, clicks>>

StartServer ==
    /\ apartment.at = "connect_aux"
    /\ backlog' = Append(backlog, "aux")
    /\ aux' = <<Magic>>
    /\ handlers' = <<"acceptor">>
    /\ kind' = [h \in DOMAIN kind |-> IF h = "acceptor" THEN "accept_preinit" ELSE "none"]
    /\ thread' = "select"
    /\ ready' = {}
    /\ apartment' = Idle
    /\ UNCHANGED <<remote, sent, wire, release, sessionVars, accepting, queue, todo,
                   received, underlying, managerVars, clicks>>

\* enable_remote_sockets: the old server is destroyed before the new one is made.
EnableRemoteSockets ==
    /\ Click
    /\ aux' = Append(aux, Stop)
    /\ apartment' = At("join", NULL, "listen")
    /\ UNCHANGED <<wireVars, serverVars, release, sessionVars, accepting, queue, todo,
                   received, underlying, managerVars>>

\* ~ipc_manager: the marshalled server makes no more sessions, then the server goes.
StopAccepting ==
    /\ apartment = Idle
    /\ accepting' = FALSE
    /\ apartment' = At("stop", NULL, NULL)
    /\ UNCHANGED <<wireVars, aux, serverVars, release, sessionVars, queue, todo,
                   received, underlying, managerVars, clicks>>

StopServer ==
    /\ apartment.at = "stop"
    /\ aux' = Append(aux, Stop)
    /\ apartment' = At("join", NULL, "quit")
    /\ UNCHANGED <<wireVars, serverVars, release, sessionVars, accepting, queue, todo,
                   received, underlying, managerVars, clicks>>

\* The thread was joined: the handlers are destroyed, now by the apartment.
DestroyHandlers ==
    /\ apartment.at = "join" /\ thread = "ended" /\ release = NULL /\ handlers # <<>>
    /\ handlers' = Tail(handlers)
    /\ IF Head(handlers) \in Clients
       THEN Destroy(Head(handlers), "apartment")
       ELSE UNCHANGED release
    /\ UNCHANGED <<wireVars, aux, kind, thread, ready, sessionVars, accepting, queue,
                   apartment, todo, received, underlying, managerVars, clicks>>

\* The server is gone; connections nobody accepted are refused.
ServerGone ==
    /\ apartment.at = "join" /\ thread = "ended" /\ release = NULL /\ handlers = <<>>
    /\ backlog' = <<>>
    /\ remote' = [c \in Clients |-> IF c \in ToSet(backlog) THEN "gone" ELSE remote[c]]
    /\ aux' = <<>>
    /\ apartment' = At(apartment.then, NULL, NULL)
    /\ todo' = IF apartment.then = "quit" THEN instances ELSE <<>>
    /\ UNCHANGED <<sent, wire, serverVars, release, sessionVars, accepting, queue,
                   received, underlying, managerVars, clicks>>

\* The application has ended, or crashed.
Finished == apartment.at \in {"done", "crashed"} /\ UNCHANGED vars

-----------------------------------------------------------------------------
ThreadStep ==
    \/ Select \/ AcceptPreinit \/ AcceptRegular \/ HandleAux
    \/ \E h \in Clients \cup {"aux"} : HandlePreinit(h)
    \/ \E c \in Clients : SessionMessage(c) \/ SessionDisconnect(c) \/ NullSession(c)

ReleaseStep == ReleaseSession \/ ReleaseOutbound \/ ReleaseSocket

\* What the apartment does by itself once it is asked to.
ApartmentStep ==
    \/ BeginTask \/ EndTask \/ DestroyTask
    \/ ResetEntry \/ OutboundDisconnect \/ ResetDone
    \/ Listen \/ StartServer \/ StopServer \/ DestroyHandlers \/ ServerGone

UserStep ==
    \/ \E f \in Files : LoadSession(f)
    \/ \E i \in Clients \cup Files : OnUiActivated(i) \/ OnUiClosed(i)
    \/ CloseAll \/ EnableRemoteSockets \/ StopAccepting

RemoteStep == \E c \in Clients : Connect(c) \/ Send(c) \/ Leave(c) \/ Dropped(c)

Next ==
    \/ ThreadStep \/ ReleaseStep \/ ApartmentStep
    \/ UserStep \/ RemoteStep
    \/ Finished

\* The two threads are run by the system; users and processes may stop at any time.
Fairness ==
    /\ WF_vars(ThreadStep)
    /\ WF_vars(ReleaseStep)
    /\ WF_vars(ApartmentStep)

Spec == Init /\ [][Next]_vars /\ Fairness
-----------------------------------------------------------------------------
(* Properties *)

\* How many tasks of a kind wait for a connection.
Queued(k, c) == Cardinality({n \in 1 .. Len(queue) : queue[n] = Task(k, c)})

\* A message the apartment is in the middle of.
InHand(c) == IF apartment = At("task", c, "message") THEN 1 ELSE 0

\* While the session of a connection lives, whatever its client sent is still on the wire, in
\* the apartment's queue, in hand or was given to its frontend, even when it came before the
\* frontend was made or before the server could tell the connection from its own auxiliary one.
MessagesConserved ==
    \A c \in Clients : alive[c] =>
        sent[c] = wire[c] + Queued("message", c) + InHand(c) + received[c]

\* The apartment never calls out through a handler whose socket was closed, although the
\* server's thread destroys handlers at any time.
OutboundIsOpen == apartment.at = "outbound" => socket[apartment.of]

\* A task of a session runs only while the session exists and after its frontend was made.
TaskHasSession ==
    apartment.at = "task" =>
        /\ alive[apartment.of]
        /\ apartment.then # "create" => underlying[apartment.of] = "made"

\* The apartment is not in the middle of closing windows, and the manager still exists.
Settled == ~Resetting /\ apartment.at \notin {"outbound", "done"}

\* Windows, frontends and the list agree between two steps of the user: an instance is listed
\* exactly as long as it has a window or a frontend, and the active one has a window.
InstancesAgree ==
    /\ IsInjective(instances)
    /\ Settled => ToSet(instances) = ui \cup frontend
    /\ Settled /\ active # NULL => active \in ui
    /\ frontend = {c \in Clients : underlying[c] = "made"}

\* A null session is called only when a connection is accepted while the application ends.
NullOnlyWhenStopping == apartment.at = "crashed" => ~accepting

\* Neither thread uses what the other has freed: a socket, a session or its
\* frontend, and but for connections accepted while the application ends
\* every connection has a session.
NothingFreedInUse == OutboundIsOpen /\ TaskHasSession /\ NullOnlyWhenStopping

\* The server's thread ends only when it is told to: until then it serves every connection.
ServesUntilStopped == thread = "ended" => apartment.at \in {"listen", "connect_aux", "join", "quit", "done", "crashed"}
=============================================================================
