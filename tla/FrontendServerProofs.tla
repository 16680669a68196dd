-------------------------- MODULE FrontendServerProofs --------------------------
(***************************************************************************)
(* Proofs about the server of the frontend, its marshalled sessions and    *)
(* the list of instances, for any set of connections and files and any     *)
(* number of messages and clicks: neither thread uses what the other has   *)
(* freed, no message of a live session is lost, and windows, frontends and *)
(* the list of instances agree.                                            *)
(***************************************************************************)
EXTENDS FrontendServer, TLAPS, SequenceTheorems, FiniteSetTheorems

Handlers == Clients \cup {"acceptor", "aux"}
Instances == Clients \cup Files
TaskKinds == {"create", "message", "disconnect", "destroy"}
Tasks == [kind : TaskKinds, of : Clients]
Places == {"idle", "task", "reset", "close", "quit", "outbound", "listen", "connect_aux", "stop", "join",
           "done", "crashed"}

-----------------------------------------------------------------------------
(* The server's side.                                                      *)

ServerTyped ==
    /\ remote \in [Clients -> {"none", "connected", "gone"}]
    /\ backlog \in Seq(Clients \cup {"aux"})
    /\ aux \in Seq(Clients \cup {Magic, Stop})
    /\ handlers \in Seq(Handlers)
    /\ kind \in [Handlers -> {"none", "accept_preinit", "accept_regular", "preinit", "aux", "session"}]
    /\ thread \in {"select", "dispatch", "ended"}
    /\ release \in Release \cup {NULL}
    /\ alive \in [Clients -> BOOLEAN]
    /\ out \in [Clients -> BOOLEAN]
    /\ socket \in [Clients -> BOOLEAN]
    /\ accepting \in BOOLEAN

\* What the apartment does and for whom.
ApartmentTyped ==
    /\ apartment \in [at : Places, of : Clients \cup {NULL}, then : TaskKinds \cup Places \cup {NULL}]
    /\ apartment.at = "task" => apartment.of \in Clients /\ apartment.then \in {"create", "message", "disconnect"}
    /\ apartment.at = "outbound" => apartment.of \in Clients /\ apartment.then \in {"reset", "close", "quit"}
    /\ apartment.at = "join" => apartment.then \in {"listen", "quit"}

\* The handler being destroyed is that of c, and this much is left to do.
Releasing(c, stages) == release # NULL /\ release.of = c /\ release.stage \in stages

\* A connection waits to be accepted, has one handler or is being destroyed.
OnePlace ==
    /\ IsInjective(backlog)
    /\ IsInjective(handlers)
    /\ ToSet(backlog) \cap ToSet(handlers) = {}
    /\ release # NULL => release.of \notin ToSet(backlog) \cup ToSet(handlers)
    /\ \A c \in Clients : remote[c] = "none" => c \notin ToSet(backlog) \cup ToSet(handlers) /\ ~Releasing(c, {"session", "outbound", "socket"})

\* select reported handlers that are still there and have something to read.
ReadyListed ==
    /\ ready \subseteq ToSet(handlers)
    /\ thread = "ended" => ready = {}
    /\ "acceptor" \in ready => backlog # <<>>
    /\ "aux" \in ready => aux # <<>>

\* Until the auxiliary connection said the magic no connection has a session.
Phase ==
    /\ \A c \in Clients : c \in ToSet(handlers) => kind[c] \in {"preinit", "session"}
    /\ kind["acceptor"] = "accept_preinit" => \A c \in Clients : c \in ToSet(handlers) => kind[c] = "preinit"
    /\ kind["aux"] = "preinit" => kind["acceptor"] = "accept_preinit"
    /\ kind["acceptor"] = "accept_regular" => "aux" \notin ToSet(backlog)

\* What lives when: the session and its wrapper while their handler is listed
\* or on its way through the destructor, the socket longest.
Lifetimes == \A c \in Clients :
    /\ c \in ToSet(handlers) => socket[c]
    /\ Releasing(c, {"session", "outbound", "socket"}) => socket[c]
    /\ alive[c] => (c \in ToSet(handlers) /\ kind[c] = "session") \/ Releasing(c, {"session"})
    /\ out[c] => (c \in ToSet(handlers) /\ kind[c] = "session") \/ Releasing(c, {"session", "outbound"})
    /\ accepting /\ c \in ToSet(handlers) /\ kind[c] = "session" => alive[c]

Quitting == apartment.at \in {"quit", "done"} \/ (apartment.at = "outbound" /\ apartment.then = "quit")

\* Where the apartment is, and what that says about the server.
Course ==
    /\ Quitting \/ apartment.at \in {"listen", "connect_aux"} =>
          handlers = <<>> /\ thread = "ended" /\ release = NULL /\ "aux" \notin ToSet(backlog)
    /\ ~accepting => Quitting \/ apartment.at \in {"stop", "crashed"} \/ (apartment.at = "join" /\ apartment.then = "quit")
    /\ apartment.at = "crashed" => ~accepting

\* The apartment is inside a session or a wrapper only while that lives.
Inside ==
    /\ apartment.at = "task" => alive[apartment.of]
    /\ apartment.at = "outbound" => out[apartment.of]

ServerInv == ServerTyped /\ ApartmentTyped /\ OnePlace /\ ReadyListed /\ Phase /\ Lifetimes /\ Course /\ Inside

-----------------------------------------------------------------------------
(* The tasks of the apartment.                                             *)

TasksTyped ==
    /\ queue \in Seq(Tasks)
    /\ underlying \in [Clients -> {"none", "made", "gone"}]
    /\ sent \in [Clients -> Nat]
    /\ wire \in [Clients -> Nat]
    /\ received \in [Clients -> Nat]

Waits(k, c) == \E n \in 1..Len(queue) : queue[n] = Task(k, c)

\* The frontend of c is being made.
Making(c) == apartment.at = "task" /\ apartment.of = c /\ apartment.then = "create"

\* Nothing was done yet for connection c.
Fresh(c) ==
    /\ ~alive[c] /\ ~out[c]
    /\ underlying[c] = "none" /\ received[c] = 0 /\ sent[c] = wire[c]
    /\ \A k \in TaskKinds : ~Waits(k, c)

\* A connection that has no session yet.
Before(c) == remote[c] = "none" \/ c \in ToSet(backlog) \/ (c \in ToSet(handlers) /\ kind[c] = "preinit")

FreshBefore == \A c \in Clients : Before(c) => Fresh(c)

\* Connection c is done with: the server has nothing of it left.
Detached(c) == ~Before(c) /\ c \notin ToSet(handlers) /\ ~Releasing(c, {"session", "outbound", "socket"})

\* The task that makes the frontend of c is on the queue at most once ...
OneCreate(c) == \A j, k \in 1..Len(queue) : queue[j] = Task("create", c) /\ queue[k] = Task("create", c) => j = k

\* ... and while there is no frontend it comes before the session's other tasks.
CreateFirst(c) ==
    alive[c] /\ underlying[c] = "none" /\ ~Making(c) =>
        \E j \in 1..Len(queue) : /\ queue[j] = Task("create", c)
                                 /\ \A i \in 1..(j - 1) : queue[i].of # c

\* The frontend is made once, before anything else is done for the session,
\* and destroyed after it.
MadeFirst == \A c \in Clients :
    /\ alive[c] => underlying[c] # "gone"
    /\ Waits("create", c) => underlying[c] = "none" /\ ~Making(c)
    /\ Making(c) => underlying[c] = "none"
    /\ OneCreate(c)
    /\ CreateFirst(c)
    /\ Waits("destroy", c) => Detached(c)
    /\ apartment.at = "task" /\ apartment.of = c /\ ~Making(c) => underlying[c] = "made"

TaskInv == TasksTyped /\ FreshBefore /\ MadeFirst

-----------------------------------------------------------------------------
(* The list of instances.                                                  *)

\* The apartment closes a single window.
Closing == apartment.at = "reset" \/ (apartment.at = "outbound" /\ apartment.then = "reset")

ListInv ==
    /\ instances \in Seq(Instances)
    /\ IsInjective(instances)
    /\ todo \in Seq(Instances)
    /\ ui \subseteq Instances
    /\ ToSet(instances) = ui \cup frontend
    /\ frontend = {c \in Clients : underlying[c] = "made"}
    /\ \A c \in Clients : c \in ui => underlying[c] # "none"
    /\ Settled /\ active # NULL => active \in ui
    /\ Closing /\ active # NULL => active \in ui /\ active \notin ToSet(todo)

IInv == ServerInv /\ TaskInv /\ ListInv /\ MessagesConserved

-----------------------------------------------------------------------------
(* Lists without repetitions.                                              *)

LEMMA ToSetFacts ==
    ASSUME NEW S, NEW s \in Seq(S)
    PROVE  /\ \A x : x \in ToSet(s) <=> \E i \in 1..Len(s) : s[i] = x
           /\ ToSet(s) \subseteq S
           /\ DOMAIN s = 1..Len(s) /\ Len(s) \in Nat
  <1>1. DOMAIN s = 1..Len(s) /\ Len(s) \in Nat
    BY LenProperties
  <1>2. \A i \in 1..Len(s) : s[i] \in S
    BY ElementOfSeq
  <1> QED BY <1>1, <1>2 DEF ToSet

LEMMA EmptyList ==
    /\ ToSet(<<>>) = {} /\ IsInjective(<<>>)
    /\ \A S : \A s \in Seq(S) : ToSet(s) = {} => s = <<>>
  <1>1. DOMAIN <<>> = {}
    OBVIOUS
  <1>2. ToSet(<<>>) = {} /\ IsInjective(<<>>)
    BY <1>1 DEF ToSet, IsInjective
  <1>3. ASSUME NEW S, NEW s \in Seq(S), ToSet(s) = {} PROVE s = <<>>
    <2>1. Len(s) \in Nat /\ ~(\E i \in 1..Len(s) : s[i] = s[1])
      BY <1>3, ToSetFacts
    <2>2. ~(Len(s) >= 1)
      BY <2>1
    <2>3. Len(s) = 0
      BY <2>1, <2>2
    <2> QED BY <2>3, EmptySeq
  <1> QED BY <1>2, <1>3

LEMMA AppendedList ==
    ASSUME NEW S, NEW s \in Seq(S), NEW x \in S
    PROVE  /\ Append(s, x) \in Seq(S) /\ ToSet(Append(s, x)) = ToSet(s) \cup {x}
           /\ IsInjective(s) /\ x \notin ToSet(s) => IsInjective(Append(s, x))
           /\ Append(s, x) # <<>>
  <1>1. PICK t \in Seq(S) : t = Append(s, x)
    BY AppendProperties
  <1>2. /\ Len(t) = Len(s) + 1 /\ t[Len(s) + 1] = x
        /\ \A i \in 1..Len(s) : t[i] = s[i]
    BY <1>1, AppendProperties
  <1>3. Len(s) \in Nat /\ DOMAIN t = 1..(Len(s) + 1) /\ DOMAIN s = 1..Len(s)
    BY <1>2, ToSetFacts
  <1>4. \A i \in 1..(Len(s) + 1) : i \in 1..Len(s) \/ i = Len(s) + 1
    BY <1>3
  <1>5. ToSet(t) = ToSet(s) \cup {x}
    <2>1. \A y : y \in ToSet(t) <=> \E i \in 1..(Len(s) + 1) : t[i] = y
      BY <1>2, ToSetFacts
    <2>2. \A y : y \in ToSet(s) <=> \E i \in 1..Len(s) : s[i] = y
      BY ToSetFacts
    <2>3. \A i \in 1..Len(s) : i \in 1..(Len(s) + 1)
      BY <1>3
    <2>4. Len(s) + 1 \in 1..(Len(s) + 1)
      BY <1>3
    <2> QED BY <2>1, <2>2, <2>3, <2>4, <1>2, <1>4
  <1>6. ASSUME IsInjective(s), x \notin ToSet(s) PROVE IsInjective(t)
    <2>1. \A i \in 1..Len(s) : s[i] # x
      BY <1>6, ToSetFacts
    <2> QED BY <1>2, <1>3, <1>4, <1>6, <2>1 DEF IsInjective
  <1>7. t # <<>>
    BY <1>2, <1>3, EmptySeq
  <1> QED BY <1>1, <1>5, <1>6, <1>7

LEMMA TailList ==
    ASSUME NEW S, NEW s \in Seq(S), s # <<>>
    PROVE  /\ Tail(s) \in Seq(S) /\ Head(s) \in ToSet(s) /\ Head(s) \in S /\ Head(s) = s[1]
           /\ ToSet(Tail(s)) \subseteq ToSet(s)
           /\ Len(Tail(s)) = Len(s) - 1 /\ Len(s) \in Nat /\ Len(s) >= 1
           /\ \A i \in 1..(Len(s) - 1) : Tail(s)[i] = s[i + 1]
           /\ IsInjective(s) => IsInjective(Tail(s)) /\ ToSet(Tail(s)) = ToSet(s) \ {Head(s)}
  <1>1. PICK t \in Seq(S) : t = Tail(s)
    BY HeadTailProperties
  <1>2. PICK n \in Nat : n = Len(s)
    BY LenProperties
  <1>3. n >= 1
    BY <1>2, EmptySeq
  <1>4. /\ Len(t) = n - 1 /\ Head(s) = s[1]
        /\ \A i \in 1..(n - 1) : t[i] = s[i + 1]
    BY <1>1, <1>2, HeadTailProperties
  <1>5. DOMAIN s = 1..n /\ DOMAIN t = 1..(n - 1) /\ 1 \in 1..n
    BY <1>2, <1>3, <1>4, ToSetFacts
  <1>6. Head(s) \in ToSet(s) /\ Head(s) \in S
    BY <1>2, <1>4, <1>5, ToSetFacts
  <1>7. ToSet(t) \subseteq ToSet(s)
    <2> SUFFICES ASSUME NEW y \in ToSet(t) PROVE y \in ToSet(s)
      OBVIOUS
    <2>1. PICK i \in 1..(n - 1) : t[i] = y
      BY <1>4, ToSetFacts
    <2>2. i + 1 \in 1..n /\ s[i + 1] = y
      BY <2>1, <1>4
    <2> QED BY <2>2, <1>2, ToSetFacts
  <1>8. ASSUME IsInjective(s) PROVE IsInjective(t) /\ ToSet(t) = ToSet(s) \ {Head(s)}
    <2>1. \A i \in 1..(n - 1) : i + 1 \in 1..n /\ i + 1 # 1
      BY <1>3
    <2>2. \A i, j \in 1..n : s[i] = s[j] => i = j
      BY <1>5, <1>8 DEF IsInjective
    <2>3. \A i, j \in 1..(n - 1) : t[i] = t[j] => i = j
      <3> SUFFICES ASSUME NEW i \in 1..(n - 1), NEW j \in 1..(n - 1), t[i] = t[j] PROVE i = j
        OBVIOUS
      <3>1. s[i + 1] = s[j + 1]
        BY <1>4
      <3>2. i + 1 = j + 1
        BY <2>1, <2>2, <3>1
      <3> QED BY <3>2
    <2>4. IsInjective(t)
      BY <2>3, <1>5 DEF IsInjective
    <2>5. Head(s) \notin ToSet(t)
      <3>1. \A i \in 1..(n - 1) : t[i] # s[1]
        BY <1>4, <1>5, <2>1, <2>2
      <3> QED BY <3>1, <1>4, ToSetFacts
    <2>6. ASSUME NEW y \in ToSet(s), y # Head(s) PROVE y \in ToSet(t)
      <3>1. PICK i \in 1..n : s[i] = y
        BY <1>2, ToSetFacts
      <3>2. i # 1
        BY <2>6, <3>1, <1>4
      <3>3. i - 1 \in 1..(n - 1) /\ (i - 1) + 1 = i
        BY <3>2
      <3>4. t[i - 1] = y
        BY <3>1, <3>3, <1>4
      <3> QED BY <3>3, <3>4, <1>4, ToSetFacts
    <2> QED BY <2>4, <2>5, <2>6, <1>7
  <1> QED BY <1>1, <1>2, <1>3, <1>4, <1>6, <1>7, <1>8

LEMMA RemovedAt ==
    ASSUME NEW S, NEW s \in Seq(S), NEW k \in 1..Len(s), IsInjective(s)
    PROVE  /\ RemoveAt(s, k) \in Seq(S) /\ IsInjective(RemoveAt(s, k))
           /\ ToSet(RemoveAt(s, k)) = ToSet(s) \ {s[k]}
  <1>1. PICK n \in Nat : n = Len(s)
    BY LenProperties
  <1>2. PICK a \in Seq(S) : a = SubSeq(s, 1, k - 1) /\ Len(a) = k - 1 /\ \A i \in 1..(k - 1) : a[i] = s[i]
    <2>1. \A i \in 1..(k - 1) : s[i] \in S
      BY <1>1, ElementOfSeq
    <2>2. k - 1 \in Int /\ (1 <= k - 1 \/ k - 1 = 0)
      BY <1>1
    <2>3. /\ SubSeq(s, 1, k - 1) \in Seq(S) /\ Len(SubSeq(s, 1, k - 1)) = k - 1
          /\ \A i \in 1..(k - 1) : SubSeq(s, 1, k - 1)[i] = s[i]
      BY <2>1, <2>2, SubSeqProperties
    <2> QED BY <2>3
  <1>3. PICK b \in Seq(S) : b = SubSeq(s, k + 1, n) /\ Len(b) = n - k /\ \A i \in 1..(n - k) : b[i] = s[k + i]
    <2>1. \A i \in (k + 1)..n : s[i] \in S
      BY <1>1, ElementOfSeq
    <2>2. /\ SubSeq(s, k + 1, n) \in Seq(S) /\ Len(SubSeq(s, k + 1, n)) = n - k
          /\ \A i \in 1..(n - k) : SubSeq(s, k + 1, n)[i] = s[k + i]
      BY <2>1, <1>1, SubSeqProperties
    <2> QED BY <2>2
  <1>4. PICK t \in Seq(S) : t = a \o b
    BY ConcatProperties
  <1>5. RemoveAt(s, k) = t
    BY <1>1, <1>2, <1>3, <1>4 DEF RemoveAt
  <1>6. /\ Len(t) = n - 1
        /\ \A i \in 1..(n - 1) : t[i] = IF i <= k - 1 THEN a[i] ELSE b[i - (k - 1)]
    <2>1. (k - 1) + (n - k) = n - 1
      BY <1>1
    <2>2. /\ Len(t) = Len(a) + Len(b)
          /\ \A i \in 1..(Len(a) + Len(b)) : t[i] = IF i <= Len(a) THEN a[i] ELSE b[i - Len(a)]
      BY <1>4, ConcatProperties
    <2> QED BY <2>1, <2>2, <1>2, <1>3
  <1>7. \A i \in 1..(n - 1) : t[i] = IF i <= k - 1 THEN s[i] ELSE s[i + 1]
    <2> SUFFICES ASSUME NEW i \in 1..(n - 1) PROVE t[i] = IF i <= k - 1 THEN s[i] ELSE s[i + 1]
      OBVIOUS
    <2>1. CASE i <= k - 1
      <3>1. i \in 1..(k - 1)
        BY <2>1
      <3>2. t[i] = a[i] /\ a[i] = s[i]
        BY <2>1, <3>1, <1>2, <1>6
      <3> QED BY <2>1, <3>2
    <2>2. CASE ~(i <= k - 1)
      <3>1. i - (k - 1) \in 1..(n - k) /\ k + (i - (k - 1)) = i + 1
        BY <2>2, <1>1
      <3> QED BY <2>2, <3>1, <1>3, <1>6
    <2> QED BY <2>1, <2>2
  <1>8. DOMAIN s = 1..n /\ DOMAIN t = 1..(n - 1)
    BY <1>1, <1>6, ToSetFacts
  <1>9. \A i, j \in 1..n : s[i] = s[j] => i = j
    BY <1>8 DEF IsInjective
  <1>10. IsInjective(t)
    <2> SUFFICES ASSUME NEW i \in 1..(n - 1), NEW j \in 1..(n - 1), t[i] = t[j] PROVE i = j
      BY <1>8 DEF IsInjective
    <2>1. i \in 1..n /\ j \in 1..n /\ i + 1 \in 1..n /\ j + 1 \in 1..n
      OBVIOUS
    <2> QED BY <2>1, <1>1, <1>7, <1>9
  <1>11. ToSet(t) = ToSet(s) \ {s[k]}
    <2>1. ASSUME NEW y \in ToSet(t) PROVE y \in ToSet(s) /\ y # s[k]
      <3>1. PICK i \in 1..(n - 1) : t[i] = y
        BY <1>6, ToSetFacts
      <3>2. PICK j \in 1..n : (i <= k - 1 /\ j = i) \/ (~(i <= k - 1) /\ j = i + 1)
        <4>1. i \in 1..n /\ i + 1 \in 1..n
          BY <1>1
        <4> QED BY <4>1
      <3>3. j # k
        BY <3>2, <1>1
      <3>4. s[j] = y
        BY <3>1, <3>2, <1>7
      <3> QED BY <3>3, <3>4, <1>1, <1>9, ToSetFacts
    <2>2. ASSUME NEW y \in ToSet(s), y # s[k] PROVE y \in ToSet(t)
      <3>1. PICK j \in 1..n : s[j] = y
        BY <1>1, ToSetFacts
      <3>2. j # k
        BY <2>2, <3>1
      <3>3. PICK i \in 1..(n - 1) : (j < k /\ i = j) \/ (j > k /\ i = j - 1)
        <4>1. j < k => j \in 1..(n - 1)
          BY <1>1
        <4>2. j > k => j - 1 \in 1..(n - 1)
          BY <1>1
        <4>3. j < k \/ j > k
          BY <3>2, <1>1
        <4> QED BY <4>1, <4>2, <4>3
      <3>4. t[i] = y
        <4>1. CASE j < k /\ i = j
          <5>1. i <= k - 1
            BY <4>1, <1>1
          <5> QED BY <4>1, <5>1, <3>1, <1>7
        <4>2. CASE j > k /\ i = j - 1
          <5>1. ~(i <= k - 1) /\ i + 1 = j
            BY <4>2, <1>1
          <5> QED BY <5>1, <3>1, <1>7
        <4> QED BY <3>3, <4>1, <4>2
      <3> QED BY <3>4, <1>6, ToSetFacts
    <2> QED BY <2>1, <2>2
  <1> QED BY <1>5, <1>10, <1>11

LEMMA RemovedList ==
    ASSUME NEW S, NEW s \in Seq(S), IsInjective(s), NEW e
    PROVE  /\ RemoveFirst(s, e) \in Seq(S) /\ IsInjective(RemoveFirst(s, e))
           /\ ToSet(RemoveFirst(s, e)) = ToSet(s) \ {e}
  <1>1. CASE \E i \in 1..Len(s) : s[i] = e
    <2>1. PICK k \in 1..Len(s) : s[k] = e
      BY <1>1
    <2>2. {i \in 1..Len(s) : s[i] = e} = {k}
      BY <2>1, LenProperties DEF IsInjective
    <2>3. Min({k}) = k
      BY LenProperties DEF Min
    <2>4. RemoveFirst(s, e) = RemoveAt(s, k)
      BY <1>1, <2>2, <2>3 DEF RemoveFirst, SelectInSeq
    <2> QED BY <2>1, <2>4, RemovedAt
  <1>2. CASE ~ \E i \in 1..Len(s) : s[i] = e
    <2>1. RemoveFirst(s, e) = s
      BY <1>2 DEF RemoveFirst
    <2>2. e \notin ToSet(s)
      BY <1>2, ToSetFacts
    <2> QED BY <2>1, <2>2
  <1> QED BY <1>1, <1>2

-----------------------------------------------------------------------------
(* The server's side: what leaves it alone.                                *)

serverSide == <<remote, backlog, aux, serverVars, release, sessionVars, accepting, apartment>>

LEMMA ServerSame ==
    ASSUME ServerInv, UNCHANGED serverSide
    PROVE  ServerInv'
  <1>1. /\ remote' = remote /\ backlog' = backlog /\ aux' = aux /\ handlers' = handlers /\ kind' = kind
        /\ thread' = thread /\ ready' = ready /\ release' = release /\ alive' = alive /\ out' = out
        /\ socket' = socket /\ accepting' = accepting /\ apartment' = apartment
    BY DEF serverSide, serverVars, sessionVars
  <1>2. ServerTyped' /\ ApartmentTyped'
    BY <1>1, Zenon DEF ServerInv, ServerTyped, ApartmentTyped
  <1>3. OnePlace' /\ Phase' /\ Lifetimes'
    BY <1>1, Zenon DEF ServerInv, OnePlace, Releasing, Phase, Lifetimes
  <1>4. ReadyListed' /\ Inside' /\ Course'
    BY <1>1, Zenon DEF ServerInv, ReadyListed, Inside, Course, Quitting
  <1> QED BY <1>2, <1>3, <1>4 DEF ServerInv

\* Only the apartment goes on; it may write to the auxiliary socket.
ApartmentMove ==
    /\ UNCHANGED <<remote, backlog, serverVars, release, sessionVars>>
    /\ aux' \in Seq(Clients \cup {Magic, Stop})
    /\ aux' = aux \/ aux' # <<>>
    /\ accepting' \in BOOLEAN
    /\ accepting' => accepting
    /\ ApartmentTyped' /\ Course' /\ Inside'

LEMMA ApartmentMoves ==
    ASSUME ServerInv, ApartmentMove
    PROVE  ServerInv'
  <1>1. /\ remote' = remote /\ backlog' = backlog /\ handlers' = handlers /\ kind' = kind
        /\ thread' = thread /\ ready' = ready /\ release' = release /\ alive' = alive /\ out' = out
        /\ socket' = socket
    BY DEF ApartmentMove, serverVars, sessionVars
  <1>2. ServerTyped'
    BY <1>1 DEF ApartmentMove, ServerInv, ServerTyped
  <1>3. OnePlace'
    BY <1>1, Zenon DEF ServerInv, OnePlace, Releasing
  <1>4. ReadyListed'
    BY <1>1 DEF ServerInv, ReadyListed, ApartmentMove
  <1>5. Phase'
    BY <1>1, Zenon DEF ServerInv, Phase
  <1>6. Lifetimes'
    BY <1>1 DEF ServerInv, Lifetimes, Releasing, ApartmentMove
  <1> QED BY <1>2, <1>3, <1>4, <1>5, <1>6 DEF ServerInv, ApartmentMove

\* Only the pass of the server's thread goes on.
ThreadMove ==
    /\ UNCHANGED <<remote, backlog, aux, handlers, kind, release, sessionVars, accepting, apartment>>
    /\ thread # "ended" /\ thread' \in {"select", "dispatch"}
    /\ ready' \subseteq ToSet(handlers)
    /\ "acceptor" \in ready' => backlog # <<>>
    /\ "aux" \in ready' => aux # <<>>

LEMMA ThreadMoves ==
    ASSUME ServerInv, ThreadMove
    PROVE  ServerInv'
  <1>1. /\ remote' = remote /\ backlog' = backlog /\ aux' = aux /\ handlers' = handlers /\ kind' = kind
        /\ release' = release /\ alive' = alive /\ out' = out
        /\ socket' = socket /\ accepting' = accepting /\ apartment' = apartment
    BY DEF ThreadMove, sessionVars
  <1>2. ServerTyped'
    BY <1>1 DEF ThreadMove, ServerInv, ServerTyped
  <1>3. OnePlace' /\ Phase' /\ Lifetimes' /\ ApartmentTyped' /\ Inside'
    BY <1>1, Zenon DEF ServerInv, OnePlace, Releasing, Phase, Lifetimes, ApartmentTyped, Inside
  <1>4. ReadyListed'
    BY <1>1 DEF ServerInv, ReadyListed, ThreadMove
  <1>5. Course'
    BY <1>1 DEF ServerInv, Course, Quitting, ThreadMove
  <1> QED BY <1>2, <1>3, <1>4, <1>5 DEF ServerInv

-----------------------------------------------------------------------------
(* The server's side: connections come and go.                             *)

LEMMA ConnectServer ==
    ASSUME ServerInv, NEW c \in Clients, Connect(c)
    PROVE  ServerInv'
  <1>1. /\ aux' = aux /\ handlers' = handlers /\ kind' = kind
        /\ thread' = thread /\ ready' = ready /\ release' = release /\ alive' = alive /\ out' = out
        /\ socket' = socket /\ accepting' = accepting /\ apartment' = apartment
        /\ remote[c] = "none" /\ remote' = [remote EXCEPT ![c] = "connected"] /\ backlog' = Append(backlog, c)
    BY DEF Connect, serverVars, sessionVars
  <1>2. remote \in [Clients -> {"none", "connected", "gone"}] /\ backlog \in Seq(Clients \cup {"aux"})
    BY DEF ServerInv, ServerTyped
  <1>3. c \notin ToSet(backlog) \cup ToSet(handlers) /\ (release # NULL => release.of # c)
    <2>1. c \notin ToSet(backlog) \cup ToSet(handlers) /\ ~Releasing(c, {"session", "outbound", "socket"})
      BY <1>1 DEF ServerInv, OnePlace
    <2>2. release \in Release \cup {NULL}
      BY DEF ServerInv, ServerTyped
    <2> QED BY <2>1, <2>2 DEF Releasing, Release
  <1>4. /\ backlog' \in Seq(Clients \cup {"aux"}) /\ ToSet(backlog') = ToSet(backlog) \cup {c}
        /\ backlog' # <<>>
        /\ IsInjective(backlog) => IsInjective(backlog')
    BY <1>1, <1>2, <1>3, AppendedList
  <1>5. ServerTyped'
    BY <1>1, <1>2, <1>4 DEF ServerInv, ServerTyped
  <1>6. Clients \cap {"acceptor", "aux"} = {}
    BY FrontendServerAssumption
  <1>7. OnePlace'
    BY <1>1, <1>2, <1>3, <1>4 DEF ServerInv, OnePlace, Releasing
  <1>8. ReadyListed'
    BY <1>1, <1>4 DEF ServerInv, ReadyListed
  <1>9. Phase'
    BY <1>1, <1>4, <1>6 DEF ServerInv, Phase
  <1>10. Course'
    BY <1>1, <1>4, <1>6 DEF ServerInv, Course, Quitting
  <1>11. ApartmentTyped' /\ Lifetimes' /\ Inside'
    BY <1>1, Zenon DEF ServerInv, ApartmentTyped, Lifetimes, Releasing, Inside
  <1> QED BY <1>5, <1>7, <1>8, <1>9, <1>10, <1>11 DEF ServerInv

Gone(c) == Leave(c) \/ Dropped(c)

LEMMA GoneServer ==
    ASSUME ServerInv, NEW c \in Clients, Gone(c)
    PROVE  ServerInv'
  <1>1. /\ backlog' = backlog /\ aux' = aux /\ handlers' = handlers /\ kind' = kind
        /\ thread' = thread /\ ready' = ready /\ release' = release /\ alive' = alive /\ out' = out
        /\ socket' = socket /\ accepting' = accepting /\ apartment' = apartment
        /\ remote[c] = "connected" /\ remote' = [remote EXCEPT ![c] = "gone"]
    BY DEF Gone, Leave, Dropped, serverVars, sessionVars
  <1>2. ServerTyped'
    BY <1>1 DEF ServerInv, ServerTyped
  <1>3. \A d \in Clients : remote'[d] = "none" => remote[d] = "none"
    BY <1>1 DEF ServerInv, ServerTyped
  <1>4. OnePlace'
    BY <1>1, <1>3, Zenon DEF ServerInv, OnePlace, Releasing
  <1>5. ApartmentTyped' /\ Phase' /\ Lifetimes'
    BY <1>1, Zenon DEF ServerInv, ApartmentTyped, Phase, Lifetimes, Releasing
  <1>6. ReadyListed' /\ Inside'
    BY <1>1, Zenon DEF ServerInv, ReadyListed, Inside
  <1>7. Course'
    BY <1>1, Zenon DEF ServerInv, Course, Quitting
  <1> QED BY <1>2, <1>4, <1>5, <1>6, <1>7 DEF ServerInv

\* The turn of a handler: what is known of the server then.
LEMMA TurnFacts ==
    ASSUME ServerInv, NEW h, Turn(h)
    PROVE  /\ thread = "dispatch" /\ release = NULL /\ h \in ready /\ h \in ToSet(handlers) /\ h \in Handlers
           /\ ~Quitting /\ apartment.at \notin {"listen", "connect_aux"}
           /\ accepting \/ apartment.at \in {"stop", "crashed"} \/ (apartment.at = "join" /\ apartment.then = "quit")
  <1>1. thread = "dispatch" /\ release = NULL /\ h \in ready
    BY DEF Turn
  <1>2. h \in ToSet(handlers) /\ h \in Handlers
    BY <1>1, ToSetFacts DEF ServerInv, ServerTyped, ReadyListed
  <1> QED BY <1>1, <1>2 DEF ServerInv, Course

LEMMA ProceedFacts ==
    ASSUME NEW left, Proceed(left)
    PROVE  ready' = left /\ thread' \in {"select", "dispatch"}
  BY DEF Proceed

LEMMA AcceptPreinitServer ==
    ASSUME ServerInv, AcceptPreinit
    PROVE  ServerInv'
  <1>1. PICK n : n = Head(backlog)
    OBVIOUS
  <1>2. /\ remote' = remote /\ aux' = aux /\ release' = release /\ alive' = alive /\ out' = out
        /\ accepting' = accepting /\ apartment' = apartment
        /\ handlers' = Append(handlers, n) /\ kind' = [kind EXCEPT ![n] = "preinit"]
        /\ socket' = [c \in Clients |-> socket[c] \/ c = n]
        /\ backlog' = Tail(backlog)
        /\ kind["acceptor"] = "accept_preinit"
    BY <1>1 DEF AcceptPreinit
  <1>3. ready' = ready \ {"acceptor"} /\ thread' \in {"select", "dispatch"}
    BY ProceedFacts DEF AcceptPreinit
  <1>4. /\ thread = "dispatch" /\ release = NULL /\ "acceptor" \in ready
        /\ ~Quitting /\ apartment.at \notin {"listen", "connect_aux"}
    BY TurnFacts DEF AcceptPreinit
  <1>5. /\ backlog \in Seq(Clients \cup {"aux"}) /\ backlog # <<>> /\ IsInjective(backlog)
        /\ handlers \in Seq(Handlers) /\ IsInjective(handlers)
        /\ kind \in [Handlers -> {"none", "accept_preinit", "accept_regular", "preinit", "aux", "session"}]
    BY <1>4 DEF ServerInv, ServerTyped, ReadyListed, OnePlace
  <1>6. /\ n \in Clients \cup {"aux"} /\ n \in ToSet(backlog) /\ backlog' \in Seq(Clients \cup {"aux"})
        /\ IsInjective(backlog') /\ ToSet(backlog') = ToSet(backlog) \ {n}
    BY <1>1, <1>2, <1>5, TailList
  <1>7. n \in Handlers /\ n \notin ToSet(handlers) /\ n # "acceptor"
    BY <1>6, FrontendServerAssumption DEF ServerInv, OnePlace, Handlers
  <1>8. handlers' \in Seq(Handlers) /\ IsInjective(handlers') /\ ToSet(handlers') = ToSet(handlers) \cup {n}
    BY <1>2, <1>5, <1>7, AppendedList
  <1>9. /\ kind' \in [Handlers -> {"none", "accept_preinit", "accept_regular", "preinit", "aux", "session"}]
        /\ kind'[n] = "preinit" /\ \A h \in Handlers : h # n => kind'[h] = kind[h]
    BY <1>2, <1>5, <1>7
  <1>10. socket \in [Clients -> BOOLEAN]
    BY DEF ServerInv, ServerTyped
  <1>11. /\ socket' \in [Clients -> BOOLEAN]
         /\ \A c \in Clients : (socket[c] => socket'[c]) /\ (c = n => socket'[c])
    BY <1>2, <1>10
  <1>12. Clients \cap {"acceptor", "aux"} = {}
    BY FrontendServerAssumption
  <1>13. ServerTyped'
    BY <1>2, <1>3, <1>6, <1>8, <1>9, <1>11 DEF ServerInv, ServerTyped
  <1>14. OnePlace'
    BY <1>2, <1>4, <1>6, <1>7, <1>8 DEF ServerInv, OnePlace, Releasing
  <1>15. ReadyListed'
    BY <1>2, <1>3, <1>8 DEF ServerInv, ReadyListed
  <1>16. Phase'
    BY <1>2, <1>7, <1>8, <1>9, <1>12 DEF ServerInv, Phase, Handlers
  <1>17. Lifetimes'
    <2> SUFFICES ASSUME NEW c \in Clients
                 PROVE  /\ c \in ToSet(handlers') => socket'[c]
                        /\ alive[c] => c \in ToSet(handlers') /\ kind'[c] = "session"
                        /\ out[c] => c \in ToSet(handlers') /\ kind'[c] = "session"
                        /\ accepting /\ c \in ToSet(handlers') /\ kind'[c] = "session" => alive[c]
      BY <1>2, <1>4 DEF Lifetimes, Releasing
    <2>1. /\ c \in ToSet(handlers) => socket[c]
          /\ alive[c] => c \in ToSet(handlers) /\ kind[c] = "session"
          /\ out[c] => c \in ToSet(handlers) /\ kind[c] = "session"
          /\ accepting /\ c \in ToSet(handlers) /\ kind[c] = "session" => alive[c]
      BY <1>4 DEF ServerInv, Lifetimes, Releasing
    <2> QED BY <2>1, <1>7, <1>8, <1>9, <1>11 DEF Handlers
  <1>18. ApartmentTyped' /\ Inside'
    BY <1>2, Zenon DEF ServerInv, ApartmentTyped, Inside
  <1>19. Course'
    BY <1>2, <1>4 DEF ServerInv, Course, Quitting
  <1> QED BY <1>13, <1>14, <1>15, <1>16, <1>17, <1>18, <1>19 DEF ServerInv

LEMMA CreatedFacts ==
    ASSUME ServerInv, NEW cs, CreateSession(cs)
    PROVE  /\ alive' \in [Clients -> BOOLEAN] /\ out' \in [Clients -> BOOLEAN]
           /\ \A c \in Clients : alive'[c] <=> alive[c] \/ (accepting /\ c \in ToSet(cs))
           /\ \A c \in Clients : out'[c] <=> out[c] \/ (accepting /\ c \in ToSet(cs))
  <1>1. alive \in [Clients -> BOOLEAN] /\ out \in [Clients -> BOOLEAN]
    BY DEF ServerInv, ServerTyped
  <1>2. CASE accepting
    BY <1>1, <1>2 DEF CreateSession
  <1>3. CASE ~accepting
    <2>1. alive' = alive /\ out' = out
      BY <1>3 DEF CreateSession
    <2> QED BY <2>1, <1>1, <1>3
  <1> QED BY <1>2, <1>3

\* The connections HandlePreinit makes sessions for.
Accepted == RemoveFirst(RemoveFirst(handlers, "acceptor"), "aux")

LEMMA AcceptedFacts ==
    ASSUME ServerInv
    PROVE  /\ Accepted \in Seq(Clients) /\ IsInjective(Accepted)
           /\ \A c \in Clients : c \in ToSet(Accepted) <=> c \in ToSet(handlers)
           /\ ToSet(Accepted) \subseteq Clients
  <1>1. handlers \in Seq(Handlers) /\ IsInjective(handlers)
    BY DEF ServerInv, ServerTyped, OnePlace
  <1>2. PICK s \in Seq(Handlers) : s = RemoveFirst(handlers, "acceptor") /\ IsInjective(s) /\ ToSet(s) = ToSet(handlers) \ {"acceptor"}
    BY <1>1, RemovedList
  <1>3. PICK t \in Seq(Handlers) : t = RemoveFirst(s, "aux") /\ IsInjective(t) /\ ToSet(t) = ToSet(s) \ {"aux"}
    BY <1>2, RemovedList
  <1>4. ToSet(t) \subseteq Clients /\ \A c \in Clients : c \in ToSet(t) <=> c \in ToSet(handlers)
    BY <1>1, <1>2, <1>3, ToSetFacts, FrontendServerAssumption DEF Handlers
  <1>5. t \in Seq(Clients)
    <2>1. \A i \in 1..Len(t) : t[i] \in Clients
      BY <1>4, ToSetFacts
    <2> QED BY <2>1, SeqDef, LenProperties
  <1> QED BY <1>2, <1>3, <1>4, <1>5 DEF Accepted

LEMMA HandlePreinitServer ==
    ASSUME ServerInv, NEW h \in Clients \cup {"aux"}, HandlePreinit(h)
    PROVE  ServerInv'
  <1>1. /\ remote' = remote /\ backlog' = backlog /\ handlers' = handlers /\ release' = release
        /\ socket' = socket /\ accepting' = accepting /\ apartment' = apartment /\ kind[h] = "preinit"
    BY DEF HandlePreinit, wireVars
  <1>2. ready' = ready \ {h} /\ thread' \in {"select", "dispatch"}
    BY ProceedFacts DEF HandlePreinit
  <1>3. /\ thread = "dispatch" /\ release = NULL /\ h \in ready /\ h \in ToSet(handlers)
        /\ ~Quitting /\ apartment.at \notin {"listen", "connect_aux"}
    BY TurnFacts DEF HandlePreinit
  <1>4. CASE h # "aux"
    <2>1. aux' = aux /\ kind' = kind /\ alive' = alive /\ out' = out
      BY <1>4 DEF HandlePreinit
    <2>2. ThreadMove
      BY <2>1, <1>1, <1>2, <1>3 DEF ThreadMove, sessionVars, ServerInv, ReadyListed
    <2> QED BY <2>2, ThreadMoves
  <1>5. CASE h = "aux"
    <2>1. /\ aux' = Tail(aux)
          /\ kind' = [x \in DOMAIN kind |-> CASE x = "acceptor" -> "accept_regular"
                                              [] x = "aux" -> "aux"
                                              [] x \in ToSet(Accepted) -> "session"
                                              [] OTHER -> kind[x]]
          /\ CreateSession(Accepted)
      BY <1>5 DEF HandlePreinit, Accepted
    <2>2. Clients \cap {"acceptor", "aux"} = {}
      BY FrontendServerAssumption
    <2>3. kind \in [Handlers -> {"none", "accept_preinit", "accept_regular", "preinit", "aux", "session"}]
      BY DEF ServerInv, ServerTyped
    <2>4. /\ kind' \in [Handlers -> {"none", "accept_preinit", "accept_regular", "preinit", "aux", "session"}]
          /\ kind'["acceptor"] = "accept_regular" /\ kind'["aux"] = "aux"
          /\ \A c \in Clients : kind'[c] = IF c \in ToSet(handlers) THEN "session" ELSE kind[c]
      <3>1. \A c \in Clients : c \in ToSet(Accepted) <=> c \in ToSet(handlers)
        BY AcceptedFacts
      <3>0. "acceptor" \notin ToSet(Accepted) /\ "aux" \notin ToSet(Accepted)
        BY <2>2, AcceptedFacts
      <3>2. DOMAIN kind = Handlers /\ {"acceptor", "aux"} \subseteq Handlers /\ Clients \subseteq Handlers
        BY <2>3 DEF Handlers
      <3>3. kind'["acceptor"] = "accept_regular"
        BY <2>1, <3>2, <3>0
      <3>4. kind'["aux"] = "aux"
        BY <2>1, <3>2, <3>0
      <3>5. \A c \in Clients : kind'[c] = IF c \in ToSet(handlers) THEN "session" ELSE kind[c]
        <4> SUFFICES ASSUME NEW c \in Clients
                     PROVE  kind'[c] = IF c \in ToSet(handlers) THEN "session" ELSE kind[c]
          OBVIOUS
        <4>1. c # "acceptor" /\ c # "aux" /\ c \in DOMAIN kind
          BY <2>2, <3>2
        <4>2. kind'[c] = CASE c = "acceptor" -> "accept_regular"
                           [] c = "aux" -> "aux"
                           [] c \in ToSet(Accepted) -> "session"
                           [] OTHER -> kind[c]
          BY <2>1, <4>1
        <4>3. CASE c \in ToSet(Accepted)
          BY <4>1, <4>2, <4>3, <3>1
        <4>4. CASE c \notin ToSet(Accepted)
          BY <4>1, <4>2, <4>4, <3>1
        <4> QED BY <4>3, <4>4
      <3>6. \A x \in Handlers : kind'[x] \in {"none", "accept_preinit", "accept_regular", "preinit", "aux", "session"}
        BY <2>3, <3>3, <3>4, <3>5 DEF Handlers
      <3>7. kind' = [x \in Handlers |-> kind'[x]]
        BY <2>1, <3>2
      <3> QED BY <3>3, <3>4, <3>5, <3>6, <3>7
    <2>5. aux' \in Seq(Clients \cup {Magic, Stop})
      BY <2>1, <1>3, <1>5, TailList DEF ServerInv, ServerTyped, ReadyListed
    <2>6. /\ alive' \in [Clients -> BOOLEAN] /\ out' \in [Clients -> BOOLEAN]
          /\ \A c \in Clients : alive'[c] <=> alive[c] \/ (accepting /\ c \in ToSet(handlers))
          /\ \A c \in Clients : out'[c] <=> out[c] \/ (accepting /\ c \in ToSet(handlers))
      BY <2>1, CreatedFacts, AcceptedFacts
    <2>7. ServerTyped'
      BY <1>1, <1>2, <2>4, <2>5, <2>6 DEF ServerInv, ServerTyped
    <2>8. OnePlace' /\ ApartmentTyped'
      BY <1>1, Zenon DEF ServerInv, OnePlace, Releasing, ApartmentTyped
    <2>9. ReadyListed'
      BY <1>1, <1>2, <1>5 DEF ServerInv, ReadyListed
    <2>10. Phase'
      BY <1>1, <1>3, <1>5, <2>4 DEF ServerInv, Phase, OnePlace
    <2>11. Lifetimes'
      <3> SUFFICES ASSUME NEW c \in Clients
                   PROVE  /\ c \in ToSet(handlers) => socket[c]
                          /\ alive'[c] => c \in ToSet(handlers) /\ kind'[c] = "session"
                          /\ out'[c] => c \in ToSet(handlers) /\ kind'[c] = "session"
                          /\ accepting /\ c \in ToSet(handlers) /\ kind'[c] = "session" => alive'[c]
        BY <1>1, <1>3 DEF Lifetimes, Releasing
      <3>1. /\ c \in ToSet(handlers) => socket[c]
            /\ alive[c] => c \in ToSet(handlers)
            /\ out[c] => c \in ToSet(handlers)
        BY <1>3 DEF ServerInv, Lifetimes, Releasing
      <3> QED BY <3>1, <2>4, <2>6
    <2>12. Inside'
      <3>1. /\ apartment.at = "task" => apartment.of \in Clients /\ alive[apartment.of]
            /\ apartment.at = "outbound" => apartment.of \in Clients /\ out[apartment.of]
        BY DEF ServerInv, ApartmentTyped, Inside
      <3> QED BY <3>1, <2>6, <1>1 DEF Inside
    <2>13. Course'
      BY <1>1, <1>3 DEF ServerInv, Course, Quitting
    <2> QED BY <2>7, <2>8, <2>9, <2>10, <2>11, <2>12, <2>13 DEF ServerInv
  <1> QED BY <1>4, <1>5

LEMMA AcceptRegularServer ==
    ASSUME ServerInv, AcceptRegular
    PROVE  ServerInv'
  <1>1. PICK n : n = Head(backlog)
    OBVIOUS
  <1>2. /\ remote' = remote /\ aux' = aux /\ release' = release
        /\ accepting' = accepting /\ apartment' = apartment
        /\ handlers' = Append(handlers, n) /\ kind' = [kind EXCEPT ![n] = "session"]
        /\ socket' = [socket EXCEPT ![n] = TRUE]
        /\ backlog' = Tail(backlog)
        /\ kind["acceptor"] = "accept_regular"
        /\ CreateSession(<<n>>)
    BY <1>1 DEF AcceptRegular
  <1>3. ready' = ready \ {"acceptor"} /\ thread' \in {"select", "dispatch"}
    BY ProceedFacts DEF AcceptRegular
  <1>4. /\ thread = "dispatch" /\ release = NULL /\ "acceptor" \in ready
        /\ ~Quitting /\ apartment.at \notin {"listen", "connect_aux"}
    BY TurnFacts DEF AcceptRegular
  <1>5. /\ backlog \in Seq(Clients \cup {"aux"}) /\ backlog # <<>> /\ IsInjective(backlog)
        /\ handlers \in Seq(Handlers) /\ IsInjective(handlers)
        /\ kind \in [Handlers -> {"none", "accept_preinit", "accept_regular", "preinit", "aux", "session"}]
    BY <1>4 DEF ServerInv, ServerTyped, ReadyListed, OnePlace
  <1>6. /\ n \in Clients \cup {"aux"} /\ n \in ToSet(backlog) /\ backlog' \in Seq(Clients \cup {"aux"})
        /\ IsInjective(backlog') /\ ToSet(backlog') = ToSet(backlog) \ {n}
    BY <1>1, <1>2, <1>5, TailList
  <1>7. n \in Clients /\ n \in Handlers /\ n \notin ToSet(handlers) /\ n # "acceptor" /\ n # "aux"
    BY <1>2, <1>6, FrontendServerAssumption DEF ServerInv, OnePlace, Handlers, Phase
  <1>8. handlers' \in Seq(Handlers) /\ IsInjective(handlers') /\ ToSet(handlers') = ToSet(handlers) \cup {n}
    BY <1>2, <1>5, <1>7, AppendedList
  <1>9. /\ kind' \in [Handlers -> {"none", "accept_preinit", "accept_regular", "preinit", "aux", "session"}]
        /\ kind'[n] = "session" /\ \A h \in Handlers : h # n => kind'[h] = kind[h]
    BY <1>2, <1>5, <1>7
  <1>10. socket \in [Clients -> BOOLEAN]
    BY DEF ServerInv, ServerTyped
  <1>11. /\ socket' \in [Clients -> BOOLEAN]
         /\ \A c \in Clients : (socket[c] => socket'[c]) /\ (c = n => socket'[c])
    BY <1>2, <1>10
  <1>12. ToSet(<<n>>) = {n}
    BY DEF ToSet
  <1>13. /\ alive' \in [Clients -> BOOLEAN] /\ out' \in [Clients -> BOOLEAN]
         /\ \A c \in Clients : alive'[c] <=> alive[c] \/ (accepting /\ c = n)
         /\ \A c \in Clients : out'[c] <=> out[c] \/ (accepting /\ c = n)
    BY <1>2, <1>12, CreatedFacts
  <1>14. ServerTyped'
    BY <1>2, <1>3, <1>6, <1>8, <1>9, <1>11, <1>13 DEF ServerInv, ServerTyped
  <1>15. OnePlace'
    BY <1>2, <1>4, <1>6, <1>7, <1>8 DEF ServerInv, OnePlace, Releasing
  <1>16. ReadyListed'
    BY <1>2, <1>3, <1>8 DEF ServerInv, ReadyListed
  <1>17. Phase'
    BY <1>2, <1>6, <1>7, <1>8, <1>9, FrontendServerAssumption DEF ServerInv, Phase, Handlers
  <1>18. Lifetimes'
    <2> SUFFICES ASSUME NEW c \in Clients
                 PROVE  /\ c \in ToSet(handlers') => socket'[c]
                        /\ alive'[c] => c \in ToSet(handlers') /\ kind'[c] = "session"
                        /\ out'[c] => c \in ToSet(handlers') /\ kind'[c] = "session"
                        /\ accepting /\ c \in ToSet(handlers') /\ kind'[c] = "session" => alive'[c]
      BY <1>2, <1>4 DEF Lifetimes, Releasing
    <2>1. /\ c \in ToSet(handlers) => socket[c]
          /\ alive[c] => c \in ToSet(handlers) /\ kind[c] = "session"
          /\ out[c] => c \in ToSet(handlers) /\ kind[c] = "session"
          /\ accepting /\ c \in ToSet(handlers) /\ kind[c] = "session" => alive[c]
      BY <1>4 DEF ServerInv, Lifetimes, Releasing
    <2> QED BY <2>1, <1>7, <1>8, <1>9, <1>11, <1>13 DEF Handlers
  <1>19. ApartmentTyped'
    BY <1>2, Zenon DEF ServerInv, ApartmentTyped
  <1>20. Inside'
    <2>1. /\ apartment.at = "task" => apartment.of \in Clients /\ alive[apartment.of]
          /\ apartment.at = "outbound" => apartment.of \in Clients /\ out[apartment.of]
      BY DEF ServerInv, ApartmentTyped, Inside
    <2> QED BY <2>1, <1>13, <1>2 DEF Inside
  <1>21. Course'
    BY <1>2, <1>4 DEF ServerInv, Course, Quitting
  <1> QED BY <1>14, <1>15, <1>16, <1>17, <1>18, <1>19, <1>20, <1>21 DEF ServerInv

\* The handler of c is taken off the list and its destruction begins.
Removal(c) ==
    /\ UNCHANGED <<remote, backlog, kind, sessionVars, accepting, apartment>>
    /\ c \in Clients /\ c \in ToSet(handlers) /\ release = NULL
    /\ release' \in Release /\ release'.of = c /\ release'.stage = "session"
    /\ handlers' \in Seq(Handlers) /\ IsInjective(handlers') /\ ToSet(handlers') = ToSet(handlers) \ {c}
    /\ aux' \in Seq(Clients \cup {Magic, Stop})
    /\ thread' \in {"select", "dispatch", "ended"}
    /\ ready' \subseteq ready \ {c}
    /\ thread' = "ended" => ready' = {}
    /\ "aux" \in ready' => aux' # <<>>
    /\ ~Quitting /\ apartment.at \notin {"listen", "connect_aux"}

LEMMA RemovalServer ==
    ASSUME ServerInv, NEW c, Removal(c)
    PROVE  ServerInv'
  <1>1. /\ remote' = remote /\ backlog' = backlog /\ kind' = kind /\ alive' = alive /\ out' = out /\ socket' = socket
        /\ accepting' = accepting /\ apartment' = apartment
        /\ c \in Clients /\ c \in ToSet(handlers) /\ release = NULL /\ release' # NULL
        /\ release' \in Release /\ release'.of = c /\ release'.stage = "session"
        /\ handlers' \in Seq(Handlers) /\ IsInjective(handlers') /\ ToSet(handlers') = ToSet(handlers) \ {c}
    BY FrontendServerAssumption DEF Removal, sessionVars
  <1>2. ServerTyped'
    BY <1>1 DEF ServerInv, ServerTyped, Removal
  <1>3. \A d, S : Releasing(d, S)' <=> d = c /\ "session" \in S
    BY <1>1 DEF Releasing
  <1>4. OnePlace'
    <2>1. \A d \in Clients : remote[d] = "none" => d # c
      BY <1>1 DEF ServerInv, OnePlace
    <2>2. c \notin ToSet(backlog)
      BY <1>1 DEF ServerInv, OnePlace
    <2> QED BY <2>1, <2>2, <1>1, <1>3 DEF ServerInv, OnePlace
  <1>5. ReadyListed'
    BY <1>1 DEF ServerInv, ReadyListed, Removal
  <1>6. Phase'
    BY <1>1 DEF ServerInv, Phase
  <1>7. Lifetimes'
    <2> SUFFICES ASSUME NEW d \in Clients
                 PROVE  /\ d \in ToSet(handlers') => socket[d]
                        /\ d = c => socket[d]
                        /\ alive[d] => (d \in ToSet(handlers') /\ kind[d] = "session") \/ d = c
                        /\ out[d] => (d \in ToSet(handlers') /\ kind[d] = "session") \/ d = c
                        /\ accepting /\ d \in ToSet(handlers') /\ kind[d] = "session" => alive[d]
      BY <1>1, <1>3 DEF Lifetimes
    <2>1. /\ d \in ToSet(handlers) => socket[d]
          /\ alive[d] => d \in ToSet(handlers) /\ kind[d] = "session"
          /\ out[d] => d \in ToSet(handlers) /\ kind[d] = "session"
          /\ accepting /\ d \in ToSet(handlers) /\ kind[d] = "session" => alive[d]
      BY <1>1 DEF ServerInv, Lifetimes, Releasing
    <2> QED BY <2>1, <1>1
  <1>8. ApartmentTyped' /\ Inside'
    BY <1>1, Zenon DEF ServerInv, ApartmentTyped, Inside
  <1>9. Course'
    BY <1>1 DEF ServerInv, Course, Quitting, Removal
  <1> QED BY <1>2, <1>4, <1>5, <1>6, <1>7, <1>8, <1>9 DEF ServerInv

LEMMA DestroyFacts ==
    ASSUME NEW c \in Clients, NEW by \in {"thread", "apartment"}, Destroy(c, by)
    PROVE  release' \in Release /\ release'.of = c /\ release'.stage = "session"
  BY DEF Destroy, Release

LEMMA SessionDisconnectRemoves ==
    ASSUME ServerInv, NEW c \in Clients, SessionDisconnect(c)
    PROVE  Removal(c)
  <1>1. /\ remote' = remote /\ backlog' = backlog /\ kind' = kind /\ alive' = alive /\ out' = out /\ socket' = socket
        /\ accepting' = accepting /\ apartment' = apartment /\ aux' = aux
        /\ handlers' = RemoveFirst(handlers, c)
    BY DEF SessionDisconnect, wireVars, sessionVars
  <1>2. ready' = ready \ {c} /\ thread' \in {"select", "dispatch"}
    BY ProceedFacts DEF SessionDisconnect
  <1>3. /\ release = NULL /\ c \in ToSet(handlers)
        /\ ~Quitting /\ apartment.at \notin {"listen", "connect_aux"}
    BY TurnFacts DEF SessionDisconnect
  <1>4. handlers' \in Seq(Handlers) /\ IsInjective(handlers') /\ ToSet(handlers') = ToSet(handlers) \ {c}
    BY <1>1, RemovedList DEF ServerInv, ServerTyped, OnePlace
  <1>5. release' \in Release /\ release'.of = c /\ release'.stage = "session"
    BY DestroyFacts DEF SessionDisconnect
  <1>6. aux \in Seq(Clients \cup {Magic, Stop}) /\ ("aux" \in ready => aux # <<>>)
    BY DEF ServerInv, ServerTyped, ReadyListed
  <1> QED BY <1>1, <1>2, <1>3, <1>4, <1>5, <1>6 DEF Removal, sessionVars

LEMMA HandleAuxMoves ==
    ASSUME ServerInv, HandleAux
    PROVE  IF Listed(Head(aux)) THEN Removal(Head(aux)) ELSE ServerInv'
  <1>1. /\ remote' = remote /\ backlog' = backlog /\ kind' = kind /\ alive' = alive /\ out' = out /\ socket' = socket
        /\ accepting' = accepting /\ apartment' = apartment /\ aux' = Tail(aux)
    BY DEF HandleAux, wireVars, sessionVars
  <1>2. /\ thread = "dispatch" /\ release = NULL /\ "aux" \in ready
        /\ ~Quitting /\ apartment.at \notin {"listen", "connect_aux"}
    BY TurnFacts DEF HandleAux
  <1>3. aux' \in Seq(Clients \cup {Magic, Stop}) /\ Head(aux) \in Clients \cup {Magic, Stop}
    BY <1>1, <1>2, TailList DEF ServerInv, ServerTyped, ReadyListed
  <1>4. CASE Listed(Head(aux))
    <2>1. PICK c : c = Head(aux)
      OBVIOUS
    <2>2. c \in ToSet(handlers) /\ c \in Handlers
      BY <2>1, <1>4, ToSetFacts DEF Listed, ServerInv, ServerTyped
    <2>3. c \in Clients
      BY <2>1, <2>2, <1>3 DEF Handlers, Magic, Stop
    <2>4. handlers' = RemoveFirst(handlers, c) /\ Destroy(c, "thread") /\ Proceed(ready \ {"aux", c})
      BY <1>4, <2>1 DEF HandleAux
    <2>5. ready' = ready \ {"aux", c} /\ thread' \in {"select", "dispatch"}
      BY <2>4, ProceedFacts
    <2>6. handlers' \in Seq(Handlers) /\ IsInjective(handlers') /\ ToSet(handlers') = ToSet(handlers) \ {c}
      BY <2>4, RemovedList DEF ServerInv, ServerTyped, OnePlace
    <2>7. release' \in Release /\ release'.of = c /\ release'.stage = "session"
      BY <2>3, <2>4, DestroyFacts
    <2>8. Removal(c)
      BY <1>1, <1>2, <1>3, <2>2, <2>3, <2>5, <2>6, <2>7 DEF Removal, sessionVars
    <2> QED BY <2>1, <2>8, <1>4
  <1>5. CASE ~Listed(Head(aux))
    <2>1. thread' = "ended" /\ ready' = {} /\ handlers' = handlers /\ release' = release
      BY <1>5 DEF HandleAux
    <2>2. ServerTyped'
      BY <2>1, <1>1, <1>3 DEF ServerInv, ServerTyped
    <2>3. OnePlace' /\ Phase' /\ Lifetimes' /\ ApartmentTyped' /\ Inside'
      BY <1>1, <2>1, Zenon DEF ServerInv, OnePlace, Releasing, Phase, Lifetimes, ApartmentTyped, Inside
    <2>4. ReadyListed'
      BY <2>1 DEF ReadyListed
    <2>5. Course'
      BY <1>1, <1>2, <2>1 DEF ServerInv, Course, Quitting
    <2>6. ServerInv'
      BY <2>2, <2>3, <2>4, <2>5 DEF ServerInv
    <2> QED BY <2>6, <1>5
  <1> QED BY <1>4, <1>5

LEMMA NullSessionServer ==
    ASSUME ServerInv, NEW c \in Clients, NullSession(c)
    PROVE  ServerInv'
  <1>1. /\ remote' = remote /\ backlog' = backlog /\ kind' = kind /\ alive' = alive /\ out' = out /\ socket' = socket
        /\ accepting' = accepting /\ apartment' = At("crashed", NULL, NULL) /\ aux' = aux /\ handlers' = handlers
        /\ release' = release /\ thread' = "ended" /\ ready' = {} /\ kind[c] = "session" /\ ~alive[c]
    BY DEF NullSession, wireVars, sessionVars
  <1>2. release = NULL /\ c \in ToSet(handlers)
    BY TurnFacts DEF NullSession
  <1>3. ~accepting
    BY <1>1, <1>2 DEF ServerInv, Lifetimes
  <1>4. ServerTyped'
    BY <1>1 DEF ServerInv, ServerTyped
  <1>5. ApartmentTyped'
    BY <1>1 DEF ApartmentTyped, At, Places
  <1>6. OnePlace' /\ Phase' /\ Lifetimes'
    BY <1>1, Zenon DEF ServerInv, OnePlace, Releasing, Phase, Lifetimes
  <1>7. ReadyListed'
    BY <1>1 DEF ReadyListed
  <1>8. Course' /\ Inside'
    BY <1>1, <1>3 DEF Course, Quitting, Inside, At
  <1> QED BY <1>4, <1>5, <1>6, <1>7, <1>8 DEF ServerInv

-----------------------------------------------------------------------------
(* The server's side: handlers are destroyed.                              *)

LEMMA ReleaseSessionServer ==
    ASSUME ServerInv, ReleaseSession
    PROVE  ServerInv'
  <1>1. release \in Release /\ release # NULL
    BY DEF ServerInv, ServerTyped, ReleaseSession
  <1>2. PICK c \in Clients : c = release.of
    BY <1>1 DEF Release
  <1>3. /\ remote' = remote /\ backlog' = backlog /\ kind' = kind /\ out' = out /\ socket' = socket /\ thread' = thread
        /\ ready' = ready /\ accepting' = accepting /\ apartment' = apartment /\ aux' = aux /\ handlers' = handlers
        /\ release.stage = "session" /\ ~(apartment.at = "task" /\ apartment.of = c)
        /\ alive' = [alive EXCEPT ![c] = FALSE] /\ release' = [release EXCEPT !.stage = "outbound"]
    BY <1>2 DEF ReleaseSession, wireVars, serverVars
  <1>4. release' \in Release /\ release' # NULL /\ release'.of = c /\ release'.stage = "outbound"
    BY <1>1, <1>2, <1>3, FrontendServerAssumption DEF Release
  <1>5. alive \in [Clients -> BOOLEAN]
    BY DEF ServerInv, ServerTyped
  <1>6. /\ alive' \in [Clients -> BOOLEAN] /\ ~alive'[c]
        /\ \A d \in Clients : d # c => (alive'[d] <=> alive[d])
    BY <1>3, <1>5
  <1>7. ServerTyped'
    BY <1>3, <1>4, <1>6 DEF ServerInv, ServerTyped
  <1>8. /\ \A d, S : Releasing(d, S)' <=> d = c /\ "outbound" \in S
        /\ \A d, S : Releasing(d, S) <=> d = c /\ "session" \in S
    BY <1>1, <1>2, <1>3, <1>4 DEF Releasing
  <1>9. OnePlace'
    BY <1>1, <1>2, <1>3, <1>4, <1>8 DEF ServerInv, OnePlace
  <1>10. ApartmentTyped' /\ ReadyListed' /\ Phase'
    BY <1>3, Zenon DEF ServerInv, ApartmentTyped, ReadyListed, Phase
  <1>11. c \notin ToSet(handlers)
    BY <1>1, <1>2 DEF ServerInv, OnePlace
  <1>12. Lifetimes'
    <2> SUFFICES ASSUME NEW d \in Clients
                 PROVE  /\ d \in ToSet(handlers) => socket[d]
                        /\ d = c => socket[d]
                        /\ alive'[d] => d \in ToSet(handlers) /\ kind[d] = "session"
                        /\ out[d] => (d \in ToSet(handlers) /\ kind[d] = "session") \/ d = c
                        /\ accepting /\ d \in ToSet(handlers) /\ kind[d] = "session" => alive'[d]
      BY <1>3, <1>8 DEF Lifetimes
    <2>1. /\ d \in ToSet(handlers) => socket[d]
          /\ d = c => socket[d]
          /\ alive[d] => (d \in ToSet(handlers) /\ kind[d] = "session") \/ d = c
          /\ out[d] => (d \in ToSet(handlers) /\ kind[d] = "session") \/ d = c
          /\ accepting /\ d \in ToSet(handlers) /\ kind[d] = "session" => alive[d]
      BY <1>8 DEF ServerInv, Lifetimes
    <2> QED BY <2>1, <1>6, <1>11
  <1>13. Course'
    BY <1>1, <1>3, <1>4 DEF ServerInv, Course, Quitting
  <1>14. Inside'
    <2>1. /\ apartment.at = "task" => apartment.of \in Clients /\ alive[apartment.of]
          /\ apartment.at = "outbound" => out[apartment.of]
      BY DEF ServerInv, ApartmentTyped, Inside
    <2> QED BY <2>1, <1>3, <1>6 DEF Inside
  <1> QED BY <1>7, <1>9, <1>10, <1>12, <1>13, <1>14 DEF ServerInv

LEMMA ReleaseOutboundServer ==
    ASSUME ServerInv, ReleaseOutbound
    PROVE  ServerInv'
  <1>1. release \in Release /\ release # NULL
    BY DEF ServerInv, ServerTyped, ReleaseOutbound
  <1>2. PICK c \in Clients : c = release.of
    BY <1>1 DEF Release
  <1>3. /\ remote' = remote /\ backlog' = backlog /\ kind' = kind /\ alive' = alive /\ socket' = socket /\ thread' = thread
        /\ ready' = ready /\ accepting' = accepting /\ apartment' = apartment /\ aux' = aux /\ handlers' = handlers
        /\ release.stage = "outbound" /\ ~(apartment.at = "outbound" /\ apartment.of = c)
        /\ out' = [out EXCEPT ![c] = FALSE] /\ release' = [release EXCEPT !.stage = "socket"]
    BY <1>2 DEF ReleaseOutbound, wireVars, serverVars
  <1>4. release' \in Release /\ release' # NULL /\ release'.of = c /\ release'.stage = "socket"
    BY <1>1, <1>2, <1>3, FrontendServerAssumption DEF Release
  <1>5. out \in [Clients -> BOOLEAN]
    BY DEF ServerInv, ServerTyped
  <1>6. /\ out' \in [Clients -> BOOLEAN] /\ ~out'[c]
        /\ \A d \in Clients : d # c => (out'[d] <=> out[d])
    BY <1>3, <1>5
  <1>7. ServerTyped'
    BY <1>3, <1>4, <1>6 DEF ServerInv, ServerTyped
  <1>8. /\ \A d, S : Releasing(d, S)' <=> d = c /\ "socket" \in S
        /\ \A d, S : Releasing(d, S) <=> d = c /\ "outbound" \in S
    BY <1>1, <1>2, <1>3, <1>4 DEF Releasing
  <1>9. OnePlace'
    BY <1>1, <1>2, <1>3, <1>4, <1>8 DEF ServerInv, OnePlace
  <1>10. ApartmentTyped' /\ ReadyListed' /\ Phase'
    BY <1>3, Zenon DEF ServerInv, ApartmentTyped, ReadyListed, Phase
  <1>11. Lifetimes'
    <2> SUFFICES ASSUME NEW d \in Clients
                 PROVE  /\ d \in ToSet(handlers) => socket[d]
                        /\ d = c => socket[d]
                        /\ alive[d] => d \in ToSet(handlers) /\ kind[d] = "session"
                        /\ out'[d] => d \in ToSet(handlers) /\ kind[d] = "session"
                        /\ accepting /\ d \in ToSet(handlers) /\ kind[d] = "session" => alive[d]
      BY <1>3, <1>8 DEF Lifetimes
    <2>1. /\ d \in ToSet(handlers) => socket[d]
          /\ d = c => socket[d]
          /\ alive[d] => d \in ToSet(handlers) /\ kind[d] = "session"
          /\ out[d] => (d \in ToSet(handlers) /\ kind[d] = "session") \/ d = c
          /\ accepting /\ d \in ToSet(handlers) /\ kind[d] = "session" => alive[d]
      BY <1>8 DEF ServerInv, Lifetimes
    <2> QED BY <2>1, <1>6
  <1>12. Course'
    BY <1>1, <1>3, <1>4 DEF ServerInv, Course, Quitting
  <1>13. Inside'
    <2>1. /\ apartment.at = "task" => alive[apartment.of]
          /\ apartment.at = "outbound" => apartment.of \in Clients /\ out[apartment.of]
      BY DEF ServerInv, ApartmentTyped, Inside
    <2> QED BY <2>1, <1>3, <1>6 DEF Inside
  <1> QED BY <1>7, <1>9, <1>10, <1>11, <1>12, <1>13 DEF ServerInv

LEMMA ReleaseSocketServer ==
    ASSUME ServerInv, ReleaseSocket
    PROVE  ServerInv'
  <1>1. release \in Release /\ release # NULL
    BY DEF ServerInv, ServerTyped, ReleaseSocket
  <1>2. PICK c \in Clients : c = release.of
    BY <1>1 DEF Release
  <1>3. /\ remote' = remote /\ backlog' = backlog /\ kind' = kind /\ alive' = alive /\ out' = out /\ thread' = thread
        /\ ready' = ready /\ accepting' = accepting /\ apartment' = apartment /\ aux' = aux /\ handlers' = handlers
        /\ release.stage = "socket"
        /\ socket' = [socket EXCEPT ![c] = FALSE] /\ release' = NULL
    BY <1>2 DEF ReleaseSocket, wireVars, serverVars
  <1>4. socket \in [Clients -> BOOLEAN]
    BY DEF ServerInv, ServerTyped
  <1>5. /\ socket' \in [Clients -> BOOLEAN]
        /\ \A d \in Clients : d # c => (socket'[d] <=> socket[d])
    BY <1>3, <1>4
  <1>6. ServerTyped'
    BY <1>3, <1>5 DEF ServerInv, ServerTyped
  <1>7. /\ \A d, S : ~Releasing(d, S)'
        /\ \A d, S : Releasing(d, S) <=> d = c /\ "socket" \in S
    BY <1>1, <1>2, <1>3 DEF Releasing
  <1>8. OnePlace'
    BY <1>1, <1>3, <1>7 DEF ServerInv, OnePlace
  <1>9. ApartmentTyped' /\ ReadyListed' /\ Phase' /\ Inside'
    BY <1>3, Zenon DEF ServerInv, ApartmentTyped, ReadyListed, Phase, Inside
  <1>10. c \notin ToSet(handlers)
    BY <1>1, <1>2 DEF ServerInv, OnePlace
  <1>11. Lifetimes'
    <2> SUFFICES ASSUME NEW d \in Clients
                 PROVE  /\ d \in ToSet(handlers) => socket'[d]
                        /\ alive[d] => d \in ToSet(handlers) /\ kind[d] = "session"
                        /\ out[d] => d \in ToSet(handlers) /\ kind[d] = "session"
                        /\ accepting /\ d \in ToSet(handlers) /\ kind[d] = "session" => alive[d]
      BY <1>3, <1>7 DEF Lifetimes
    <2>1. /\ d \in ToSet(handlers) => socket[d]
          /\ alive[d] => d \in ToSet(handlers) /\ kind[d] = "session"
          /\ out[d] => d \in ToSet(handlers) /\ kind[d] = "session"
          /\ accepting /\ d \in ToSet(handlers) /\ kind[d] = "session" => alive[d]
      BY <1>7 DEF ServerInv, Lifetimes
    <2> QED BY <2>1, <1>5, <1>10
  <1>12. Course'
    BY <1>1, <1>3 DEF ServerInv, Course, Quitting
  <1> QED BY <1>6, <1>8, <1>9, <1>11, <1>12 DEF ServerInv

LEMMA StartServerServer ==
    ASSUME ServerInv, StartServer
    PROVE  ServerInv'
  <1>1. /\ remote' = remote /\ alive' = alive /\ out' = out /\ socket' = socket /\ release' = release /\ accepting' = accepting
        /\ apartment.at = "connect_aux" /\ apartment' = Idle /\ backlog' = Append(backlog, "aux") /\ aux' = <<Magic>>
        /\ handlers' = <<"acceptor">> /\ thread' = "select" /\ ready' = {}
        /\ kind' = [h \in DOMAIN kind |-> IF h = "acceptor" THEN "accept_preinit" ELSE "none"]
    BY DEF StartServer, sessionVars
  <1>2. handlers = <<>> /\ release = NULL /\ "aux" \notin ToSet(backlog) /\ accepting
    BY <1>1 DEF ServerInv, Course, Quitting
  <1>3. DOMAIN kind = Handlers
    BY DEF ServerInv, ServerTyped
  <1>4. /\ kind' \in [Handlers -> {"none", "accept_preinit", "accept_regular", "preinit", "aux", "session"}]
        /\ kind'["acceptor"] = "accept_preinit" /\ kind'["aux"] = "none"
    BY <1>1, <1>3 DEF Handlers
  <1>5. /\ backlog' \in Seq(Clients \cup {"aux"}) /\ IsInjective(backlog')
        /\ ToSet(backlog') = ToSet(backlog) \cup {"aux"} /\ backlog' # <<>>
    BY <1>1, <1>2, AppendedList DEF ServerInv, ServerTyped, OnePlace
  <1>6. /\ handlers' \in Seq(Handlers) /\ ToSet(handlers') = {"acceptor"} /\ IsInjective(handlers')
    BY <1>1 DEF Handlers, ToSet, IsInjective
  <1>7. aux' \in Seq(Clients \cup {Magic, Stop})
    BY <1>1
  <1>8. Clients \cap {"acceptor", "aux"} = {} /\ NULL \notin Clients
    BY FrontendServerAssumption
  <1>9. ServerTyped'
    BY <1>1, <1>4, <1>5, <1>6, <1>7 DEF ServerInv, ServerTyped
  <1>10. ApartmentTyped'
    BY <1>1 DEF ApartmentTyped, Idle, At, Places
  <1>11. OnePlace'
    <2>1. "acceptor" \notin ToSet(backlog)
      BY <1>8, ToSetFacts DEF ServerInv, ServerTyped
    <2> QED BY <1>1, <1>2, <1>5, <1>6, <1>8, <2>1 DEF ServerInv, OnePlace, Releasing
  <1>12. ReadyListed'
    BY <1>1 DEF ReadyListed
  <1>13. Phase'
    BY <1>4, <1>6, <1>8 DEF Phase
  <1>14. Lifetimes'
    <2>1. \A c \in Clients : ~alive[c] /\ ~out[c]
      BY <1>2, EmptyList DEF ServerInv, Lifetimes, Releasing
    <2> QED BY <2>1, <1>1, <1>2, <1>6, <1>8 DEF Lifetimes, Releasing
  <1>15. Course' /\ Inside'
    BY <1>1, <1>2 DEF Course, Inside, Quitting, Idle, At
  <1> QED BY <1>9, <1>10, <1>11, <1>12, <1>13, <1>14, <1>15 DEF ServerInv

LEMMA DestroyHandlersMoves ==
    ASSUME ServerInv, DestroyHandlers
    PROVE  IF Head(handlers) \in Clients THEN Removal(Head(handlers)) ELSE ServerInv'
  <1>1. /\ remote' = remote /\ backlog' = backlog /\ kind' = kind /\ alive' = alive /\ out' = out /\ socket' = socket
        /\ accepting' = accepting /\ apartment' = apartment /\ aux' = aux /\ thread' = thread /\ ready' = ready
        /\ thread = "ended" /\ release = NULL /\ apartment.at = "join" /\ handlers # <<>> /\ handlers' = Tail(handlers)
    BY DEF DestroyHandlers, wireVars, sessionVars
  <1>2. PICK c : c = Head(handlers)
    OBVIOUS
  <1>3. /\ handlers' \in Seq(Handlers) /\ IsInjective(handlers') /\ ToSet(handlers') = ToSet(handlers) \ {c}
        /\ c \in ToSet(handlers)
    BY <1>1, <1>2, TailList DEF ServerInv, ServerTyped, OnePlace
  <1>4. ready = {} /\ aux \in Seq(Clients \cup {Magic, Stop})
    BY <1>1 DEF ServerInv, ReadyListed, ServerTyped
  <1>5. CASE c \in Clients
    <2>1. release' \in Release /\ release'.of = c /\ release'.stage = "session"
      BY <1>2, <1>5, DestroyFacts DEF DestroyHandlers
    <2>2. Removal(c)
      BY <1>1, <1>3, <1>4, <1>5, <2>1 DEF Removal, Quitting, sessionVars
    <2> QED BY <1>2, <1>5, <2>2
  <1>6. CASE c \notin Clients
    <2>1. release' = release
      BY <1>2, <1>6 DEF DestroyHandlers
    <2>2. \A d \in Clients : d \in ToSet(handlers') <=> d \in ToSet(handlers)
      BY <1>3, <1>6
    <2>3. ServerTyped'
      BY <2>1, <1>1, <1>3 DEF ServerInv, ServerTyped
    <2>4. OnePlace'
      BY <2>1, <1>1, <1>3 DEF ServerInv, OnePlace, Releasing
    <2>5. ReadyListed' /\ Phase'
      BY <1>1, <1>4, <2>2 DEF ServerInv, ReadyListed, Phase
    <2>6. Lifetimes'
      BY <1>1, <2>1, <2>2 DEF ServerInv, Lifetimes, Releasing
    <2>7. ApartmentTyped' /\ Inside'
      BY <1>1, Zenon DEF ServerInv, ApartmentTyped, Inside
    <2>8. Course'
      BY <1>1 DEF ServerInv, Course, Quitting
    <2>9. ServerInv'
      BY <2>3, <2>4, <2>5, <2>6, <2>7, <2>8 DEF ServerInv
    <2> QED BY <1>2, <1>6, <2>9
  <1> QED BY <1>5, <1>6

LEMMA ServerGoneServer ==
    ASSUME ServerInv, ServerGone
    PROVE  ServerInv'
  <1>1. /\ kind' = kind /\ alive' = alive /\ out' = out /\ socket' = socket /\ handlers' = handlers /\ release' = release
        /\ accepting' = accepting /\ thread' = thread /\ ready' = ready
        /\ thread = "ended" /\ release = NULL /\ apartment.at = "join" /\ handlers = <<>>
        /\ backlog' = <<>> /\ aux' = <<>> /\ apartment' = At(apartment.then, NULL, NULL)
        /\ remote' = [c \in Clients |-> IF c \in ToSet(backlog) THEN "gone" ELSE remote[c]]
    BY DEF ServerGone, serverVars, sessionVars
  <1>2. apartment.then \in {"listen", "quit"}
    BY <1>1 DEF ServerInv, ApartmentTyped
  <1>3. apartment'.at = apartment.then
    BY <1>1 DEF At
  <1>4. remote \in [Clients -> {"none", "connected", "gone"}]
    BY DEF ServerInv, ServerTyped
  <1>5. remote' \in [Clients -> {"none", "connected", "gone"}]
    BY <1>1, <1>4
  <1>6. ServerTyped'
    BY <1>1, <1>5 DEF ServerInv, ServerTyped
  <1>7. ApartmentTyped'
    BY <1>1, <1>2 DEF ApartmentTyped, At, Places
  <1>8. OnePlace'
    BY <1>1, EmptyList DEF OnePlace, Releasing
  <1>9. ReadyListed'
    BY <1>1 DEF ServerInv, ReadyListed
  <1>10. Phase'
    BY <1>1, EmptyList DEF ServerInv, Phase
  <1>11. Lifetimes'
    BY <1>1 DEF ServerInv, Lifetimes, Releasing
  <1>12. Inside'
    BY <1>2, <1>3 DEF Inside
  <1>13. Course'
    <2>1. ~accepting => apartment.then = "quit"
      BY <1>1 DEF ServerInv, Course, Quitting
    <2> QED BY <1>1, <1>2, <1>3, <2>1, EmptyList DEF Course, Quitting
  <1> QED BY <1>6, <1>7, <1>8, <1>9, <1>10, <1>11, <1>12, <1>13 DEF ServerInv

-----------------------------------------------------------------------------
(* The server's side: the apartment goes on.                               *)

\* The apartment goes on and the server's state is left alone but for the auxiliary socket.
ApartmentGoes ==
    \/ BeginTask \/ EndTask \/ CloseAll \/ ResetEntry \/ OutboundDisconnect \/ ResetDone \/ Listen
    \/ StopServer \/ EnableRemoteSockets \/ StopAccepting
    \/ \E i \in Clients \cup Files : OnUiClosed(i)

LEMMA ApartmentServer ==
    ASSUME ServerInv, TasksTyped, frontend \subseteq Clients, ApartmentGoes
    PROVE  ServerInv'
  <1>0. ApartmentTyped /\ Course /\ Inside /\ accepting \in BOOLEAN /\ aux \in Seq(Clients \cup {Magic, Stop})
    BY DEF ServerInv, ServerTyped
  <1>a. NULL \notin Clients
    BY FrontendServerAssumption
  <1>b. ASSUME NEW x \in Clients \cup {Magic, Stop}, aux' = Append(aux, x)
        PROVE  aux' \in Seq(Clients \cup {Magic, Stop}) /\ aux' # <<>>
    BY <1>0, <1>b, AppendedList
  <1>1. CASE BeginTask
    <2>1. PICK t : t = Head(queue)
      OBVIOUS
    <2>2. /\ UNCHANGED <<remote, backlog, serverVars, release, sessionVars>> /\ aux' = aux /\ accepting' = accepting
          /\ apartment = Idle /\ t.kind # "destroy" /\ queue # <<>>
          /\ apartment' = IF alive[t.of] THEN At("task", t.of, t.kind) ELSE Idle
      BY <1>1, <2>1 DEF BeginTask, wireVars
    <2>3. t \in Tasks
      BY <2>1, <2>2, TailList DEF TasksTyped
    <2>4. t.of \in Clients /\ t.kind \in {"create", "message", "disconnect"}
      BY <2>2, <2>3 DEF Tasks, TaskKinds
    <2>5. /\ handlers' = handlers /\ thread' = thread /\ release' = release /\ backlog' = backlog /\ alive' = alive /\ out' = out
      BY <2>2 DEF serverVars, sessionVars
    <2>6. CASE alive[t.of]
      <3>1. apartment' = At("task", t.of, t.kind)
        BY <2>2, <2>6
      <3>2. ApartmentTyped'
        BY <3>1, <2>4 DEF ApartmentTyped, At, Places, TaskKinds
      <3>3. Inside'
        BY <3>1, <2>5, <2>6 DEF Inside, At
      <3>4. Course'
        BY <3>1, <2>2, <2>5, <1>0 DEF Course, Quitting, Idle, At
      <3>5. ApartmentMove
        BY <3>2, <3>3, <3>4, <2>2, <1>0 DEF ApartmentMove
      <3> QED BY <3>5, ApartmentMoves
    <2>7. CASE ~alive[t.of]
      <3>1. UNCHANGED serverSide
        BY <2>2, <2>7 DEF serverSide
      <3> QED BY <3>1, ServerSame
    <2> QED BY <2>6, <2>7
  <1>2. CASE EndTask
    <2>1. /\ UNCHANGED <<remote, backlog, serverVars, release, sessionVars>> /\ aux' = aux /\ accepting' = accepting
          /\ apartment.at = "task" /\ apartment' = Idle
      BY <1>2 DEF EndTask, wireVars
    <2>2. /\ handlers' = handlers /\ thread' = thread /\ release' = release /\ backlog' = backlog
      BY <2>1 DEF serverVars
    <2>3. ApartmentTyped' /\ Inside'
      BY <2>1 DEF ApartmentTyped, Inside, Idle, At, Places
    <2>4. Course'
      BY <2>1, <2>2, <1>0 DEF Course, Quitting, Idle, At
    <2>5. ApartmentMove
      BY <2>1, <2>3, <2>4, <1>0 DEF ApartmentMove
    <2> QED BY <2>5, ApartmentMoves
  <1>3. CASE CloseAll \/ \E i \in Clients \cup Files : OnUiClosed(i)
    <2>1. /\ UNCHANGED <<remote, backlog, serverVars, release, sessionVars>> /\ aux' = aux /\ accepting' = accepting
          /\ apartment = Idle /\ apartment' \in {At("close", NULL, NULL), At("reset", NULL, NULL)}
      BY <1>3 DEF CloseAll, OnUiClosed, Click, wireVars
    <2>2. /\ handlers' = handlers /\ thread' = thread /\ release' = release /\ backlog' = backlog
      BY <2>1 DEF serverVars
    <2>3. ApartmentTyped' /\ Inside'
      BY <2>1 DEF ApartmentTyped, Inside, At, Places
    <2>4. Course'
      BY <2>1, <2>2, <1>0 DEF Course, Quitting, Idle, At
    <2>5. ApartmentMove
      BY <2>1, <2>3, <2>4, <1>0 DEF ApartmentMove
    <2> QED BY <2>5, ApartmentMoves
  <1>4. CASE ResetEntry
    <2>1. PICK i : i = Head(todo)
      OBVIOUS
    <2>2. /\ UNCHANGED <<remote, backlog, serverVars, release, sessionVars>> /\ aux' = aux /\ accepting' = accepting
          /\ apartment.at \in {"reset", "close", "quit"}
          /\ apartment' = IF i \in frontend /\ out[i] THEN At("outbound", i, apartment.at) ELSE apartment
      BY <1>4, <2>1 DEF ResetEntry, Resetting, wireVars
    <2>3. /\ handlers' = handlers /\ thread' = thread /\ release' = release /\ backlog' = backlog /\ alive' = alive /\ out' = out
      BY <2>2 DEF serverVars, sessionVars
    <2>4. CASE i \in frontend /\ out[i]
      <3>1. apartment' = At("outbound", i, apartment.at) /\ i \in Clients
        BY <2>2, <2>4
      <3>2. ApartmentTyped'
        BY <3>1, <2>2 DEF ApartmentTyped, At, Places
      <3>3. Inside'
        BY <3>1, <2>3, <2>4 DEF Inside, At
      <3>4. Course'
        BY <3>1, <2>2, <2>3, <1>0 DEF Course, Quitting, At
      <3>5. ApartmentMove
        BY <3>2, <3>3, <3>4, <2>2, <1>0 DEF ApartmentMove
      <3> QED BY <3>5, ApartmentMoves
    <2>5. CASE ~(i \in frontend /\ out[i])
      <3>1. UNCHANGED serverSide
        BY <2>2, <2>5 DEF serverSide
      <3> QED BY <3>1, ServerSame
    <2> QED BY <2>4, <2>5
  <1>5. CASE OutboundDisconnect
    <2>1. /\ UNCHANGED <<remote, backlog, serverVars, release, sessionVars>> /\ aux' = Append(aux, apartment.of) /\ accepting' = accepting
          /\ apartment.at = "outbound" /\ apartment' = At(apartment.then, NULL, NULL)
      BY <1>5 DEF OutboundDisconnect, wireVars
    <2>2. /\ handlers' = handlers /\ thread' = thread /\ release' = release /\ backlog' = backlog
      BY <2>1 DEF serverVars
    <2>3. apartment.of \in Clients /\ apartment.then \in {"reset", "close", "quit"}
      BY <2>1, <1>0 DEF ApartmentTyped
    <2>4. ApartmentTyped' /\ Inside'
      BY <2>1, <2>3 DEF ApartmentTyped, Inside, At, Places
    <2>5. Course'
      BY <2>1, <2>2, <2>3, <1>0 DEF Course, Quitting, At
    <2>6. ApartmentMove
      BY <2>1, <2>3, <2>4, <2>5, <1>0, <1>b DEF ApartmentMove
    <2> QED BY <2>6, ApartmentMoves
  <1>6. CASE ResetDone
    <2>1. /\ UNCHANGED <<remote, backlog, serverVars, release, sessionVars>> /\ aux' = aux /\ accepting' = accepting
          /\ apartment.at \in {"reset", "close", "quit"}
          /\ apartment' = IF apartment.at = "quit" THEN At("done", NULL, NULL) ELSE Idle
      BY <1>6 DEF ResetDone, Resetting, wireVars
    <2>2. /\ handlers' = handlers /\ thread' = thread /\ release' = release /\ backlog' = backlog
      BY <2>1 DEF serverVars
    <2>3. ApartmentTyped' /\ Inside'
      BY <2>1 DEF ApartmentTyped, Inside, Idle, At, Places
    <2>4. Course'
      BY <2>1, <2>2, <1>0 DEF Course, Quitting, Idle, At
    <2>5. ApartmentMove
      BY <2>1, <2>3, <2>4, <1>0 DEF ApartmentMove
    <2> QED BY <2>5, ApartmentMoves
  <1>7. CASE Listen
    <2>1. /\ UNCHANGED <<remote, backlog, serverVars, release, sessionVars>> /\ aux' = aux /\ accepting' = accepting
          /\ apartment.at = "listen" /\ apartment' = At("connect_aux", NULL, NULL)
      BY <1>7 DEF Listen, wireVars
    <2>2. /\ handlers' = handlers /\ thread' = thread /\ release' = release /\ backlog' = backlog
      BY <2>1 DEF serverVars
    <2>3. ApartmentTyped' /\ Inside'
      BY <2>1 DEF ApartmentTyped, Inside, At, Places
    <2>4. Course'
      BY <2>1, <2>2, <1>0 DEF Course, Quitting, At
    <2>5. ApartmentMove
      BY <2>1, <2>3, <2>4, <1>0 DEF ApartmentMove
    <2> QED BY <2>5, ApartmentMoves
  <1>8. CASE StopServer \/ EnableRemoteSockets
    <2>1. /\ UNCHANGED <<remote, backlog, serverVars, release, sessionVars>> /\ aux' = Append(aux, Stop) /\ accepting' = accepting
          /\ \/ apartment.at = "stop" /\ apartment' = At("join", NULL, "quit")
             \/ apartment = Idle /\ apartment' = At("join", NULL, "listen")
      BY <1>8 DEF StopServer, EnableRemoteSockets, Click, wireVars
    <2>2. /\ handlers' = handlers /\ thread' = thread /\ release' = release /\ backlog' = backlog
      BY <2>1 DEF serverVars
    <2>3. ApartmentTyped' /\ Inside'
      BY <2>1 DEF ApartmentTyped, Inside, At, Places
    <2>4. Course'
      BY <2>1, <2>2, <1>0 DEF Course, Quitting, Idle, At
    <2>5. ApartmentMove
      BY <2>1, <2>3, <2>4, <1>0, <1>b DEF ApartmentMove
    <2> QED BY <2>5, ApartmentMoves
  <1>9. CASE StopAccepting
    <2>1. /\ UNCHANGED <<remote, backlog, serverVars, release, sessionVars>> /\ aux' = aux /\ accepting' = FALSE
          /\ apartment = Idle /\ apartment' = At("stop", NULL, NULL)
      BY <1>9 DEF StopAccepting, wireVars
    <2>2. /\ handlers' = handlers /\ thread' = thread /\ release' = release /\ backlog' = backlog
      BY <2>1 DEF serverVars
    <2>3. ApartmentTyped' /\ Inside'
      BY <2>1 DEF ApartmentTyped, Inside, At, Places
    <2>4. Course'
      BY <2>1, <2>2 DEF Course, Quitting, At
    <2>5. ApartmentMove
      BY <2>1, <2>3, <2>4, <1>0 DEF ApartmentMove
    <2> QED BY <2>5, ApartmentMoves
  <1> QED BY <1>1, <1>2, <1>3, <1>4, <1>5, <1>6, <1>7, <1>8, <1>9 DEF ApartmentGoes

\* Every step keeps the server's side.
LEMMA ServerKept ==
    ASSUME ServerInv, TasksTyped, frontend \subseteq Clients, [Next]_vars
    PROVE  ServerInv'
  <1>1. CASE ThreadStep
    <2>1. CASE Select
      <3>1. PICK R : R = {h \in ToSet(handlers) : Readable(h)}
        OBVIOUS
      <3>2. R \subseteq ToSet(handlers) /\ ("acceptor" \in R => backlog # <<>>) /\ ("aux" \in R => aux # <<>>)
        BY <3>1 DEF Readable
      <3>3. /\ UNCHANGED <<remote, backlog, aux, handlers, kind, release, sessionVars, accepting, apartment>>
            /\ ready' = R /\ thread = "select" /\ thread' = "dispatch"
        BY <2>1, <3>1 DEF Select, wireVars
      <3>4. ThreadMove
        BY <3>2, <3>3 DEF ThreadMove
      <3> QED BY <3>4, ThreadMoves
    <2>2. CASE \E c \in Clients : SessionMessage(c)
      <3>1. PICK c \in Clients : SessionMessage(c)
        BY <2>2
      <3>2. /\ UNCHANGED <<remote, backlog, aux, handlers, kind, release, sessionVars, accepting, apartment>>
            /\ ready' = ready \ {c} /\ thread' \in {"select", "dispatch"}
        BY <3>1, ProceedFacts DEF SessionMessage
      <3>3. thread = "dispatch"
        BY <3>1, TurnFacts DEF SessionMessage
      <3>4. ThreadMove
        BY <3>2, <3>3 DEF ThreadMove, ServerInv, ReadyListed
      <3> QED BY <3>4, ThreadMoves
    <2>3. CASE HandleAux
      BY <2>3, HandleAuxMoves, RemovalServer
    <2>4. CASE \E c \in Clients : SessionDisconnect(c)
      BY <2>4, SessionDisconnectRemoves, RemovalServer
    <2> QED BY <1>1, <2>1, <2>2, <2>3, <2>4, AcceptPreinitServer, AcceptRegularServer, HandlePreinitServer,
               NullSessionServer DEF ThreadStep
  <1>2. CASE ReleaseStep
    BY <1>2, ReleaseSessionServer, ReleaseOutboundServer, ReleaseSocketServer DEF ReleaseStep
  <1>3. CASE ApartmentStep
    <2>1. CASE DestroyTask
      <3>1. UNCHANGED serverSide
        BY <2>1 DEF DestroyTask, serverSide, wireVars
      <3> QED BY <3>1, ServerSame
    <2>2. CASE DestroyHandlers
      BY <2>2, DestroyHandlersMoves, RemovalServer
    <2> QED BY <1>3, <2>1, <2>2, StartServerServer, ServerGoneServer, ApartmentServer DEF ApartmentStep, ApartmentGoes
  <1>4. CASE UserStep
    <2>1. CASE (\E f \in Files : LoadSession(f)) \/ \E i \in Clients \cup Files : OnUiActivated(i)
      <3>1. UNCHANGED serverSide
        BY <2>1 DEF LoadSession, OnUiActivated, serverSide, wireVars
      <3> QED BY <3>1, ServerSame
    <2> QED BY <1>4, <2>1, ApartmentServer DEF UserStep, ApartmentGoes
  <1>5. CASE RemoteStep
    <2>1. CASE \E c \in Clients : Send(c)
      <3>1. UNCHANGED serverSide
        BY <2>1 DEF Send, serverSide
      <3> QED BY <3>1, ServerSame
    <2> QED BY <1>5, <2>1, ConnectServer, GoneServer DEF RemoteStep, Gone
  <1>6. CASE Finished \/ UNCHANGED vars
    <2>1. UNCHANGED serverSide
      BY <1>6 DEF Finished, vars, serverSide, wireVars
    <2> QED BY <2>1, ServerSame
  <1> QED BY <1>1, <1>2, <1>3, <1>4, <1>5, <1>6 DEF Next

-----------------------------------------------------------------------------
(* The tasks: the queue.                                                   *)

LEMMA TaskFacts ==
    /\ \A k \in TaskKinds, c \in Clients : Task(k, c) \in Tasks /\ Task(k, c).kind = k /\ Task(k, c).of = c
    /\ \A t \in Tasks : t.kind \in TaskKinds /\ t.of \in Clients /\ t = Task(t.kind, t.of)
    /\ \A k, c, l, d : Task(k, c) = Task(l, d) => k = l /\ c = d
  BY DEF Task, Tasks

LEMMA QueueAppended ==
    ASSUME queue \in Seq(Tasks), NEW t \in Tasks, queue' = Append(queue, t)
    PROVE  /\ queue' \in Seq(Tasks) /\ Len(queue) \in Nat /\ Len(queue') = Len(queue) + 1
           /\ \A i \in 1..Len(queue) : queue'[i] = queue[i]
           /\ queue'[Len(queue) + 1] = t
           /\ \A k, c : Waits(k, c)' <=> Waits(k, c) \/ Task(k, c) = t
  <1>1. /\ queue' \in Seq(Tasks) /\ Len(queue) \in Nat /\ Len(queue') = Len(queue) + 1
        /\ \A i \in 1..Len(queue) : queue'[i] = queue[i]
        /\ queue'[Len(queue) + 1] = t
    BY AppendProperties, LenProperties
  <1>2. \A i : i \in 1..(Len(queue) + 1) <=> i \in 1..Len(queue) \/ i = Len(queue) + 1
    BY <1>1
  <1>3. ASSUME NEW x PROVE (\E n \in 1..Len(queue') : queue'[n] = x) <=> (\E n \in 1..Len(queue) : queue[n] = x) \/ x = t
    BY <1>1, <1>2
  <1> QED BY <1>1, <1>3 DEF Waits, Task

LEMMA QueueTaken ==
    ASSUME queue \in Seq(Tasks), queue # <<>>, queue' = Tail(queue)
    PROVE  /\ queue' \in Seq(Tasks) /\ Len(queue) \in Nat /\ Len(queue') = Len(queue) - 1 /\ Len(queue) >= 1
           /\ Head(queue) \in Tasks /\ Head(queue) = queue[1]
           /\ \A i \in 1..(Len(queue) - 1) : i + 1 \in 1..Len(queue) /\ queue'[i] = queue[i + 1]
           /\ \A k, c : Waits(k, c)' => Waits(k, c)
           /\ \A k, c : Head(queue) = Task(k, c) => Waits(k, c)
  <1>1. /\ queue' \in Seq(Tasks) /\ Len(queue) \in Nat /\ Len(queue') = Len(queue) - 1 /\ Len(queue) >= 1
        /\ Head(queue) \in Tasks /\ Head(queue) = queue[1]
        /\ \A i \in 1..(Len(queue) - 1) : queue'[i] = queue[i + 1]
    BY TailList
  <1>2. \A i \in 1..(Len(queue) - 1) : i + 1 \in 1..Len(queue)
    BY <1>1
  <1>3. 1 \in 1..Len(queue)
    BY <1>1
  <1>4. ASSUME NEW x, NEW n \in 1..Len(queue'), queue'[n] = x PROVE \E m \in 1..Len(queue) : queue[m] = x
    BY <1>1, <1>2, <1>4
  <1> QED BY <1>1, <1>2, <1>3, <1>4 DEF Waits, Task

-----------------------------------------------------------------------------
(* The tasks: what leaves them alone or adds one to the queue.             *)

\* The queue is left alone, or a task other than the first of a session is put on it.
Grows ==
    \/ queue' = queue
    \/ \E k \in {"message", "disconnect", "destroy"}, c \in Clients :
          /\ queue' = Append(queue, Task(k, c))
          /\ ~Before(c)
          /\ k = "destroy" => Detached(c)'

TaskMove ==
    /\ Grows
    /\ underlying' = underlying /\ received' = received
    /\ sent' \in [Clients -> Nat] /\ wire' \in [Clients -> Nat]
    /\ \A c \in Clients : /\ Before(c)' => Before(c) /\ (sent[c] = wire[c] => sent'[c] = wire'[c])
                          /\ alive'[c] => alive[c]
                          /\ out'[c] => out[c]
                          /\ Detached(c) => Detached(c)'
    /\ apartment' = apartment \/ (apartment.at # "task" /\ apartment'.at # "task")

LEMMA GrowsFacts ==
    ASSUME queue \in Seq(Tasks), Grows
    PROVE  /\ queue' \in Seq(Tasks) /\ Len(queue) \in Nat
           /\ \A c \in Clients, k \in TaskKinds : Waits(k, c)' => Waits(k, c) \/ (k # "create" /\ ~Before(c) /\ (k = "destroy" => Detached(c)'))
           /\ \A c \in Clients : OneCreate(c) => OneCreate(c)'
           /\ \A i \in 1..Len(queue) : i \in 1..Len(queue') /\ queue'[i] = queue[i]
  <1>1. CASE queue' = queue
    BY <1>1, LenProperties DEF Waits, OneCreate
  <1>2. ASSUME NEW k \in {"message", "disconnect", "destroy"}, NEW c \in Clients,
               queue' = Append(queue, Task(k, c)), ~Before(c), k = "destroy" => Detached(c)'
        PROVE  /\ queue' \in Seq(Tasks) /\ Len(queue) \in Nat
               /\ \A d \in Clients, l \in TaskKinds : Waits(l, d)' => Waits(l, d) \/ (l # "create" /\ ~Before(d) /\ (l = "destroy" => Detached(d)'))
               /\ \A d \in Clients : OneCreate(d) => OneCreate(d)'
               /\ \A i \in 1..Len(queue) : i \in 1..Len(queue') /\ queue'[i] = queue[i]
    <2>1. PICK t \in Tasks : t = Task(k, c)
      BY TaskFacts DEF TaskKinds
    <2>2. /\ queue' \in Seq(Tasks) /\ Len(queue) \in Nat /\ Len(queue') = Len(queue) + 1
          /\ \A i \in 1..Len(queue) : queue'[i] = queue[i]
          /\ queue'[Len(queue) + 1] = t
          /\ \A l, d : Waits(l, d)' <=> Waits(l, d) \/ Task(l, d) = t
      BY <1>2, <2>1, QueueAppended
    <2>3. \A d \in Clients, l \in TaskKinds : Waits(l, d)' => Waits(l, d) \/ (l # "create" /\ ~Before(d) /\ (l = "destroy" => Detached(d)'))
      <3> SUFFICES ASSUME NEW d \in Clients, NEW l \in TaskKinds, Waits(l, d)', ~Waits(l, d)
                   PROVE  l # "create" /\ ~Before(d) /\ (l = "destroy" => Detached(d)')
        OBVIOUS
      <3>1. l = k /\ d = c
        BY <2>1, <2>2, TaskFacts
      <3> QED BY <3>1, <1>2
    <2>4. ASSUME NEW d \in Clients, OneCreate(d) PROVE OneCreate(d)'
      <3>1. t # Task("create", d)
        BY <2>1, TaskFacts
      <3>2. \A i \in 1..Len(queue') : i \in 1..Len(queue) \/ i = Len(queue) + 1
        BY <2>2
      <3> QED BY <2>2, <2>4, <3>1, <3>2 DEF OneCreate, Task
    <2>5. \A i \in 1..Len(queue) : i \in 1..Len(queue')
      BY <2>2
    <2> QED BY <2>2, <2>3, <2>4, <2>5
  <1> QED BY <1>1, <1>2 DEF Grows

LEMMA TaskMoves ==
    ASSUME TaskInv, TaskMove
    PROVE  TaskInv'
  <1>1. queue \in Seq(Tasks) /\ Grows
    BY DEF TaskInv, TasksTyped, TaskMove
  <1>2. /\ queue' \in Seq(Tasks) /\ Len(queue) \in Nat
        /\ \A c \in Clients, k \in TaskKinds : Waits(k, c)' => Waits(k, c) \/ (k # "create" /\ ~Before(c) /\ (k = "destroy" => Detached(c)'))
        /\ \A c \in Clients : OneCreate(c) => OneCreate(c)'
        /\ \A i \in 1..Len(queue) : i \in 1..Len(queue') /\ queue'[i] = queue[i]
    BY <1>1, GrowsFacts
  <1>3. /\ underlying' = underlying /\ received' = received
        /\ \A c \in Clients : /\ Before(c)' => Before(c) /\ (sent[c] = wire[c] => sent'[c] = wire'[c])
                              /\ alive'[c] => alive[c]
                              /\ out'[c] => out[c]
                              /\ Detached(c) => Detached(c)'
    BY DEF TaskMove
  <1>4. TasksTyped'
    BY <1>2 DEF TaskMove, TaskInv, TasksTyped
  <1>5. FreshBefore'
    <2> SUFFICES ASSUME NEW c \in Clients, Before(c)' PROVE Fresh(c)'
      BY DEF FreshBefore
    <2>1. Before(c) /\ Fresh(c)
      BY <1>3 DEF TaskInv, FreshBefore
    <2>2. \A k \in TaskKinds : ~Waits(k, c)'
      BY <2>1, <1>2 DEF Fresh
    <2> QED BY <2>1, <2>2, <1>3 DEF Fresh
  <1>6. \A c \in Clients : Making(c)' <=> Making(c)
    BY DEF TaskMove, Making
  <1>7. ASSUME NEW c \in Clients
        PROVE  /\ alive'[c] => underlying'[c] # "gone"
               /\ Waits("create", c)' => underlying'[c] = "none" /\ ~Making(c)'
               /\ Making(c)' => underlying'[c] = "none"
               /\ OneCreate(c)'
               /\ CreateFirst(c)'
               /\ Waits("destroy", c)' => Detached(c)'
               /\ apartment'.at = "task" /\ apartment'.of = c /\ ~Making(c)' => underlying'[c] = "made"
    <2>1. /\ alive[c] => underlying[c] # "gone"
          /\ Waits("create", c) => underlying[c] = "none" /\ ~Making(c)
          /\ Making(c) => underlying[c] = "none"
          /\ OneCreate(c)
          /\ CreateFirst(c)
          /\ Waits("destroy", c) => Detached(c)
          /\ apartment.at = "task" /\ apartment.of = c /\ ~Making(c) => underlying[c] = "made"
      BY DEF TaskInv, MadeFirst
    <2>2. Waits("create", c)' => Waits("create", c)
      BY <1>2 DEF TaskKinds
    <2>3. Waits("destroy", c)' => Detached(c)'
      BY <2>1, <1>2, <1>3 DEF TaskKinds
    <2>4. CreateFirst(c)'
      <3> SUFFICES ASSUME alive'[c], underlying'[c] = "none", ~Making(c)'
                   PROVE  \E j \in 1..Len(queue') : queue'[j] = Task("create", c) /\ \A i \in 1..(j - 1) : queue'[i].of # c
        BY DEF CreateFirst, Task
      <3>1. PICK j \in 1..Len(queue) : queue[j] = Task("create", c) /\ \A i \in 1..(j - 1) : queue[i].of # c
        BY <2>1, <1>3, <1>6 DEF CreateFirst
      <3>2. j \in 1..Len(queue') /\ \A i \in 1..(j - 1) : i \in 1..Len(queue)
        BY <1>2
      <3> QED BY <3>1, <3>2, <1>2
    <2>5. apartment'.at = "task" => apartment' = apartment
      BY DEF TaskMove
    <2> QED BY <2>1, <2>2, <2>3, <2>4, <2>5, <1>2, <1>3, <1>6
  <1>8. MadeFirst'
    BY <1>7 DEF MadeFirst
  <1> QED BY <1>4, <1>5, <1>8 DEF TaskInv

-----------------------------------------------------------------------------
(* The tasks: sessions are made.                                           *)

Creation(cs) ==
    /\ cs \in Seq(Clients) /\ IsInjective(cs)
    /\ queue' = queue \o [i \in 1..Len(cs) |-> Task("create", cs[i])]
    /\ UNCHANGED <<underlying, received, sent, wire, apartment>>
    /\ \A c \in Clients : /\ c \in ToSet(cs) => Before(c) /\ ~Before(c)'
                          /\ Before(c)' => Before(c)
                          /\ alive'[c] <=> alive[c] \/ c \in ToSet(cs)
                          /\ out'[c] => out[c] \/ c \in ToSet(cs)
                          /\ Detached(c) => Detached(c)'

LEMMA QueueExtended ==
    ASSUME queue \in Seq(Tasks), NEW cs \in Seq(Clients), queue' = queue \o [i \in 1..Len(cs) |-> Task("create", cs[i])]
    PROVE  /\ queue' \in Seq(Tasks) /\ Len(queue) \in Nat /\ Len(cs) \in Nat /\ Len(queue') = Len(queue) + Len(cs)
           /\ \A i \in 1..Len(queue) : i \in 1..Len(queue') /\ queue'[i] = queue[i]
           /\ \A i \in 1..Len(cs) : Len(queue) + i \in 1..Len(queue') /\ queue'[Len(queue) + i] = Task("create", cs[i])
           /\ \A n \in 1..Len(queue') : n \in 1..Len(queue) \/ \E i \in 1..Len(cs) : n = Len(queue) + i
  <1>1. PICK f : f = [i \in 1..Len(cs) |-> Task("create", cs[i])]
    OBVIOUS
  <1>2. Len(cs) \in Nat /\ Len(queue) \in Nat
    BY LenProperties
  <1>3. \A i \in 1..Len(cs) : f[i] = Task("create", cs[i]) /\ f[i] \in Tasks
    BY <1>1, ElementOfSeq, TaskFacts DEF TaskKinds
  <1>4. f \in Seq(Tasks) /\ Len(f) = Len(cs)
    <2>1. f \in [1..Len(cs) -> Tasks]
      BY <1>1, <1>3
    <2>2. f \in Seq(Tasks)
      BY <2>1, <1>2, SeqDef
    <2>3. DOMAIN f = 1..Len(cs)
      BY <1>1
    <2> QED BY <2>2, <2>3, <1>2, LenProperties
  <1>5. /\ queue' \in Seq(Tasks) /\ Len(queue') = Len(queue) + Len(cs)
        /\ \A i \in 1..(Len(queue) + Len(cs)) : queue'[i] = IF i <= Len(queue) THEN queue[i] ELSE f[i - Len(queue)]
    BY <1>1, <1>4, ConcatProperties
  <1>6. \A i \in 1..Len(queue) : i \in 1..Len(queue') /\ queue'[i] = queue[i]
    BY <1>2, <1>5
  <1>7. \A i \in 1..Len(cs) : Len(queue) + i \in 1..Len(queue') /\ ~(Len(queue) + i <= Len(queue)) /\ (Len(queue) + i) - Len(queue) = i
    BY <1>2, <1>5
  <1>8. \A i \in 1..Len(cs) : queue'[Len(queue) + i] = Task("create", cs[i])
    BY <1>3, <1>5, <1>7
  <1>9. ASSUME NEW n \in 1..Len(queue'), n \notin 1..Len(queue)
        PROVE  \E i \in 1..Len(cs) : n = Len(queue) + i
    <2>1. n - Len(queue) \in 1..Len(cs) /\ n = Len(queue) + (n - Len(queue))
      BY <1>2, <1>5, <1>9
    <2> QED BY <2>1
  <1> QED BY <1>2, <1>5, <1>6, <1>7, <1>8, <1>9

LEMMA CreationTasks ==
    ASSUME ServerInv, TaskInv, NEW cs, Creation(cs)
    PROVE  TaskInv'
  <1>1. cs \in Seq(Clients) /\ IsInjective(cs) /\ queue \in Seq(Tasks)
    BY DEF Creation, TaskInv, TasksTyped
  <1>2. /\ queue' \in Seq(Tasks) /\ Len(queue) \in Nat /\ Len(cs) \in Nat /\ Len(queue') = Len(queue) + Len(cs)
        /\ \A i \in 1..Len(queue) : i \in 1..Len(queue') /\ queue'[i] = queue[i]
        /\ \A i \in 1..Len(cs) : Len(queue) + i \in 1..Len(queue') /\ queue'[Len(queue) + i] = Task("create", cs[i])
        /\ \A n \in 1..Len(queue') : n \in 1..Len(queue) \/ \E i \in 1..Len(cs) : n = Len(queue) + i
    BY <1>1, QueueExtended DEF Creation
  <1>3. underlying' = underlying /\ received' = received /\ sent' = sent /\ wire' = wire /\ apartment' = apartment
    BY DEF Creation
  <1>4. /\ \A c : c \in ToSet(cs) <=> \E i \in 1..Len(cs) : cs[i] = c
        /\ \A i, j \in 1..Len(cs) : cs[i] = cs[j] => i = j
        /\ \A i \in 1..Len(cs) : cs[i] \in Clients
    BY <1>1, ToSetFacts, ElementOfSeq DEF IsInjective
  <1>5. \A k, c : Waits(k, c)' => Waits(k, c) \/ (k = "create" /\ c \in ToSet(cs))
    <2> SUFFICES ASSUME NEW k, NEW c, Waits(k, c)', ~Waits(k, c) PROVE k = "create" /\ c \in ToSet(cs)
      OBVIOUS
    <2>1. PICK n \in 1..Len(queue') : queue'[n] = Task(k, c)
      BY DEF Waits, Task
    <2>2. n \notin 1..Len(queue)
      BY <2>1, <1>2 DEF Waits
    <2>3. PICK i \in 1..Len(cs) : n = Len(queue) + i
      BY <2>2, <1>2
    <2>4. Task(k, c) = Task("create", cs[i])
      BY <2>1, <2>3, <1>2
    <2> QED BY <2>4, <1>4, TaskFacts
  <1>6. \A c \in Clients : c \in ToSet(cs) => Fresh(c) /\ ~Making(c) /\ ~(apartment.at = "task" /\ apartment.of = c)
    <2> SUFFICES ASSUME NEW c \in Clients, c \in ToSet(cs)
                 PROVE  Fresh(c) /\ ~(apartment.at = "task" /\ apartment.of = c)
      BY DEF Making
    <2>1. Fresh(c)
      BY DEF Creation, TaskInv, FreshBefore
    <2> QED BY <2>1 DEF Fresh, ServerInv, Inside
  <1>7. TasksTyped'
    BY <1>2, <1>3 DEF TaskInv, TasksTyped
  <1>8. FreshBefore'
    <2> SUFFICES ASSUME NEW c \in Clients, Before(c)' PROVE Fresh(c)'
      BY DEF FreshBefore
    <2>1. Fresh(c) /\ c \notin ToSet(cs)
      BY DEF Creation, TaskInv, FreshBefore
    <2>2. \A k \in TaskKinds : ~Waits(k, c)'
      BY <2>1, <1>5 DEF Fresh
    <2> QED BY <2>1, <2>2, <1>3 DEF Fresh, Creation
  <1>9. ASSUME NEW c \in Clients PROVE OneCreate(c)'
    <2> SUFFICES ASSUME NEW j \in 1..Len(queue'), NEW k \in 1..Len(queue'),
                        queue'[j] = Task("create", c), queue'[k] = Task("create", c)
                 PROVE  j = k
      BY DEF OneCreate, Task
    <2>1. CASE c \in ToSet(cs)
      <3>1. \A n \in 1..Len(queue) : queue[n] # Task("create", c)
        BY <2>1, <1>6 DEF Fresh, Waits, TaskKinds
      <3>2. PICK a \in 1..Len(cs) : j = Len(queue) + a
        BY <3>1, <1>2
      <3>3. PICK b \in 1..Len(cs) : k = Len(queue) + b
        BY <3>1, <1>2
      <3>4. Task("create", cs[a]) = Task("create", c) /\ Task("create", cs[b]) = Task("create", c)
        BY <3>2, <3>3, <1>2
      <3>5. cs[a] = cs[b]
        BY <3>4, TaskFacts
      <3> QED BY <3>2, <3>3, <3>5, <1>4
    <2>2. CASE c \notin ToSet(cs)
      <3>1. \A i \in 1..Len(cs) : Task("create", cs[i]) # Task("create", c)
        BY <2>2, <1>4, TaskFacts
      <3>2. j \in 1..Len(queue) /\ k \in 1..Len(queue)
        BY <3>1, <1>2
      <3>3. OneCreate(c)
        BY DEF TaskInv, MadeFirst
      <3> QED BY <3>2, <3>3, <1>2 DEF OneCreate
    <2> QED BY <2>1, <2>2
  <1>10. ASSUME NEW c \in Clients PROVE CreateFirst(c)'
    <2> SUFFICES ASSUME alive'[c], underlying'[c] = "none", ~Making(c)'
                 PROVE  \E j \in 1..Len(queue') : queue'[j] = Task("create", c) /\ \A i \in 1..(j - 1) : queue'[i].of # c
      BY DEF CreateFirst, Task
    <2>1. CASE c \in ToSet(cs)
      <3>1. PICK a \in 1..Len(cs) : cs[a] = c
        BY <2>1, <1>4
      <3>2. Len(queue) + a \in 1..Len(queue') /\ queue'[Len(queue) + a] = Task("create", c)
        BY <3>1, <1>2
      <3>3. ASSUME NEW i \in 1..((Len(queue) + a) - 1), queue'[i].of = c PROVE FALSE
        <4>1. i \in 1..Len(queue')
          BY <1>2, <3>2
        <4>2. CASE i \in 1..Len(queue)
          <5>1. queue[i] \in Tasks /\ queue[i].of = c
            BY <4>2, <3>3, <1>1, <1>2, ElementOfSeq
          <5>2. queue[i] = Task(queue[i].kind, c) /\ queue[i].kind \in TaskKinds
            BY <5>1, TaskFacts
          <5>3. Waits(queue[i].kind, c)
            BY <4>2, <5>2 DEF Waits
          <5> QED BY <5>2, <5>3, <2>1, <1>6 DEF Fresh
        <4>3. CASE i \notin 1..Len(queue)
          <5>1. PICK b \in 1..Len(cs) : i = Len(queue) + b
            BY <4>1, <4>3, <1>2
          <5>2. Task("create", cs[b]).of = c
            BY <5>1, <1>2, <3>3
          <5>3. cs[b] = c
            BY <5>2 DEF Task
          <5>4. b = a
            BY <5>3, <3>1, <1>4
          <5> QED BY <5>1, <5>4, <1>2
        <4> QED BY <4>2, <4>3
      <3> QED BY <3>2, <3>3
    <2>2. CASE c \notin ToSet(cs)
      <3>1. alive[c] /\ underlying[c] = "none" /\ ~Making(c) /\ CreateFirst(c)
        BY <2>2, <1>3 DEF Creation, Making, TaskInv, MadeFirst
      <3>2. PICK j \in 1..Len(queue) : queue[j] = Task("create", c) /\ \A i \in 1..(j - 1) : queue[i].of # c
        BY <3>1 DEF CreateFirst
      <3>3. j \in 1..Len(queue') /\ \A i \in 1..(j - 1) : i \in 1..Len(queue)
        BY <1>2
      <3> QED BY <3>2, <3>3, <1>2
    <2> QED BY <2>1, <2>2
  <1>11. ASSUME NEW c \in Clients
         PROVE  /\ alive'[c] => underlying'[c] # "gone"
                /\ Waits("create", c)' => underlying'[c] = "none" /\ ~Making(c)'
                /\ Making(c)' => underlying'[c] = "none"
                /\ Waits("destroy", c)' => Detached(c)'
                /\ apartment'.at = "task" /\ apartment'.of = c /\ ~Making(c)' => underlying'[c] = "made"
    <2>1. /\ alive[c] => underlying[c] # "gone"
          /\ Waits("create", c) => underlying[c] = "none" /\ ~Making(c)
          /\ Making(c) => underlying[c] = "none"
          /\ Waits("destroy", c) => Detached(c)
          /\ apartment.at = "task" /\ apartment.of = c /\ ~Making(c) => underlying[c] = "made"
      BY DEF TaskInv, MadeFirst
    <2>2. Making(c)' <=> Making(c)
      BY <1>3 DEF Making
    <2>3. c \in ToSet(cs) => underlying[c] = "none" /\ ~Making(c)
      BY <1>6 DEF Fresh
    <2>4. (alive'[c] => alive[c] \/ c \in ToSet(cs)) /\ (Detached(c) => Detached(c)')
      BY DEF Creation
    <2> QED BY <2>1, <2>2, <2>3, <2>4, <1>3, <1>5
  <1>12. MadeFirst'
    BY <1>9, <1>10, <1>11 DEF MadeFirst
  <1> QED BY <1>7, <1>8, <1>12 DEF TaskInv

-----------------------------------------------------------------------------
(* The tasks: the apartment takes them off its queue.                      *)

LEMMA TakenTasks ==
    ASSUME TaskInv, queue # <<>>, queue' = Tail(queue)
    PROVE  /\ queue' \in Seq(Tasks)
           /\ \A c \in Clients : OneCreate(c)' /\ (Head(queue) = Task("create", c) => ~Waits("create", c)')
           /\ \A c \in Clients :
                 alive[c] /\ underlying[c] = "none" /\ ~Making(c) /\ Head(queue) # Task("create", c) =>
                     \E j \in 1..Len(queue') : queue'[j] = Task("create", c) /\ \A i \in 1..(j - 1) : queue'[i].of # c
           /\ \A c \in Clients :
                 alive[c] /\ underlying[c] = "none" /\ ~Making(c) /\ Head(queue).of = c => Head(queue) = Task("create", c)
  <1>1. queue \in Seq(Tasks)
    BY DEF TaskInv, TasksTyped
  <1>2. /\ queue' \in Seq(Tasks) /\ Len(queue) \in Nat /\ Len(queue') = Len(queue) - 1 /\ Len(queue) >= 1
        /\ Head(queue) = queue[1]
        /\ \A i \in 1..(Len(queue) - 1) : i + 1 \in 1..Len(queue) /\ queue'[i] = queue[i + 1]
    BY <1>1, QueueTaken
  <1>3. ASSUME NEW c \in Clients PROVE OneCreate(c)' /\ (Head(queue) = Task("create", c) => ~Waits("create", c)')
    <2>1. \A j, k \in 1..Len(queue) : queue[j] = Task("create", c) /\ queue[k] = Task("create", c) => j = k
      BY DEF TaskInv, MadeFirst, OneCreate
    <2>2. OneCreate(c)'
      <3> SUFFICES ASSUME NEW j \in 1..(Len(queue) - 1), NEW k \in 1..(Len(queue) - 1),
                          queue'[j] = Task("create", c), queue'[k] = Task("create", c)
                   PROVE  j = k
        BY <1>2 DEF OneCreate, Task
      <3>1. j + 1 = k + 1
        BY <2>1, <1>2
      <3> QED BY <3>1
    <2>3. ASSUME Head(queue) = Task("create", c), Waits("create", c)' PROVE FALSE
      <3>1. PICK n \in 1..(Len(queue) - 1) : queue'[n] = Task("create", c)
        BY <2>3, <1>2 DEF Waits, Task
      <3>2. n + 1 \in 1..Len(queue) /\ 1 \in 1..Len(queue) /\ queue[n + 1] = Task("create", c) /\ queue[1] = Task("create", c)
        BY <3>1, <1>2, <2>3
      <3>3. n + 1 = 1
        BY <2>1, <3>2
      <3> QED BY <3>3, <1>2
    <2> QED BY <2>2, <2>3
  <1>4. ASSUME NEW c \in Clients, alive[c], underlying[c] = "none", ~Making(c)
        PROVE  /\ Head(queue) # Task("create", c) =>
                     \E j \in 1..Len(queue') : queue'[j] = Task("create", c) /\ \A i \in 1..(j - 1) : queue'[i].of # c
               /\ Head(queue).of = c => Head(queue) = Task("create", c)
    <2>1. PICK j \in 1..Len(queue) : queue[j] = Task("create", c) /\ \A i \in 1..(j - 1) : queue[i].of # c
      BY <1>4 DEF TaskInv, MadeFirst, CreateFirst
    <2>2. ASSUME j # 1
          PROVE  /\ \E k \in 1..Len(queue') : queue'[k] = Task("create", c) /\ \A i \in 1..(k - 1) : queue'[i].of # c
                 /\ Head(queue).of # c
      <3>1. j - 1 \in 1..(Len(queue) - 1) /\ (j - 1) + 1 = j
        BY <2>2, <1>2
      <3>2. queue'[j - 1] = Task("create", c)
        BY <3>1, <2>1, <1>2
      <3>3. \A i \in 1..((j - 1) - 1) : i \in 1..(Len(queue) - 1) /\ i + 1 \in 1..(j - 1)
        BY <1>2
      <3>4. \A i \in 1..((j - 1) - 1) : queue'[i].of # c
        BY <3>3, <2>1, <1>2
      <3>5. 1 \in 1..(j - 1)
        BY <3>1
      <3>6. Head(queue).of # c
        BY <3>5, <2>1, <1>2
      <3> QED BY <3>1, <3>2, <3>4, <3>6, <1>2
    <2> QED BY <2>1, <2>2, <1>2
  <1> QED BY <1>2, <1>3, <1>4

LEMMA BeginTaskTasks ==
    ASSUME ServerInv, TaskInv, BeginTask
    PROVE  TaskInv'
  <1>1. PICK t : t = Head(queue)
    OBVIOUS
  <1>2. /\ apartment = Idle /\ queue # <<>> /\ t.kind # "destroy" /\ queue' = Tail(queue)
        /\ apartment' = IF alive[t.of] THEN At("task", t.of, t.kind) ELSE Idle
        /\ remote' = remote /\ sent' = sent /\ wire' = wire /\ backlog' = backlog /\ handlers' = handlers /\ kind' = kind
        /\ release' = release /\ alive' = alive /\ out' = out /\ received' = received /\ underlying' = underlying
    BY <1>1 DEF BeginTask, wireVars, serverVars, sessionVars
  <1>3. queue \in Seq(Tasks)
    BY DEF TaskInv, TasksTyped
  <1>4. t \in Tasks /\ \A k, c : Waits(k, c)' => Waits(k, c)
    BY <1>1, <1>2, <1>3, QueueTaken
  <1>5. t.kind \in TaskKinds /\ t.of \in Clients /\ t = Task(t.kind, t.of) /\ Waits(t.kind, t.of)
    BY <1>1, <1>2, <1>3, <1>4, QueueTaken, TaskFacts
  <1>6. /\ queue' \in Seq(Tasks)
        /\ \A c \in Clients : OneCreate(c)' /\ (t = Task("create", c) => ~Waits("create", c)')
        /\ \A c \in Clients :
              alive[c] /\ underlying[c] = "none" /\ ~Making(c) /\ t # Task("create", c) =>
                  \E j \in 1..Len(queue') : queue'[j] = Task("create", c) /\ \A i \in 1..(j - 1) : queue'[i].of # c
        /\ \A c \in Clients :
              alive[c] /\ underlying[c] = "none" /\ ~Making(c) /\ t.of = c => t = Task("create", c)
    BY <1>1, <1>2, TakenTasks
  <1>7. \A c \in Clients : ~Making(c)
    BY <1>2 DEF Making, Idle, At
  <1>8. /\ \A c : apartment'.at = "task" /\ apartment'.of = c => c = t.of /\ alive[c] /\ apartment'.then = t.kind
        /\ \A c \in Clients : Making(c)' <=> c = t.of /\ alive[c] /\ t.kind = "create"
    <2>1. CASE alive[t.of]
      <3>1. apartment' = At("task", t.of, t.kind)
        BY <2>1, <1>2
      <3> QED BY <3>1, <2>1 DEF Making, At
    <2>2. CASE ~alive[t.of]
      <3>1. apartment' = Idle
        BY <2>2, <1>2
      <3> QED BY <3>1, <2>2 DEF Making, At, Idle
    <2> QED BY <2>1, <2>2
  <1>9. TasksTyped'
    BY <1>2, <1>6 DEF TaskInv, TasksTyped
  <1>10. /\ \A c : Before(c)' <=> Before(c)
         /\ \A c : Detached(c)' <=> Detached(c)
    BY <1>2 DEF Before, Detached, Releasing
  <1>11. FreshBefore'
    BY <1>2, <1>4, <1>10 DEF TaskInv, FreshBefore, Fresh
  <1>12. ASSUME NEW c \in Clients
         PROVE  /\ alive'[c] => underlying'[c] # "gone"
                /\ Waits("create", c)' => underlying'[c] = "none" /\ ~Making(c)'
                /\ Making(c)' => underlying'[c] = "none"
                /\ OneCreate(c)'
                /\ CreateFirst(c)'
                /\ Waits("destroy", c)' => Detached(c)'
                /\ apartment'.at = "task" /\ apartment'.of = c /\ ~Making(c)' => underlying'[c] = "made"
    <2>1. /\ alive[c] => underlying[c] # "gone"
          /\ Waits("create", c) => underlying[c] = "none"
          /\ Waits("destroy", c) => Detached(c)
      BY DEF TaskInv, MadeFirst
    <2>2. Waits("create", c)' => underlying'[c] = "none" /\ ~Making(c)'
      BY <2>1, <1>2, <1>4, <1>5, <1>6, <1>8
    <2>3. Making(c)' => underlying'[c] = "none"
      BY <2>1, <1>2, <1>5, <1>8
    <2>4. CreateFirst(c)'
      <3> SUFFICES ASSUME alive'[c], underlying'[c] = "none", ~Making(c)'
                   PROVE  \E j \in 1..Len(queue') : queue'[j] = Task("create", c) /\ \A i \in 1..(j - 1) : queue'[i].of # c
        BY DEF CreateFirst, Task
      <3>1. t # Task("create", c)
        BY <1>2, <1>8, TaskFacts DEF TaskKinds
      <3> QED BY <3>1, <1>2, <1>6, <1>7
    <2>5. ASSUME apartment'.at = "task", apartment'.of = c, ~Making(c)' PROVE underlying[c] = "made"
      <3>1. c = t.of /\ alive[c] /\ t.kind # "create"
        BY <2>5, <1>8
      <3>2. underlying[c] # "none"
        BY <3>1, <1>6, <1>7, TaskFacts DEF TaskKinds
      <3> QED BY <3>1, <3>2, <2>1 DEF TaskInv, TasksTyped
    <2> QED BY <2>1, <2>2, <2>3, <2>4, <2>5, <1>2, <1>4, <1>6, <1>10
  <1>13. MadeFirst'
    BY <1>12 DEF MadeFirst
  <1> QED BY <1>9, <1>11, <1>13 DEF TaskInv

LEMMA GoneSession ==
    ASSUME ServerInv, NEW c \in Clients, Detached(c)
    PROVE  ~alive[c] /\ ~out[c]
  BY DEF ServerInv, Lifetimes, Detached, Releasing

LEMMA DestroyTaskTasks ==
    ASSUME ServerInv, TaskInv, DestroyTask
    PROVE  TaskInv'
  <1>1. PICK t : t = Head(queue)
    OBVIOUS
  <1>2. /\ apartment = Idle /\ queue # <<>> /\ t.kind = "destroy" /\ queue' = Tail(queue) /\ apartment' = apartment
        /\ underlying' = IF underlying[t.of] = "made" THEN [underlying EXCEPT ![t.of] = "gone"] ELSE underlying
        /\ remote' = remote /\ sent' = sent /\ wire' = wire /\ backlog' = backlog /\ handlers' = handlers /\ kind' = kind
        /\ release' = release /\ alive' = alive /\ out' = out /\ received' = received
    BY <1>1 DEF DestroyTask, wireVars, serverVars, sessionVars
  <1>3. queue \in Seq(Tasks) /\ underlying \in [Clients -> {"none", "made", "gone"}]
    BY DEF TaskInv, TasksTyped
  <1>4. t \in Tasks /\ \A k, c : Waits(k, c)' => Waits(k, c)
    BY <1>1, <1>2, <1>3, QueueTaken
  <1>5. t.of \in Clients /\ t = Task("destroy", t.of) /\ Waits("destroy", t.of)
    BY <1>1, <1>2, <1>3, <1>4, QueueTaken, TaskFacts
  <1>6. /\ queue' \in Seq(Tasks)
        /\ \A c \in Clients : OneCreate(c)'
        /\ \A c \in Clients :
              alive[c] /\ underlying[c] = "none" /\ ~Making(c) /\ t # Task("create", c) =>
                  \E j \in 1..Len(queue') : queue'[j] = Task("create", c) /\ \A i \in 1..(j - 1) : queue'[i].of # c
    BY <1>1, <1>2, TakenTasks
  <1>7. Detached(t.of)
    BY <1>5 DEF TaskInv, MadeFirst
  <1>8. ~alive[t.of]
    BY <1>5, <1>7, GoneSession
  <1>9. /\ underlying' \in [Clients -> {"none", "made", "gone"}]
        /\ \A c \in Clients : underlying'[c] = underlying[c] \/ (c = t.of /\ underlying[c] = "made")
        /\ \A c \in Clients : underlying'[c] = "none" <=> underlying[c] = "none"
    BY <1>2, <1>3, <1>5
  <1>10. \A c \in Clients : ~Making(c) /\ ~Making(c)' /\ apartment'.at # "task"
    BY <1>2 DEF Making, Idle, At
  <1>11. TasksTyped'
    BY <1>2, <1>6, <1>9 DEF TaskInv, TasksTyped
  <1>12. /\ \A c : Before(c)' <=> Before(c)
         /\ \A c : Detached(c)' <=> Detached(c)
    BY <1>2 DEF Before, Detached, Releasing
  <1>13. FreshBefore'
    BY <1>2, <1>4, <1>9, <1>12 DEF TaskInv, FreshBefore, Fresh
  <1>14. ASSUME NEW c \in Clients
         PROVE  /\ alive'[c] => underlying'[c] # "gone"
                /\ Waits("create", c)' => underlying'[c] = "none"
                /\ CreateFirst(c)'
                /\ Waits("destroy", c)' => Detached(c)'
    <2>1. /\ alive[c] => underlying[c] # "gone"
          /\ Waits("create", c) => underlying[c] = "none"
          /\ Waits("destroy", c) => Detached(c)
      BY DEF TaskInv, MadeFirst
    <2>2. alive'[c] => underlying'[c] # "gone"
      BY <2>1, <1>2, <1>8, <1>9
    <2>3. CreateFirst(c)'
      <3> SUFFICES ASSUME alive'[c], underlying'[c] = "none"
                   PROVE  \E j \in 1..Len(queue') : queue'[j] = Task("create", c) /\ \A i \in 1..(j - 1) : queue'[i].of # c
        BY DEF CreateFirst, Task
      <3>1. t # Task("create", c)
        BY <1>5, TaskFacts
      <3> QED BY <3>1, <1>2, <1>6, <1>9, <1>10
    <2> QED BY <2>1, <2>2, <2>3, <1>4, <1>9, <1>12
  <1>15. MadeFirst'
    BY <1>6, <1>10, <1>14 DEF MadeFirst
  <1> QED BY <1>11, <1>13, <1>15 DEF TaskInv

LEMMA EndTaskTasks ==
    ASSUME ServerInv, TaskInv, EndTask
    PROVE  TaskInv'
  <1>1. PICK c \in Clients : c = apartment.of /\ alive[c] /\ apartment.then \in {"create", "message", "disconnect"}
    BY DEF EndTask, ServerInv, ApartmentTyped, Inside
  <1>2. /\ apartment.at = "task" /\ apartment' = Idle /\ queue' = queue
        /\ remote' = remote /\ sent' = sent /\ wire' = wire /\ backlog' = backlog /\ handlers' = handlers /\ kind' = kind
        /\ release' = release /\ alive' = alive /\ out' = out
    BY DEF EndTask, wireVars, serverVars, sessionVars
  <1>3. underlying \in [Clients -> {"none", "made", "gone"}] /\ received \in [Clients -> Nat]
    BY DEF TaskInv, TasksTyped
  <1>4. /\ underlying' = IF apartment.then = "create" THEN [underlying EXCEPT ![c] = "made"] ELSE underlying
        /\ received' = IF apartment.then = "message" THEN [received EXCEPT ![c] = @ + 1] ELSE received
    BY <1>1 DEF EndTask, Attach, Deliver
  <1>5. /\ underlying' \in [Clients -> {"none", "made", "gone"}] /\ received' \in [Clients -> Nat]
        /\ \A d \in Clients : d # c => underlying'[d] = underlying[d] /\ received'[d] = received[d]
        /\ underlying'[c] = IF apartment.then = "create" THEN "made" ELSE underlying[c]
    BY <1>3, <1>4
  <1>6. ~Before(c)
    BY <1>1 DEF TaskInv, FreshBefore, Fresh
  <1>7. /\ \A d : Before(d)' <=> Before(d)
        /\ \A d : Detached(d)' <=> Detached(d)
        /\ \A k, d : Waits(k, d)' <=> Waits(k, d)
        /\ \A d : OneCreate(d)' <=> OneCreate(d)
    BY <1>2 DEF Before, Detached, Releasing, Waits, OneCreate, Task
  <1>8. TasksTyped'
    BY <1>2, <1>5 DEF TaskInv, TasksTyped
  <1>9. FreshBefore'
    BY <1>2, <1>5, <1>6, <1>7 DEF TaskInv, FreshBefore, Fresh
  <1>10. \A d \in Clients : ~Making(d)' /\ apartment'.at # "task" /\ (Making(d) <=> d = c /\ apartment.then = "create")
    BY <1>1, <1>2 DEF Making, Idle, At
  <1>11. ASSUME NEW d \in Clients
         PROVE  /\ alive'[d] => underlying'[d] # "gone"
                /\ Waits("create", d)' => underlying'[d] = "none"
                /\ OneCreate(d)'
                /\ CreateFirst(d)'
                /\ Waits("destroy", d)' => Detached(d)'
    <2>1. /\ alive[d] => underlying[d] # "gone"
          /\ Waits("create", d) => underlying[d] = "none" /\ ~Making(d)
          /\ OneCreate(d) /\ CreateFirst(d)
          /\ Waits("destroy", d) => Detached(d)
      BY DEF TaskInv, MadeFirst
    <2>2. CreateFirst(d)'
      <3> SUFFICES ASSUME alive'[d], underlying'[d] = "none"
                   PROVE  \E j \in 1..Len(queue') : queue'[j] = Task("create", d) /\ \A i \in 1..(j - 1) : queue'[i].of # d
        BY DEF CreateFirst, Task
      <3>1. alive[d] /\ underlying[d] = "none" /\ ~Making(d)
        BY <1>2, <1>5, <1>10
      <3> QED BY <3>1, <2>1, <1>2 DEF CreateFirst
    <2>3. alive'[d] => underlying'[d] # "gone"
      BY <2>1, <1>2, <1>5
    <2>4. Waits("create", d)' => underlying'[d] = "none"
      BY <2>1, <1>5, <1>7, <1>10
    <2> QED BY <2>1, <2>2, <2>3, <2>4, <1>7
  <1>12. MadeFirst'
    BY <1>10, <1>11 DEF MadeFirst
  <1> QED BY <1>8, <1>9, <1>12 DEF TaskInv

-----------------------------------------------------------------------------
(* The tasks: the other steps.                                             *)

\* No session is made and no connection gets a new place.
Placed ==
    \A c \in Clients : /\ Before(c)' => Before(c)
                       /\ alive'[c] => alive[c]
                       /\ out'[c] => out[c]
                       /\ Detached(c) => Detached(c)'

ApartmentKept == apartment' = apartment \/ (apartment.at # "task" /\ apartment'.at # "task")

Quiet ==
    /\ UNCHANGED <<queue, underlying, received, sent, wire>>
    /\ Placed
    /\ ApartmentKept

LEMMA QuietTasks ==
    ASSUME TaskInv, Quiet
    PROVE  TaskInv'
  <1>1. TaskMove
    BY DEF Quiet, Placed, ApartmentKept, TaskMove, Grows, TaskInv, TasksTyped
  <1> QED BY <1>1, TaskMoves

LEMMA SamePlaces ==
    ASSUME UNCHANGED <<remote, backlog, handlers, kind, release, alive, out>>
    PROVE  Placed
  BY DEF Placed, Before, Detached, Releasing

LEMMA RemovalPlaced ==
    ASSUME ServerInv, NEW c, Removal(c)
    PROVE  Placed
  <1>1. /\ remote' = remote /\ backlog' = backlog /\ kind' = kind /\ alive' = alive /\ out' = out
        /\ c \in ToSet(handlers) /\ release' # NULL /\ release'.of = c
        /\ ToSet(handlers') = ToSet(handlers) \ {c}
    BY FrontendServerAssumption DEF Removal, sessionVars
  <1>2. \A d \in Clients : Before(d)' => Before(d)
    BY <1>1 DEF Before
  <1>3. \A d \in Clients : Detached(d) => Detached(d)'
    BY <1>1, <1>2 DEF Detached, Releasing
  <1> QED BY <1>1, <1>2, <1>3 DEF Placed

LEMMA AcceptPreinitQuiet ==
    ASSUME ServerInv, AcceptPreinit
    PROVE  Quiet
  <1>1. PICK n : n = Head(backlog)
    OBVIOUS
  <1>2. /\ remote' = remote /\ release' = release /\ alive' = alive /\ out' = out
        /\ handlers' = Append(handlers, n) /\ kind' = [kind EXCEPT ![n] = "preinit"]
        /\ backlog' = Tail(backlog) /\ apartment' = apartment
        /\ UNCHANGED <<queue, underlying, received, sent, wire>>
    BY <1>1 DEF AcceptPreinit
  <1>3. "acceptor" \in ready
    BY TurnFacts DEF AcceptPreinit
  <1>4. /\ n \in Clients \cup {"aux"} /\ n \in ToSet(backlog) /\ ToSet(backlog') = ToSet(backlog) \ {n}
    BY <1>1, <1>2, <1>3, TailList DEF ServerInv, ServerTyped, ReadyListed, OnePlace
  <1>5. ToSet(handlers') = ToSet(handlers) \cup {n}
    BY <1>2, <1>4, AppendedList DEF ServerInv, ServerTyped, Handlers
  <1>6. \A d \in Clients : d # n => kind'[d] = kind[d]
    BY <1>2 DEF ServerInv, ServerTyped, Handlers
  <1>7. \A d \in Clients : Before(d)' => Before(d)
    BY <1>2, <1>4, <1>5, <1>6 DEF Before
  <1>8. \A d \in Clients : Detached(d) => Detached(d)'
    BY <1>2, <1>4, <1>5, <1>7 DEF Detached, Before, Releasing
  <1> QED BY <1>2, <1>7, <1>8 DEF Quiet, Placed, ApartmentKept

LEMMA HandlePreinitTasks ==
    ASSUME ServerInv, NEW h \in Clients \cup {"aux"}, HandlePreinit(h)
    PROVE  Quiet \/ \E cs : Creation(cs)
  <1>1. /\ remote' = remote /\ backlog' = backlog /\ handlers' = handlers /\ release' = release
        /\ apartment' = apartment /\ kind[h] = "preinit"
        /\ UNCHANGED <<underlying, received, sent, wire>>
    BY DEF HandlePreinit, wireVars
  <1>2. CASE h # "aux"
    <2>1. kind' = kind /\ alive' = alive /\ out' = out /\ queue' = queue
      BY <1>2 DEF HandlePreinit
    <2>2. Placed
      BY <1>1, <2>1, SamePlaces
    <2> QED BY <1>1, <2>1, <2>2 DEF Quiet, ApartmentKept
  <1>3. CASE h = "aux"
    <2>1. /\ kind' = [x \in DOMAIN kind |-> CASE x = "acceptor" -> "accept_regular"
                                              [] x = "aux" -> "aux"
                                              [] x \in ToSet(Accepted) -> "session"
                                              [] OTHER -> kind[x]]
          /\ CreateSession(Accepted)
      BY <1>3 DEF HandlePreinit, Accepted
    <2>2. PICK cs \in Seq(Clients) : cs = Accepted
      BY AcceptedFacts
    <2>3. IsInjective(cs) /\ ToSet(cs) \subseteq Clients /\ \A c \in Clients : c \in ToSet(cs) <=> c \in ToSet(handlers)
      BY <2>2, AcceptedFacts
    <2>4. \A c \in Clients : c \in ToSet(handlers) => kind'[c] = "session"
      <3> SUFFICES ASSUME NEW c \in Clients, c \in ToSet(handlers) PROVE kind'[c] = "session"
        OBVIOUS
      <3>1. c # "acceptor" /\ c # "aux" /\ c \in DOMAIN kind
        BY FrontendServerAssumption DEF ServerInv, ServerTyped, Handlers
      <3>2. c \in ToSet(Accepted)
        BY AcceptedFacts
      <3> QED BY <2>1, <3>1, <3>2
    <2>5. \A c \in Clients : c \in ToSet(handlers) => kind[c] = "preinit"
      BY <1>1, <1>3 DEF ServerInv, Phase
    <2>6. \A c \in Clients : Before(c)' => Before(c) /\ c \notin ToSet(handlers)
      <3> SUFFICES ASSUME NEW c \in Clients, Before(c)' PROVE Before(c) /\ c \notin ToSet(handlers)
        OBVIOUS
      <3>1. remote[c] = "none" \/ c \in ToSet(backlog)
        BY <1>1, <2>4 DEF Before
      <3>2. c \notin ToSet(handlers)
        BY <3>1 DEF ServerInv, OnePlace
      <3> QED BY <3>1, <3>2 DEF Before
    <2>7. \A c \in Clients : Detached(c) => Detached(c)'
      BY <1>1, <2>6 DEF Detached, Releasing
    <2>8. CASE accepting
      <3>1. queue' = queue \o [i \in 1..Len(cs) |-> Task("create", cs[i])]
        BY <2>1, <2>2, <2>8 DEF CreateSession
      <3>2. /\ \A c \in Clients : alive'[c] <=> alive[c] \/ c \in ToSet(cs)
            /\ \A c \in Clients : out'[c] <=> out[c] \/ c \in ToSet(cs)
        BY <2>1, <2>2, <2>8, CreatedFacts
      <3>3. \A c \in Clients : c \in ToSet(cs) => Before(c) /\ ~Before(c)'
        BY <2>3, <2>5, <2>6 DEF Before
      <3>4. Creation(cs)
        BY <1>1, <2>3, <2>6, <2>7, <3>1, <3>2, <3>3 DEF Creation
      <3> QED BY <3>4
    <2>9. CASE ~accepting
      <3>1. queue' = queue /\ alive' = alive /\ out' = out
        BY <2>1, <2>9 DEF CreateSession
      <3> QED BY <1>1, <2>6, <2>7, <3>1 DEF Quiet, Placed, ApartmentKept
    <2> QED BY <2>8, <2>9
  <1> QED BY <1>2, <1>3

LEMMA AcceptRegularTasks ==
    ASSUME ServerInv, AcceptRegular
    PROVE  Quiet \/ \E cs : Creation(cs)
  <1>1. PICK n : n = Head(backlog)
    OBVIOUS
  <1>2. /\ remote' = remote /\ release' = release
        /\ apartment' = apartment
        /\ handlers' = Append(handlers, n) /\ kind' = [kind EXCEPT ![n] = "session"]
        /\ backlog' = Tail(backlog)
        /\ kind["acceptor"] = "accept_regular"
        /\ CreateSession(<<n>>)
        /\ UNCHANGED <<underlying, received, sent, wire>>
    BY <1>1 DEF AcceptRegular
  <1>3. "acceptor" \in ready
    BY TurnFacts DEF AcceptRegular
  <1>4. /\ n \in Clients \cup {"aux"} /\ n \in ToSet(backlog) /\ ToSet(backlog') = ToSet(backlog) \ {n}
    BY <1>1, <1>2, <1>3, TailList DEF ServerInv, ServerTyped, ReadyListed, OnePlace
  <1>5. n \in Clients /\ n \notin ToSet(handlers) /\ remote[n] # "none"
    BY <1>2, <1>4 DEF ServerInv, Phase, OnePlace
  <1>6. ToSet(handlers') = ToSet(handlers) \cup {n}
    BY <1>2, <1>5, AppendedList DEF ServerInv, ServerTyped, Handlers
  <1>7. kind'[n] = "session" /\ \A d \in Clients : d # n => kind'[d] = kind[d]
    BY <1>2, <1>5 DEF ServerInv, ServerTyped, Handlers
  <1>8. Before(n) /\ ~Before(n)' /\ \A d \in Clients : Before(d)' => Before(d)
    BY <1>2, <1>4, <1>5, <1>6, <1>7 DEF Before
  <1>9. \A d \in Clients : Detached(d) => Detached(d)'
    BY <1>2, <1>4, <1>6, <1>8 DEF Detached, Releasing
  <1>10. CASE accepting
    <2>1. PICK cs : cs = <<n>>
      OBVIOUS
    <2>2. cs \in Seq(Clients) /\ IsInjective(cs) /\ ToSet(cs) = {n}
      BY <2>1, <1>5 DEF IsInjective, ToSet
    <2>3. queue' = queue \o [i \in 1..Len(cs) |-> Task("create", cs[i])]
      BY <2>1, <1>2, <1>10 DEF CreateSession
    <2>4. /\ \A c \in Clients : alive'[c] <=> alive[c] \/ c \in ToSet(cs)
          /\ \A c \in Clients : out'[c] <=> out[c] \/ c \in ToSet(cs)
      BY <2>1, <1>2, <1>10, CreatedFacts
    <2>5. Creation(cs)
      BY <1>2, <1>8, <1>9, <2>2, <2>3, <2>4 DEF Creation
    <2> QED BY <2>5
  <1>11. CASE ~accepting
    <2>1. queue' = queue /\ alive' = alive /\ out' = out
      BY <1>2, <1>11 DEF CreateSession
    <2> QED BY <1>2, <1>8, <1>9, <2>1 DEF Quiet, Placed, ApartmentKept
  <1> QED BY <1>10, <1>11

\* The steps that matter for the tasks and the messages; the others are quiet.
Steps ==
    \/ Quiet
    \/ \E cs : Creation(cs)
    \/ \E c \in Clients : Send(c) \/ SessionMessage(c) \/ SessionDisconnect(c)
    \/ ReleaseSocket \/ BeginTask \/ EndTask \/ DestroyTask

LEMMA QuietRemote ==
    ASSUME ServerInv, NEW c \in Clients, Connect(c) \/ Gone(c)
    PROVE  Quiet
  <1>1. /\ UNCHANGED <<handlers, kind, release, alive, out, queue, underlying, received, sent, wire, apartment>>
        /\ \/ remote[c] = "none" /\ remote' = [remote EXCEPT ![c] = "connected"] /\ backlog' = Append(backlog, c)
           \/ remote' = [remote EXCEPT ![c] = "gone"] /\ backlog' = backlog
    BY DEF Connect, Gone, Leave, Dropped, serverVars, sessionVars
  <1>2. remote \in [Clients -> {"none", "connected", "gone"}]
    BY DEF ServerInv, ServerTyped
  <1>3. remote'[c] # "none" /\ \A d \in Clients : d # c => remote'[d] = remote[d]
    BY <1>1, <1>2
  <1>4. \A d \in Clients : d \in ToSet(backlog') => d \in ToSet(backlog) \/ (d = c /\ remote[c] = "none")
    <2>1. backlog \in Seq(Clients \cup {"aux"}) /\ c \in Clients \cup {"aux"}
      BY DEF ServerInv, ServerTyped
    <2>2. ToSet(Append(backlog, c)) = ToSet(backlog) \cup {c}
      BY <2>1, AppendedList
    <2> QED BY <1>1, <2>2
  <1>5. \A d \in Clients : Before(d)' => Before(d)
    BY <1>1, <1>3, <1>4 DEF Before
  <1>6. \A d \in Clients : Detached(d) => Detached(d)'
    BY <1>1, <1>5 DEF Detached, Releasing
  <1> QED BY <1>1, <1>5, <1>6 DEF Quiet, Placed, ApartmentKept

LEMMA QuietRelease ==
    ASSUME ServerInv, ReleaseSession \/ ReleaseOutbound
    PROVE  Quiet
  <1>1. release \in Release /\ release # NULL
    BY DEF ServerInv, ServerTyped, ReleaseSession, ReleaseOutbound
  <1>2. PICK c \in Clients : c = release.of
    BY <1>1 DEF Release
  <1>3. /\ UNCHANGED <<remote, backlog, handlers, kind, queue, underlying, received, sent, wire, apartment>>
        /\ \/ alive' = [alive EXCEPT ![c] = FALSE] /\ out' = out /\ release' = [release EXCEPT !.stage = "outbound"]
           \/ out' = [out EXCEPT ![c] = FALSE] /\ alive' = alive /\ release' = [release EXCEPT !.stage = "socket"]
        /\ release.stage \in {"session", "outbound"}
    BY <1>2 DEF ReleaseSession, ReleaseOutbound, wireVars, serverVars
  <1>4. release' # NULL /\ release'.of = c
    <2>1. release' \in Release /\ release'.of = c
      BY <1>1, <1>2, <1>3 DEF Release
    <2> QED BY <2>1, FrontendServerAssumption
  <1>5. alive \in [Clients -> BOOLEAN] /\ out \in [Clients -> BOOLEAN]
    BY DEF ServerInv, ServerTyped
  <1>6. \A d \in Clients : (alive'[d] => alive[d]) /\ (out'[d] => out[d])
    BY <1>3, <1>5
  <1>7. \A d : Before(d)' <=> Before(d)
    BY <1>3 DEF Before
  <1>8. \A d \in Clients : Detached(d) => Detached(d)'
    BY <1>1, <1>2, <1>3, <1>4, <1>7 DEF Detached, Releasing
  <1> QED BY <1>3, <1>6, <1>7, <1>8 DEF Quiet, Placed, ApartmentKept

LEMMA QuietServer ==
    ASSUME ServerInv, StartServer \/ ServerGone \/ DestroyHandlers
    PROVE  Quiet
  <1>1. CASE StartServer
    <2>1. /\ UNCHANGED <<remote, release, alive, out, queue, underlying, received, sent, wire>>
          /\ apartment.at = "connect_aux" /\ apartment' = Idle /\ backlog' = Append(backlog, "aux")
          /\ handlers' = <<"acceptor">>
      BY <1>1 DEF StartServer, sessionVars
    <2>2. ToSet(backlog') = ToSet(backlog) \cup {"aux"}
      BY <2>1, AppendedList DEF ServerInv, ServerTyped
    <2>3. ToSet(handlers') = {"acceptor"}
      BY <2>1 DEF ToSet
    <2>4. "aux" \notin Clients /\ "acceptor" \notin Clients
      BY FrontendServerAssumption
    <2>5. \A d \in Clients : Before(d)' => Before(d)
      BY <2>1, <2>2, <2>3, <2>4 DEF Before
    <2>6. \A d \in Clients : Detached(d) => Detached(d)'
      BY <2>1, <2>3, <2>4, <2>5 DEF Detached, Releasing
    <2>7. ApartmentKept
      BY <2>1 DEF ApartmentKept, Idle, At
    <2> QED BY <2>1, <2>5, <2>6, <2>7 DEF Quiet, Placed
  <1>2. CASE ServerGone
    <2>1. /\ UNCHANGED <<handlers, kind, release, alive, out, queue, underlying, received, sent, wire>>
          /\ apartment.at = "join" /\ apartment' = At(apartment.then, NULL, NULL) /\ backlog' = <<>>
          /\ remote' = [c \in Clients |-> IF c \in ToSet(backlog) THEN "gone" ELSE remote[c]]
      BY <1>2 DEF ServerGone, serverVars, sessionVars
    <2>2. apartment'.at # "task"
      BY <2>1 DEF ServerInv, ApartmentTyped, At
    <2>3. \A d \in Clients : Before(d)' => Before(d)
      BY <2>1, EmptyList DEF Before
    <2>4. \A d \in Clients : Detached(d) => Detached(d)'
      BY <2>1, <2>3 DEF Detached, Releasing
    <2> QED BY <2>1, <2>2, <2>3, <2>4 DEF Quiet, Placed, ApartmentKept
  <1>3. CASE DestroyHandlers
    <2>1. /\ UNCHANGED <<remote, backlog, kind, alive, out, queue, underlying, received, sent, wire, apartment>>
          /\ handlers' = Tail(handlers) /\ handlers # <<>>
      BY <1>3 DEF DestroyHandlers, wireVars, sessionVars
    <2>2. CASE Head(handlers) \in Clients
      <3>1. Placed
        BY <2>2, <1>3, DestroyHandlersMoves, RemovalPlaced
      <3> QED BY <2>1, <3>1 DEF Quiet, ApartmentKept
    <2>3. CASE Head(handlers) \notin Clients
      <3>1. release' = release
        BY <2>3, <1>3 DEF DestroyHandlers
      <3>2. ToSet(handlers') \subseteq ToSet(handlers)
        BY <2>1, TailList DEF ServerInv, ServerTyped
      <3>3. \A d \in Clients : Before(d)' => Before(d)
        BY <2>1, <3>2 DEF Before
      <3>4. \A d \in Clients : Detached(d) => Detached(d)'
        BY <2>1, <3>1, <3>2, <3>3 DEF Detached, Releasing
      <3> QED BY <2>1, <3>3, <3>4 DEF Quiet, Placed, ApartmentKept
    <2> QED BY <2>2, <2>3
  <1> QED BY <1>1, <1>2, <1>3

\* The steps that leave every connection where it is.
LEMMA QuietElsewhere ==
    ASSUME UNCHANGED <<remote, backlog, handlers, kind, release, alive, out, queue, underlying, received, sent, wire>>, ApartmentKept
    PROVE  Quiet
  BY SamePlaces DEF Quiet

LEMMA StepKinds ==
    ASSUME ServerInv, [Next]_vars
    PROVE  Steps
  <1> USE DEF wireVars, serverVars, sessionVars
  <1>1. CASE ThreadStep
    <2>1. CASE Select
      <3>1. /\ UNCHANGED <<remote, backlog, handlers, kind, release, alive, out, queue, underlying, received, sent, wire>>
            /\ apartment' = apartment
        BY <2>1 DEF Select
      <3> QED BY <3>1, QuietElsewhere DEF Steps, ApartmentKept
    <2>2. CASE \E c \in Clients : NullSession(c)
      <3>1. PICK c \in Clients : NullSession(c)
        BY <2>2
      <3>2. /\ UNCHANGED <<remote, backlog, handlers, kind, release, alive, out, queue, underlying, received, sent, wire>>
            /\ apartment' = At("crashed", NULL, NULL) /\ kind[c] = "session" /\ ~alive[c]
        BY <3>1 DEF NullSession
      <3>3. /\ c \in ToSet(handlers)
            /\ accepting \/ apartment.at \in {"stop", "crashed"} \/ (apartment.at = "join" /\ apartment.then = "quit")
        BY <3>1, TurnFacts DEF NullSession
      <3>4. ~accepting
        BY <3>2, <3>3 DEF ServerInv, Lifetimes
      <3>5. ApartmentKept
        BY <3>2, <3>3, <3>4 DEF ApartmentKept, At
      <3> QED BY <3>2, <3>5, QuietElsewhere DEF Steps
    <2>3. CASE HandleAux
      <3>1. /\ UNCHANGED <<remote, backlog, kind, alive, out, queue, underlying, received, sent, wire>>
            /\ apartment' = apartment
        BY <2>3 DEF HandleAux
      <3>2. CASE Listed(Head(aux))
        <4>1. Placed
          BY <3>2, <2>3, HandleAuxMoves, RemovalPlaced
        <4> QED BY <3>1, <4>1 DEF Steps, Quiet, ApartmentKept
      <3>3. CASE ~Listed(Head(aux))
        <4>1. handlers' = handlers /\ release' = release
          BY <3>3, <2>3 DEF HandleAux
        <4> QED BY <3>1, <4>1, QuietElsewhere DEF Steps, ApartmentKept
      <3> QED BY <3>2, <3>3
    <2>4. CASE \E h \in Clients \cup {"aux"} : HandlePreinit(h)
      BY <2>4, HandlePreinitTasks DEF Steps
    <2>5. CASE AcceptPreinit \/ AcceptRegular
      BY <2>5, AcceptPreinitQuiet, AcceptRegularTasks DEF Steps
    <2> QED BY <1>1, <2>1, <2>2, <2>3, <2>4, <2>5 DEF ThreadStep, Steps
  <1>2. CASE ReleaseStep
    BY <1>2, QuietRelease DEF ReleaseStep, Steps
  <1>3. CASE RemoteStep
    BY <1>3, QuietRemote DEF RemoteStep, Steps, Gone
  <1>4. CASE StartServer \/ ServerGone \/ DestroyHandlers
    BY <1>4, QuietServer DEF Steps
  <1>5. CASE \/ ResetEntry \/ OutboundDisconnect \/ ResetDone \/ Listen \/ StopServer
    <2>1. UNCHANGED <<remote, backlog, handlers, kind, release, alive, out, queue, underlying, received, sent, wire>>
      BY <1>5 DEF ResetEntry, OutboundDisconnect, ResetDone, Listen, StopServer
    <2>2. apartment.at # "task"
      BY <1>5 DEF ResetEntry, OutboundDisconnect, ResetDone, Listen, StopServer, Resetting
    <2>3. apartment'.at # "task" \/ apartment' = apartment
      BY <1>5 DEF ServerInv, ApartmentTyped, ResetEntry, OutboundDisconnect, ResetDone, Listen, StopServer, Resetting, At, Idle
    <2> QED BY <2>1, <2>2, <2>3, QuietElsewhere DEF Steps, ApartmentKept
  <1>6. CASE UserStep
    <2>1. UNCHANGED <<remote, backlog, handlers, kind, release, alive, out, queue, underlying, received, sent, wire>>
      BY <1>6 DEF UserStep, LoadSession, OnUiActivated, OnUiClosed, CloseAll, EnableRemoteSockets, StopAccepting
    <2>2. apartment = Idle
      BY <1>6 DEF UserStep, LoadSession, OnUiActivated, OnUiClosed, CloseAll, EnableRemoteSockets, StopAccepting, Click
    <2>3. apartment' \in {Idle, At("reset", NULL, NULL), At("close", NULL, NULL), At("join", NULL, "listen"), At("stop", NULL, NULL)}
      BY <1>6, <2>2 DEF UserStep, LoadSession, OnUiActivated, OnUiClosed, CloseAll, EnableRemoteSockets, StopAccepting
    <2>4. ApartmentKept
      BY <2>2, <2>3 DEF ApartmentKept, Idle, At
    <2> QED BY <2>1, <2>4, QuietElsewhere DEF Steps
  <1>7. CASE Finished \/ UNCHANGED vars
    <2>1. /\ UNCHANGED <<remote, backlog, handlers, kind, release, alive, out, queue, underlying, received, sent, wire>>
          /\ apartment' = apartment
      BY <1>7 DEF Finished, vars
    <2> QED BY <2>1, QuietElsewhere DEF Steps, ApartmentKept
  <1>8. CASE BeginTask \/ EndTask \/ DestroyTask
    BY <1>8 DEF Steps
  <1> QED BY <1>1, <1>2, <1>3, <1>4, <1>5, <1>6, <1>7, <1>8 DEF Next, ApartmentStep

\* Every step keeps the tasks in order.
LEMMA TasksKept ==
    ASSUME ServerInv, TaskInv, [Next]_vars
    PROVE  TaskInv'
  <1> USE DEF wireVars, serverVars, sessionVars
  <1>0. sent \in [Clients -> Nat] /\ wire \in [Clients -> Nat]
    BY DEF TaskInv, TasksTyped
  <1>1. ASSUME NEW c \in Clients, Send(c) PROVE TaskInv'
    <2>1. /\ UNCHANGED <<remote, backlog, handlers, kind, release, alive, out, queue, underlying, received, apartment>>
          /\ sent' = [sent EXCEPT ![c] = @ + 1] /\ wire' = [wire EXCEPT ![c] = @ + 1]
      BY <1>1 DEF Send
    <2>2. Placed
      BY <2>1, SamePlaces
    <2>3. /\ sent' \in [Clients -> Nat] /\ wire' \in [Clients -> Nat]
          /\ \A d \in Clients : sent[d] = wire[d] => sent'[d] = wire'[d]
      BY <2>1, <1>0
    <2>4. TaskMove
      BY <2>1, <2>2, <2>3 DEF TaskMove, Placed, Grows
    <2> QED BY <2>4, TaskMoves
  <1>2. ASSUME NEW c \in Clients, SessionMessage(c) PROVE TaskInv'
    <2>1. /\ UNCHANGED <<remote, backlog, handlers, kind, release, alive, out, underlying, received, apartment, sent>>
          /\ wire' = [wire EXCEPT ![c] = @ - 1] /\ wire[c] > 0 /\ alive[c] /\ queue' = Append(queue, Task("message", c))
      BY <1>2 DEF SessionMessage
    <2>2. Placed
      BY <2>1, SamePlaces
    <2>3. ~Before(c)
      BY <2>1 DEF TaskInv, FreshBefore, Fresh
    <2>4. wire' \in [Clients -> Nat] /\ \A d \in Clients : d # c => wire'[d] = wire[d]
      BY <2>1, <1>0
    <2>5. Grows
      BY <2>1, <2>3 DEF Grows
    <2>6. \A d \in Clients : Before(d)' => Before(d) /\ (sent[d] = wire[d] => sent'[d] = wire'[d])
      BY <2>1, <2>2, <2>3, <2>4 DEF Placed
    <2>7. TaskMove
      BY <2>1, <2>2, <2>4, <2>5, <2>6, <1>0 DEF TaskMove, Placed
    <2> QED BY <2>7, TaskMoves
  <1>3. ASSUME NEW c \in Clients, SessionDisconnect(c) PROVE TaskInv'
    <2>1. /\ UNCHANGED <<sent, wire, underlying, received, apartment>>
          /\ alive[c] /\ queue' = Append(queue, Task("disconnect", c))
      BY <1>3 DEF SessionDisconnect
    <2>2. Placed
      BY <1>3, SessionDisconnectRemoves, RemovalPlaced
    <2>3. ~Before(c)
      BY <2>1 DEF TaskInv, FreshBefore, Fresh
    <2>4. Grows
      BY <2>1, <2>3 DEF Grows
    <2>5. TaskMove
      BY <2>1, <2>2, <2>4, <1>0 DEF TaskMove, Placed
    <2> QED BY <2>5, TaskMoves
  <1>4. ASSUME ReleaseSocket PROVE TaskInv'
    <2>1. release \in Release /\ release # NULL /\ release.stage = "socket"
      BY <1>4 DEF ServerInv, ServerTyped, ReleaseSocket
    <2>2. PICK c \in Clients : c = release.of
      BY <2>1 DEF Release
    <2>3. /\ UNCHANGED <<sent, wire, underlying, received, apartment, remote, backlog, handlers, kind, alive, out>>
          /\ queue' = Append(queue, Task("destroy", c)) /\ release' = NULL
      BY <1>4, <2>2 DEF ReleaseSocket
    <2>4. ~Before(c) /\ c \notin ToSet(handlers)
      <3>1. Releasing(c, {"session", "outbound", "socket"})
        BY <2>1, <2>2 DEF Releasing
      <3> QED BY <3>1, <2>1, <2>2 DEF ServerInv, OnePlace, Before
    <2>5. \A d : Before(d)' <=> Before(d)
      BY <2>3 DEF Before
    <2>6. \A d : ~Releasing(d, {"session", "outbound", "socket"})'
      BY <2>3 DEF Releasing
    <2>7. Detached(c)' /\ \A d \in Clients : Detached(d) => Detached(d)'
      BY <2>3, <2>4, <2>5, <2>6 DEF Detached
    <2>8. Placed
      BY <2>3, <2>5, <2>7 DEF Placed
    <2>9. Grows
      BY <2>3, <2>4, <2>7 DEF Grows
    <2>10. TaskMove
      BY <2>3, <2>8, <2>9, <1>0 DEF TaskMove, Placed
    <2> QED BY <2>10, TaskMoves
  <1>5. Steps
    BY StepKinds
  <1> QED BY <1>1, <1>2, <1>3, <1>4, <1>5, QuietTasks, CreationTasks, BeginTaskTasks, EndTaskTasks, DestroyTaskTasks DEF Steps

-----------------------------------------------------------------------------
(* The messages.                                                           *)

\* How often x is in list q.
Count(q, x) == Cardinality({n \in 1..Len(q) : q[n] = x})

LEMMA CountFacts ==
    ASSUME NEW S, NEW q \in Seq(S), NEW x
    PROVE  /\ Count(q, x) \in Nat /\ IsFiniteSet({n \in 1..Len(q) : q[n] = x})
           /\ (\A n \in 1..Len(q) : q[n] # x) => Count(q, x) = 0
  <1>1. IsFiniteSet(1..Len(q))
    BY LenProperties, FS_Interval
  <1>2. IsFiniteSet({n \in 1..Len(q) : q[n] = x})
    BY <1>1, FS_Subset
  <1>3. (\A n \in 1..Len(q) : q[n] # x) => {n \in 1..Len(q) : q[n] = x} = {}
    OBVIOUS
  <1> QED BY <1>2, <1>3, FS_CardinalityType, FS_EmptySet DEF Count

LEMMA CountAppended ==
    ASSUME NEW S, NEW q \in Seq(S), NEW y \in S, NEW x
    PROVE  Count(Append(q, y), x) = Count(q, x) + (IF y = x THEN 1 ELSE 0)
  <1>1. PICK t \in Seq(S) : t = Append(q, y)
    BY AppendProperties
  <1>2. /\ Len(t) = Len(q) + 1 /\ t[Len(q) + 1] = y /\ Len(q) \in Nat
        /\ \A i \in 1..Len(q) : t[i] = q[i]
    BY <1>1, AppendProperties, LenProperties
  <1>3. \A i : i \in 1..(Len(q) + 1) <=> i \in 1..Len(q) \/ i = Len(q) + 1
    BY <1>2
  <1>4. Len(q) + 1 \notin 1..Len(q)
    BY <1>2
  <1>5. PICK A : A = {n \in 1..Len(q) : q[n] = x}
    OBVIOUS
  <1>6. IsFiniteSet(A) /\ Cardinality(A) \in Nat /\ Len(q) + 1 \notin A
    BY <1>4, <1>5, CountFacts, FS_CardinalityType
  <1>7. CASE y = x
    <2>1. {n \in 1..Len(t) : t[n] = x} = A \cup {Len(q) + 1}
      BY <1>2, <1>3, <1>5, <1>7
    <2>2. Cardinality(A \cup {Len(q) + 1}) = Cardinality(A) + 1
      BY <1>6, FS_AddElement
    <2> QED BY <2>1, <2>2, <1>1, <1>5, <1>7 DEF Count
  <1>8. CASE y # x
    <2>1. {n \in 1..Len(t) : t[n] = x} = A
      BY <1>2, <1>3, <1>5, <1>8
    <2>2. Count(t, x) = Cardinality(A) /\ Count(q, x) = Cardinality(A)
      BY <2>1, <1>5 DEF Count
    <2>3. Cardinality(A) = Cardinality(A) + 0
      BY <1>6
    <2> QED BY <2>2, <2>3, <1>1, <1>8
  <1> QED BY <1>7, <1>8

LEMMA CountTaken ==
    ASSUME NEW S, NEW q \in Seq(S), q # <<>>, NEW x
    PROVE  Count(q, x) = Count(Tail(q), x) + (IF Head(q) = x THEN 1 ELSE 0)
  <1>1. PICK t \in Seq(S) : t = Tail(q)
    BY TailList
  <1>2. PICK m \in Nat : m = Len(q)
    BY LenProperties
  <1>3. m >= 1 /\ Len(t) = m - 1 /\ Head(q) = q[1] /\ \A i \in 1..(m - 1) : t[i] = q[i + 1]
    BY <1>1, <1>2, TailList
  <1>4. PICK A : A = {n \in 1..m : q[n] = x}
    OBVIOUS
  <1>5. PICK B : B = {n \in 1..(m - 1) : t[n] = x}
    OBVIOUS
  <1>6. IsFiniteSet(A) /\ IsFiniteSet(B) /\ Cardinality(A) \in Nat /\ Cardinality(B) \in Nat
    <2>1. IsFiniteSet(A)
      BY <1>2, <1>4, CountFacts
    <2>2. B = {n \in 1..Len(t) : t[n] = x}
      BY <1>3, <1>5
    <2>3. IsFiniteSet(B)
      BY <2>2, CountFacts
    <2> QED BY <2>1, <2>3, FS_CardinalityType
  <1>7. PICK f : f = [n \in B |-> n + 1]
    OBVIOUS
  <1>8. \A n \in B : n \in 1..(m - 1) /\ n + 1 \in 1..m /\ n + 1 # 1 /\ q[n + 1] = x
    BY <1>3, <1>5
  <1>9. \A n \in A \ {1} : n - 1 \in 1..(m - 1) /\ (n - 1) + 1 = n
    BY <1>4
  <1>10. \A n \in A \ {1} : n - 1 \in B
    BY <1>3, <1>4, <1>5, <1>9
  <1>11. f \in [B -> A \ {1}]
    BY <1>4, <1>7, <1>8
  <1>12. \A a, b \in B : f[a] = f[b] => a = b
    BY <1>7, <1>8
  <1>13. \A n \in A \ {1} : \E b \in B : f[b] = n
    BY <1>7, <1>9, <1>10
  <1>14. f \in Bijection(B, A \ {1})
    BY <1>11, <1>12, <1>13 DEF Bijection, Injection, Surjection, IsInjective
  <1>15. Cardinality(A \ {1}) = Cardinality(B)
    BY <1>6, <1>14, FS_Bijection DEF ExistsBijection
  <1>16. Cardinality(A \ {1}) = IF 1 \in A THEN Cardinality(A) - 1 ELSE Cardinality(A)
    BY <1>6, FS_RemoveElement
  <1>17. 1 \in A <=> Head(q) = x
    BY <1>3, <1>4
  <1>18. Count(q, x) = Cardinality(A) /\ Count(t, x) = Cardinality(B)
    BY <1>2, <1>3, <1>4, <1>5 DEF Count
  <1>19. CASE Head(q) = x
    BY <1>6, <1>15, <1>16, <1>17, <1>18, <1>19, <1>1
  <1>20. CASE Head(q) # x
    BY <1>6, <1>15, <1>16, <1>17, <1>18, <1>20, <1>1
  <1> QED BY <1>19, <1>20

\* The messages of connection c add up.
AddUp(c) == sent[c] = wire[c] + Queued("message", c) + InHand(c) + received[c]

LEMMA QueuedIsCount ==
    /\ \A k, c : Queued(k, c) = Count(queue, Task(k, c))
    /\ \A k, c : Queued(k, c)' = Count(queue', Task(k, c))
  BY DEF Queued, Count, Task

\* Every step keeps the messages of live sessions.
LEMMA MessagesKept ==
    ASSUME ServerInv, TaskInv, MessagesConserved, [Next]_vars
    PROVE  MessagesConserved'
  <1> USE DEF wireVars, serverVars, sessionVars
  <1>0. /\ sent \in [Clients -> Nat] /\ wire \in [Clients -> Nat] /\ received \in [Clients -> Nat] /\ queue \in Seq(Tasks)
    BY DEF TaskInv, TasksTyped
  <1>a. \A c \in Clients : alive[c] => AddUp(c)
    BY DEF MessagesConserved, AddUp
  <1>b. SUFFICES ASSUME NEW c \in Clients, alive'[c] PROVE AddUp(c)'
    BY DEF MessagesConserved, AddUp
  <1>c. PICK m \in Tasks : m = Task("message", c)
    BY TaskFacts DEF TaskKinds
  <1>d. Queued("message", c) = Count(queue, m) /\ Queued("message", c)' = Count(queue', m)
    BY <1>c, QueuedIsCount
  <1>e. Count(queue, m) \in Nat /\ InHand(c) \in {0, 1} /\ sent[c] \in Nat /\ wire[c] \in Nat /\ received[c] \in Nat
    BY <1>0, CountFacts DEF InHand
  <1>f. ASSUME alive[c], Count(queue', m) = Count(queue, m), InHand(c)' = InHand(c),
               sent'[c] = sent[c], wire'[c] = wire[c], received'[c] = received[c]
        PROVE  AddUp(c)'
    <2>1. sent[c] = wire[c] + Count(queue, m) + InHand(c) + received[c]
      BY <1>a, <1>d, <1>f DEF AddUp
    <2> QED BY <2>1, <1>d, <1>f DEF AddUp
  <1>g. ASSUME apartment' = apartment PROVE InHand(c)' = InHand(c)
    BY <1>g DEF InHand, At
  <1>1. CASE Quiet
    <2>1. InHand(c)' = InHand(c)
      BY <1>1 DEF Quiet, ApartmentKept, InHand, At
    <2>2. alive[c] /\ UNCHANGED <<queue, received, sent, wire>>
      BY <1>1, <1>b DEF Quiet, Placed
    <2> QED BY <1>f, <2>1, <2>2
  <1>2. ASSUME NEW cs, Creation(cs) PROVE AddUp(c)'
    <2>1. cs \in Seq(Clients) /\ UNCHANGED <<underlying, received, sent, wire, apartment>> /\ (alive'[c] <=> alive[c] \/ c \in ToSet(cs))
      BY <1>2 DEF Creation
    <2>2. /\ queue' \in Seq(Tasks) /\ Len(queue) \in Nat
          /\ \A i \in 1..Len(queue) : i \in 1..Len(queue') /\ queue'[i] = queue[i]
          /\ \A i \in 1..Len(cs) : Len(queue) + i \in 1..Len(queue') /\ queue'[Len(queue) + i] = Task("create", cs[i])
          /\ \A n \in 1..Len(queue') : n \in 1..Len(queue) \/ \E i \in 1..Len(cs) : n = Len(queue) + i
      BY <1>0, <1>2, <2>1, QueueExtended DEF Creation
    <2>3. \A i : Task("create", cs[i]) # m
      BY <1>c, TaskFacts
    <2>4. {n \in 1..Len(queue') : queue'[n] = m} = {n \in 1..Len(queue) : queue[n] = m}
      BY <2>2, <2>3
    <2>5. Count(queue', m) = Count(queue, m)
      BY <2>4 DEF Count
    <2>6. CASE alive[c]
      BY <2>1, <2>5, <2>6, <1>f, <1>g
    <2>7. CASE ~alive[c]
      <3>1. Fresh(c)
        BY <1>b, <1>2, <2>1, <2>7 DEF Creation, TaskInv, FreshBefore
      <3>2. \A n \in 1..Len(queue) : queue[n] # m
        BY <3>1, <1>c DEF Fresh, Waits, TaskKinds
      <3>3. Count(queue, m) = 0
        BY <3>2, <1>0, CountFacts
      <3>4. apartment # At("task", c, "message")
        BY <2>7 DEF ServerInv, Inside, At
      <3>5. InHand(c)' = 0
        BY <3>4, <2>1 DEF InHand, At
      <3>6. sent[c] = wire[c] /\ received[c] = 0
        BY <3>1 DEF Fresh
      <3> QED BY <3>3, <3>5, <3>6, <2>1, <2>5, <1>d, <1>e DEF AddUp
    <2> QED BY <2>6, <2>7
  <1>3. ASSUME NEW d \in Clients, Send(d) PROVE AddUp(c)'
    <2>1. /\ UNCHANGED <<alive, queue, received, apartment>>
          /\ sent' = [sent EXCEPT ![d] = @ + 1] /\ wire' = [wire EXCEPT ![d] = @ + 1]
      BY <1>3 DEF Send
    <2>2. CASE c # d
      <3>1. sent'[c] = sent[c] /\ wire'[c] = wire[c]
        BY <2>1, <2>2, <1>0
      <3> QED BY <2>1, <3>1, <1>b, <1>f, <1>g
    <2>3. CASE c = d
      <3>1. sent'[c] = sent[c] + 1 /\ wire'[c] = wire[c] + 1
        BY <2>1, <2>3, <1>0
      <3>2. sent[c] = wire[c] + Count(queue, m) + InHand(c) + received[c]
        BY <1>a, <1>b, <1>d, <2>1 DEF AddUp
      <3>3. InHand(c)' = InHand(c)
        BY <2>1, <1>g
      <3>4. sent'[c] = wire'[c] + Count(queue', m) + InHand(c)' + received'[c]
        BY <3>1, <3>2, <3>3, <2>1, <1>e
      <3> QED BY <3>4, <1>d DEF AddUp
    <2> QED BY <2>2, <2>3
  <1>4. ASSUME NEW d \in Clients, SessionMessage(d) PROVE AddUp(c)'
    <2>1. /\ UNCHANGED <<alive, sent, received, apartment>>
          /\ wire' = [wire EXCEPT ![d] = @ - 1] /\ wire[d] > 0 /\ queue' = Append(queue, Task("message", d))
      BY <1>4 DEF SessionMessage
    <2>2. Task("message", d) \in Tasks
      BY TaskFacts DEF TaskKinds
    <2>3. CASE c # d
      <3>1. wire'[c] = wire[c] /\ Task("message", d) # m
        BY <2>1, <2>3, <1>0, <1>c, TaskFacts
      <3>2. Count(queue', m) = Count(queue, m) + 0
        BY <2>1, <2>2, <3>1, <1>0, CountAppended
      <3>3. Count(queue', m) = Count(queue, m)
        BY <3>2, <1>e
      <3> QED BY <2>1, <3>1, <3>3, <1>b, <1>f, <1>g
    <2>4. CASE c = d
      <3>1. wire'[c] = wire[c] - 1
        BY <2>1, <2>4, <1>0
      <3>2. Count(queue', m) = Count(queue, m) + 1
        BY <2>1, <2>2, <2>4, <1>0, <1>c, CountAppended
      <3>3. sent[c] = wire[c] + Count(queue, m) + InHand(c) + received[c]
        BY <1>a, <1>b, <1>d, <2>1 DEF AddUp
      <3>4. InHand(c)' = InHand(c)
        BY <2>1, <1>g
      <3>5. sent'[c] = wire'[c] + Count(queue', m) + InHand(c)' + received'[c]
        BY <3>1, <3>2, <3>3, <3>4, <2>1, <1>e
      <3> QED BY <3>5, <1>d DEF AddUp
    <2> QED BY <2>3, <2>4
  <1>5. ASSUME NEW d \in Clients, SessionDisconnect(d) PROVE AddUp(c)'
    <2>1. /\ UNCHANGED <<alive, sent, wire, received, apartment>>
          /\ queue' = Append(queue, Task("disconnect", d))
      BY <1>5 DEF SessionDisconnect
    <2>2. Task("disconnect", d) \in Tasks /\ Task("disconnect", d) # m
      BY <1>c, TaskFacts DEF TaskKinds
    <2>3. Count(queue', m) = Count(queue, m) + 0
      BY <2>1, <2>2, <1>0, CountAppended
    <2>4. Count(queue', m) = Count(queue, m)
      BY <2>3, <1>e
    <2> QED BY <2>1, <2>4, <1>b, <1>f, <1>g
  <1>6. CASE ReleaseSocket
    <2>1. release \in Release
      BY <1>6 DEF ServerInv, ServerTyped, ReleaseSocket
    <2>2. PICK d \in Clients : d = release.of
      BY <2>1 DEF Release
    <2>3. /\ UNCHANGED <<alive, sent, wire, received, apartment>>
          /\ queue' = Append(queue, Task("destroy", d))
      BY <1>6, <2>2 DEF ReleaseSocket
    <2>4. Task("destroy", d) \in Tasks /\ Task("destroy", d) # m
      BY <1>c, TaskFacts DEF TaskKinds
    <2>5. Count(queue', m) = Count(queue, m) + 0
      BY <2>3, <2>4, <1>0, CountAppended
    <2>6. Count(queue', m) = Count(queue, m)
      BY <2>5, <1>e
    <2> QED BY <2>3, <2>6, <1>b, <1>f, <1>g
  <1>7. CASE BeginTask
    <2>1. PICK t : t = Head(queue)
      OBVIOUS
    <2>2. /\ UNCHANGED <<alive, sent, wire, received>> /\ queue # <<>> /\ queue' = Tail(queue) /\ apartment = Idle
          /\ apartment' = IF alive[t.of] THEN At("task", t.of, t.kind) ELSE Idle
      BY <1>7, <2>1 DEF BeginTask
    <2>3. queue' \in Seq(Tasks) /\ t \in Tasks
      BY <2>1, <2>2, <1>0, QueueTaken
    <2>4. Count(queue', m) \in Nat
      BY <2>3, CountFacts
    <2>5. InHand(c) = 0
      BY <2>2 DEF InHand, Idle, At
    <2>6. sent[c] = wire[c] + Count(queue, m) + InHand(c) + received[c]
      BY <1>a, <1>b, <1>d, <2>2 DEF AddUp
    <2>7. CASE t = m
      <3>1. Count(queue, m) = Count(queue', m) + 1
        BY <2>1, <2>2, <2>7, <1>0, CountTaken
      <3>2. t.of = c /\ t.kind = "message"
        BY <2>7, <1>c, TaskFacts DEF TaskKinds
      <3>3. apartment' = At("task", c, "message")
        BY <2>2, <3>2, <1>b
      <3>4. InHand(c)' = 1
        BY <3>3 DEF InHand, At
      <3>5. sent[c] = wire[c] + (Count(queue', m) + 1) + 0 + received[c]
        BY <3>1, <2>5, <2>6
      <3>6. sent[c] = wire[c] + Count(queue', m) + 1 + received[c]
        BY <3>5, <2>4, <1>e
      <3>7. sent'[c] = wire'[c] + Count(queue', m) + InHand(c)' + received'[c]
        BY <3>4, <3>6, <2>2
      <3> QED BY <3>7, <1>d DEF AddUp
    <2>8. CASE t # m
      <3>1. Count(queue, m) = Count(queue', m) + 0
        BY <2>1, <2>2, <2>8, <1>0, CountTaken
      <3>2. Count(queue, m) = Count(queue', m)
        BY <3>1, <2>4
      <3>3. ~(t.of = c /\ t.kind = "message")
        BY <2>3, <2>8, <1>c, TaskFacts
      <3>4. apartment' # At("task", c, "message")
        BY <2>2, <3>3 DEF Idle, At
      <3>5. InHand(c)' = 0
        BY <3>4 DEF InHand, At
      <3> QED BY <3>2, <3>5, <2>2, <2>5, <1>b, <1>f
    <2> QED BY <2>7, <2>8
  <1>8. CASE EndTask
    <2>1. PICK d \in Clients : d = apartment.of /\ apartment.then \in {"create", "message", "disconnect"}
      BY <1>8 DEF EndTask, ServerInv, ApartmentTyped
    <2>2. /\ UNCHANGED <<alive, sent, wire, queue>> /\ apartment.at = "task" /\ apartment' = Idle
          /\ received' = IF apartment.then = "message" THEN [received EXCEPT ![d] = @ + 1] ELSE received
      BY <1>8, <2>1 DEF EndTask, Attach, Deliver
    <2>3. InHand(c)' = 0
      BY <2>2 DEF InHand, Idle, At
    <2>4. apartment = At("task", d, apartment.then)
      BY <2>1, <2>2 DEF ServerInv, ApartmentTyped, At
    <2>5. InHand(c) = IF c = d /\ apartment.then = "message" THEN 1 ELSE 0
      BY <2>4 DEF InHand, At
    <2>6. received'[c] = IF c = d /\ apartment.then = "message" THEN received[c] + 1 ELSE received[c]
      BY <2>2, <1>0
    <2>7. sent[c] = wire[c] + Count(queue, m) + InHand(c) + received[c]
      BY <1>a, <1>b, <1>d, <2>2 DEF AddUp
    <2>8. InHand(c) + received[c] = InHand(c)' + received'[c]
      BY <2>3, <2>5, <2>6, <1>e
    <2>9. received'[c] \in Nat
      BY <2>6, <1>e
    <2>10. sent'[c] = wire'[c] + Count(queue', m) + InHand(c)' + received'[c]
      BY <2>2, <2>3, <2>7, <2>8, <2>9, <1>e
    <2> QED BY <2>10, <1>d DEF AddUp
  <1>9. CASE DestroyTask
    <2>1. PICK t : t = Head(queue)
      OBVIOUS
    <2>2. /\ UNCHANGED <<alive, sent, wire, received, apartment>> /\ queue # <<>> /\ queue' = Tail(queue) /\ t.kind = "destroy"
      BY <1>9, <2>1 DEF DestroyTask
    <2>3. queue' \in Seq(Tasks) /\ t # m
      BY <2>2, <1>0, <1>c, QueueTaken, TaskFacts DEF TaskKinds
    <2>4. Count(queue', m) \in Nat
      BY <2>3, CountFacts
    <2>5. Count(queue, m) = Count(queue', m) + 0
      BY <2>1, <2>2, <2>3, <1>0, CountTaken
    <2>6. Count(queue', m) = Count(queue, m)
      BY <2>4, <2>5
    <2> QED BY <2>2, <2>6, <1>b, <1>f, <1>g
  <1>10. Steps
    BY StepKinds
  <1> QED BY <1>1, <1>2, <1>3, <1>4, <1>5, <1>6, <1>7, <1>8, <1>9, <1>10 DEF Steps

-----------------------------------------------------------------------------
(* The list of instances.                                                  *)

\* Windows and frontends are left alone; the apartment may go on as long as it
\* neither begins nor ends to close windows.
ListQuiet ==
    /\ UNCHANGED <<instances, todo, ui, frontend, underlying, active>>
    /\ Settled' => Settled
    /\ Closing' => Closing

LEMMA ListQuietKept ==
    ASSUME ListInv, ListQuiet
    PROVE  ListInv'
  <1>1. /\ instances' = instances /\ todo' = todo /\ ui' = ui /\ frontend' = frontend /\ underlying' = underlying
        /\ active' = active /\ (Settled' => Settled) /\ (Closing' => Closing)
    BY DEF ListQuiet
  <1> QED BY <1>1, Zenon DEF ListInv

LEMMA ListSame ==
    ASSUME ListInv, UNCHANGED <<instances, todo, ui, frontend, underlying, active, apartment>>
    PROVE  ListInv'
  <1>1. ListQuiet
    BY DEF ListQuiet, Settled, Resetting, Closing
  <1> QED BY <1>1, ListQuietKept

LEMMA EndTaskList ==
    ASSUME ServerInv, TaskInv, ListInv, EndTask
    PROVE  ListInv'
  <1>1. PICK c \in Clients : c = apartment.of /\ apartment.then \in {"create", "message", "disconnect"}
    BY DEF EndTask, ServerInv, ApartmentTyped
  <1>2. apartment.at = "task" /\ apartment' = Idle /\ todo' = todo
    BY DEF EndTask
  <1>3. Settled /\ ~Closing'
    BY <1>2 DEF Settled, Resetting, Closing, Idle, At
  <1>4. underlying \in [Clients -> {"none", "made", "gone"}]
    BY DEF TaskInv, TasksTyped
  <1>5. CASE apartment.then = "create"
    <2>1. /\ underlying' = [underlying EXCEPT ![c] = "made"] /\ instances' = Append(instances, c)
          /\ frontend' = frontend \cup {c} /\ ui' = ui /\ active' = active
      BY <1>1, <1>5 DEF EndTask, Attach, Deliver, managerVars
    <2>2. underlying[c] = "none"
      BY <1>1, <1>2, <1>5 DEF TaskInv, MadeFirst, Making
    <2>3. c \notin ToSet(instances)
      BY <2>2 DEF ListInv
    <2>4. /\ instances' \in Seq(Instances) /\ IsInjective(instances') /\ ToSet(instances') = ToSet(instances) \cup {c}
      BY <2>1, <2>3, AppendedList DEF ListInv, Instances
    <2>5. \A d \in Clients : underlying'[d] = IF d = c THEN "made" ELSE underlying[d]
      BY <2>1, <1>4
    <2>6. frontend' = {d \in Clients : underlying'[d] = "made"}
      BY <2>1, <2>5 DEF ListInv
    <2>7. \A d \in Clients : d \in ui' => underlying'[d] # "none"
      BY <2>1, <2>5 DEF ListInv
    <2>8. ToSet(instances') = ui' \cup frontend'
      BY <2>1, <2>4 DEF ListInv
    <2> QED BY <2>1, <2>4, <2>6, <2>7, <2>8, <1>2, <1>3 DEF ListInv
  <1>6. CASE apartment.then = "message"
    <2>1. /\ underlying' = underlying /\ instances' = instances /\ frontend' = frontend
          /\ (ui' = ui /\ active' = active) \/ (ui' = ui \cup {c} /\ active' = c)
      BY <1>1, <1>6 DEF EndTask, Attach, Deliver, SetUi, managerVars
    <2>2. underlying[c] = "made"
      BY <1>1, <1>2, <1>6 DEF TaskInv, MadeFirst, Making
    <2>3. c \in frontend /\ c \in Instances
      BY <2>2 DEF ListInv, Instances
    <2>4. ToSet(instances') = ui' \cup frontend' /\ ui' \subseteq Instances
      BY <2>1, <2>3 DEF ListInv
    <2>5. \A d \in Clients : d \in ui' => underlying'[d] # "none"
      BY <2>1, <2>2 DEF ListInv
    <2>6. active' # NULL => active' \in ui'
      BY <2>1, <1>3 DEF ListInv
    <2> QED BY <2>1, <2>4, <2>5, <2>6, <1>2, <1>3 DEF ListInv
  <1>7. CASE apartment.then = "disconnect"
    <2>1. UNCHANGED <<instances, ui, frontend, underlying, active>>
      BY <1>7 DEF EndTask, managerVars
    <2>2. ListQuiet
      BY <2>1, <1>2, <1>3 DEF ListQuiet
    <2> QED BY <2>2, ListQuietKept
  <1> QED BY <1>1, <1>5, <1>6, <1>7

LEMMA DestroyTaskList ==
    ASSUME TaskInv, ListInv, DestroyTask
    PROVE  ListInv'
  <1>1. PICK c : c = Head(queue).of
    OBVIOUS
  <1>2. apartment = Idle /\ apartment' = apartment /\ todo' = todo /\ ui' = ui /\ queue # <<>>
    BY DEF DestroyTask
  <1>3. c \in Clients
    BY <1>1, <1>2, TailList, TaskFacts DEF TaskInv, TasksTyped
  <1>4. Settled /\ ~Closing'
    BY <1>2 DEF Settled, Resetting, Closing, Idle, At
  <1>5. underlying \in [Clients -> {"none", "made", "gone"}]
    BY DEF TaskInv, TasksTyped
  <1>6. CASE underlying[c] = "made"
    <2>1. /\ underlying' = [underlying EXCEPT ![c] = "gone"] /\ frontend' = frontend \ {c}
          /\ active' = (IF active = c THEN NULL ELSE active)
          /\ IF c \in ui THEN instances' = instances ELSE instances' = RemoveFirst(instances, c)
      BY <1>1, <1>6 DEF DestroyTask, Erase
    <2>2. instances \in Seq(Instances) /\ IsInjective(instances)
      BY DEF ListInv
    <2>3. /\ instances' \in Seq(Instances) /\ IsInjective(instances')
          /\ ToSet(instances') = IF c \in ui THEN ToSet(instances) ELSE ToSet(instances) \ {c}
      BY <2>1, <2>2, RemovedList
    <2>4. \A d \in Clients : underlying'[d] = IF d = c THEN "gone" ELSE underlying[d]
      BY <2>1, <1>5
    <2>5. frontend' = {d \in Clients : underlying'[d] = "made"}
      BY <2>1, <2>4 DEF ListInv
    <2>6. \A d \in Clients : d \in ui' => underlying'[d] # "none"
      BY <2>4, <1>2 DEF ListInv
    <2>7. ToSet(instances') = ui' \cup frontend'
      BY <2>1, <2>3, <1>2 DEF ListInv
    <2>8. active' # NULL => active' \in ui'
      BY <2>1, <1>2, <1>4 DEF ListInv
    <2> QED BY <2>3, <2>5, <2>6, <2>7, <2>8, <1>2, <1>4 DEF ListInv
  <1>7. CASE underlying[c] # "made"
    <2>1. UNCHANGED <<instances, todo, ui, frontend, underlying, active, apartment>>
      BY <1>1, <1>2, <1>7 DEF DestroyTask
    <2> QED BY <2>1, ListSame
  <1> QED BY <1>6, <1>7

LEMMA UserList ==
    ASSUME ListInv, UserStep
    PROVE  ListInv'
  <1>1. /\ instances \in Seq(Instances) /\ IsInjective(instances) /\ todo \in Seq(Instances) /\ ui \subseteq Instances
        /\ ToSet(instances) = ui \cup frontend /\ frontend = {c \in Clients : underlying[c] = "made"}
        /\ \A c \in Clients : c \in ui => underlying[c] # "none"
    BY DEF ListInv
  <1>2. Idle.at = "idle"
    BY DEF Idle, At
  <1>3. ASSUME apartment = Idle PROVE Settled /\ (active # NULL => active \in ui)
    BY <1>2, <1>3 DEF Settled, Resetting, ListInv
  <1>4. ASSUME NEW f \in Files, LoadSession(f) PROVE ListInv'
    <2>1. /\ instances' = Append(instances, f) /\ f \notin ToSet(instances) /\ ui' = ui \cup {f} /\ active' = f
          /\ todo' = todo /\ underlying' = underlying /\ frontend' = frontend /\ apartment' = apartment /\ apartment = Idle
      BY <1>4 DEF LoadSession, SetUi, Click
    <2>2. /\ instances' \in Seq(Instances) /\ IsInjective(instances') /\ ToSet(instances') = ToSet(instances) \cup {f}
      BY <2>1, <1>1, AppendedList DEF Instances
    <2>3. f \in Instances /\ f \notin Clients
      BY FrontendServerAssumption DEF Instances
    <2>4. ~Closing'
      BY <2>1, <1>2 DEF Closing
    <2>5. ToSet(instances') = ui' \cup frontend' /\ ui' \subseteq Instances /\ \A c \in Clients : c \in ui' => underlying'[c] # "none"
      BY <2>1, <2>2, <2>3, <1>1
    <2> QED BY <2>1, <2>2, <2>4, <2>5, <1>1 DEF ListInv
  <1>5. ASSUME NEW i \in Clients \cup Files, OnUiActivated(i) PROVE ListInv'
    <2>1. /\ UNCHANGED <<instances, todo, ui, frontend, underlying, apartment>> /\ active' = i /\ i \in ui /\ apartment = Idle
      BY <1>5 DEF OnUiActivated, Click
    <2>2. ~Closing'
      BY <2>1, <1>2 DEF Closing
    <2> QED BY <2>1, <2>2, <1>1 DEF ListInv
  <1>6. ASSUME NEW i \in Clients \cup Files, OnUiClosed(i) PROVE ListInv'
    <2>1. /\ UNCHANGED <<instances, ui, frontend, underlying>> /\ apartment = Idle /\ apartment' = At("reset", NULL, NULL)
          /\ active' = (IF active = i THEN NULL ELSE active) /\ todo' = <<i>>
      BY <1>6 DEF OnUiClosed, Click
    <2>2. todo' \in Seq(Instances) /\ ToSet(todo') = {i}
      BY <2>1 DEF Instances, ToSet
    <2>3. ~Settled'
      BY <2>1 DEF Settled, Resetting, At
    <2>4. active' # NULL => active' \in ui' /\ active' \notin ToSet(todo')
      BY <2>1, <2>2, <1>3
    <2> QED BY <2>1, <2>2, <2>3, <2>4, <1>1 DEF ListInv
  <1>7. CASE CloseAll
    <2>1. /\ UNCHANGED <<instances, ui, frontend, underlying, active>> /\ apartment' = At("close", NULL, NULL) /\ todo' = instances
      BY <1>7 DEF CloseAll, managerVars
    <2>2. ~Settled' /\ ~Closing'
      BY <2>1 DEF Settled, Resetting, Closing, At
    <2> QED BY <2>1, <2>2, <1>1 DEF ListInv
  <1>8. CASE EnableRemoteSockets \/ StopAccepting
    <2>1. /\ UNCHANGED <<instances, todo, ui, frontend, underlying, active>> /\ apartment = Idle
          /\ apartment' \in {At("join", NULL, "listen"), At("stop", NULL, NULL)}
      BY <1>8 DEF EnableRemoteSockets, StopAccepting, Click, managerVars
    <2>2. ~Closing'
      BY <2>1 DEF Closing, At
    <2>3. ListQuiet
      BY <2>1, <2>2, <1>3 DEF ListQuiet
    <2> QED BY <2>3, ListQuietKept
  <1> QED BY <1>4, <1>5, <1>6, <1>7, <1>8 DEF UserStep

LEMMA ResetList ==
    ASSUME ServerInv, ListInv, ResetEntry \/ ResetDone \/ OutboundDisconnect
    PROVE  ListInv'
  <1>1. /\ instances \in Seq(Instances) /\ IsInjective(instances) /\ todo \in Seq(Instances) /\ ui \subseteq Instances
        /\ ToSet(instances) = ui \cup frontend /\ frontend = {c \in Clients : underlying[c] = "made"}
        /\ \A c \in Clients : c \in ui => underlying[c] # "none"
        /\ Closing /\ active # NULL => active \in ui /\ active \notin ToSet(todo)
    BY DEF ListInv
  <1>2. CASE ResetEntry
    <2>1. PICK i : i = Head(todo)
      OBVIOUS
    <2>2. /\ UNCHANGED <<frontend, underlying, active>> /\ apartment.at \in {"reset", "close", "quit"} /\ todo # <<>>
          /\ ui' = ui \ {i} /\ todo' = Tail(todo)
          /\ IF i \in frontend THEN instances' = instances ELSE instances' = RemoveFirst(instances, i)
          /\ apartment' = apartment \/ apartment' = At("outbound", i, apartment.at)
      BY <1>2, <2>1 DEF ResetEntry, Resetting, Erase
    <2>3. todo' \in Seq(Instances) /\ ToSet(todo') \subseteq ToSet(todo) /\ i \in ToSet(todo)
      BY <1>1, <2>1, <2>2, TailList
    <2>4. /\ instances' \in Seq(Instances) /\ IsInjective(instances')
          /\ ToSet(instances') = IF i \in frontend THEN ToSet(instances) ELSE ToSet(instances) \ {i}
      BY <1>1, <2>2, RemovedList
    <2>5. ToSet(instances') = ui' \cup frontend'
      BY <1>1, <2>2, <2>4
    <2>6. ~Settled' /\ (Closing' => Closing)
      BY <2>2 DEF Settled, Resetting, Closing, At
    <2>7. Closing' /\ active' # NULL => active' \in ui' /\ active' \notin ToSet(todo')
      BY <1>1, <2>2, <2>3, <2>6
    <2> QED BY <1>1, <2>2, <2>3, <2>4, <2>5, <2>6, <2>7 DEF ListInv
  <1>3. CASE ResetDone
    <2>1. /\ UNCHANGED <<instances, todo, ui, frontend, underlying>> /\ apartment.at \in {"reset", "close", "quit"}
          /\ apartment' = (IF apartment.at = "quit" THEN At("done", NULL, NULL) ELSE Idle)
          /\ active' = (IF apartment.at = "close" THEN NULL ELSE active)
      BY <1>3 DEF ResetDone, Resetting
    <2>2. ~Closing' /\ (Settled' => apartment.at # "quit")
      BY <2>1 DEF Settled, Closing, At, Idle
    <2>3. Settled' /\ active' # NULL => active' \in ui'
      BY <1>1, <2>1, <2>2 DEF Closing
    <2> QED BY <1>1, <2>1, <2>2, <2>3 DEF ListInv
  <1>4. CASE OutboundDisconnect
    <2>1. /\ UNCHANGED <<instances, todo, ui, frontend, underlying, active>> /\ apartment.at = "outbound"
          /\ apartment' = At(apartment.then, NULL, NULL)
      BY <1>4 DEF OutboundDisconnect, managerVars
    <2>2. apartment.then \in {"reset", "close", "quit"}
      BY <2>1 DEF ServerInv, ApartmentTyped
    <2>3. ListQuiet
      BY <2>1, <2>2 DEF ListQuiet, Settled, Resetting, Closing, At
    <2> QED BY <2>3, ListQuietKept
  <1> QED BY <1>2, <1>3, <1>4

\* Every step keeps windows, frontends and the list in agreement.
LEMMA ListKept ==
    ASSUME ServerInv, TaskInv, ListInv, [Next]_vars
    PROVE  ListInv'
  <1> USE DEF managerVars
  <1>1. CASE ThreadStep
    <2>1. CASE \E c \in Clients : NullSession(c)
      <3>1. PICK c \in Clients : NullSession(c)
        BY <2>1
      <3>2. /\ UNCHANGED <<instances, todo, ui, frontend, underlying, active>>
            /\ apartment' = At("crashed", NULL, NULL) /\ kind[c] = "session" /\ ~alive[c]
        BY <3>1 DEF NullSession
      <3>3. /\ c \in ToSet(handlers)
            /\ accepting \/ apartment.at \in {"stop", "crashed"} \/ (apartment.at = "join" /\ apartment.then = "quit")
        BY <3>1, TurnFacts DEF NullSession
      <3>4. ~accepting
        BY <3>2, <3>3 DEF ServerInv, Lifetimes
      <3>5. ListQuiet
        BY <3>2, <3>3, <3>4 DEF ListQuiet, Settled, Resetting, Closing, At
      <3> QED BY <3>5, ListQuietKept
    <2>2. CASE Select \/ AcceptPreinit \/ AcceptRegular \/ HandleAux
      <3>1. UNCHANGED <<instances, todo, ui, frontend, underlying, active, apartment>>
        BY <2>2 DEF Select, AcceptPreinit, AcceptRegular, HandleAux
      <3> QED BY <3>1, ListSame
    <2>3. CASE \E h \in Clients \cup {"aux"} : HandlePreinit(h)
      <3>1. UNCHANGED <<instances, todo, ui, frontend, underlying, active, apartment>>
        BY <2>3 DEF HandlePreinit
      <3> QED BY <3>1, ListSame
    <2>4. CASE \E c \in Clients : SessionMessage(c) \/ SessionDisconnect(c)
      <3>1. UNCHANGED <<instances, todo, ui, frontend, underlying, active, apartment>>
        BY <2>4 DEF SessionMessage, SessionDisconnect
      <3> QED BY <3>1, ListSame
    <2> QED BY <1>1, <2>1, <2>2, <2>3, <2>4 DEF ThreadStep
  <1>2. CASE ReleaseStep
    <2>1. UNCHANGED <<instances, todo, ui, frontend, underlying, active, apartment>>
      BY <1>2 DEF ReleaseStep, ReleaseSession, ReleaseOutbound, ReleaseSocket
    <2> QED BY <2>1, ListSame
  <1>3. CASE RemoteStep
    <2>1. UNCHANGED <<instances, todo, ui, frontend, underlying, active, apartment>>
      BY <1>3 DEF RemoteStep, Connect, Send, Leave, Dropped
    <2> QED BY <2>1, ListSame
  <1>4. CASE ServerGone
    <2>1. /\ UNCHANGED <<instances, ui, frontend, underlying, active>> /\ apartment.at = "join"
          /\ apartment' = At(apartment.then, NULL, NULL)
          /\ todo' = IF apartment.then = "quit" THEN instances ELSE <<>>
      BY <1>4 DEF ServerGone
    <2>2. apartment.then \in {"listen", "quit"}
      BY <2>1 DEF ServerInv, ApartmentTyped
    <2>3. Settled /\ ~Closing'
      BY <2>1, <2>2 DEF Settled, Resetting, Closing, At
    <2>4. todo' \in Seq(Instances)
      BY <2>1 DEF ListInv
    <2> QED BY <2>1, <2>3, <2>4 DEF ListInv
  <1>5. CASE BeginTask \/ Listen \/ StartServer \/ StopServer
    <2>1. UNCHANGED <<instances, todo, ui, frontend, underlying, active>>
      BY <1>5 DEF BeginTask, Listen, StartServer, StopServer
    <2>2. apartment.at \in {"idle", "listen", "connect_aux", "stop"}
      BY <1>5 DEF BeginTask, Listen, StartServer, StopServer, Idle, At
    <2>3. apartment'.at \in {"idle", "task", "connect_aux", "join"}
      BY <1>5 DEF BeginTask, Listen, StartServer, StopServer, Idle, At
    <2>4. ListQuiet
      BY <2>1, <2>2, <2>3 DEF ListQuiet, Settled, Resetting, Closing
    <2> QED BY <2>4, ListQuietKept
  <1>6. CASE DestroyHandlers \/ Finished \/ UNCHANGED vars
    <2>1. UNCHANGED <<instances, todo, ui, frontend, underlying, active, apartment>>
      BY <1>6 DEF DestroyHandlers, Finished, vars
    <2> QED BY <2>1, ListSame
  <1> QED BY <1>1, <1>2, <1>3, <1>4, <1>5, <1>6, EndTaskList, DestroyTaskList, UserList, ResetList DEF Next, ApartmentStep

-----------------------------------------------------------------------------
(* The theorems.                                                           *)

LEMMA InitIInv == Init => IInv
  <1> SUFFICES ASSUME Init PROVE IInv
    OBVIOUS
  <1>1. /\ remote = [c \in Clients |-> "none"] /\ sent = [c \in Clients |-> 0] /\ wire = [c \in Clients |-> 0]
        /\ backlog = <<>> /\ aux = <<>> /\ handlers = <<>> /\ thread = "ended" /\ ready = {} /\ release = NULL
        /\ kind = [h \in Clients \cup {"acceptor", "aux"} |-> "none"]
        /\ alive = [c \in Clients |-> FALSE] /\ out = [c \in Clients |-> FALSE] /\ socket = [c \in Clients |-> FALSE]
        /\ accepting = TRUE /\ queue = <<>> /\ apartment = At("listen", NULL, NULL) /\ todo = <<>>
        /\ received = [c \in Clients |-> 0] /\ underlying = [c \in Clients |-> "none"]
        /\ instances = <<>> /\ ui = {} /\ frontend = {} /\ active = NULL
    BY DEF Init
  <1>2. ToSet(<<>>) = {} /\ IsInjective(<<>>)
    BY EmptyList
  <1>3. ServerTyped /\ ApartmentTyped
    BY <1>1 DEF ServerTyped, ApartmentTyped, Handlers, At, Places
  <1>4. OnePlace /\ ReadyListed /\ Phase
    BY <1>1, <1>2 DEF OnePlace, ReadyListed, Phase, Releasing
  <1>5. Lifetimes /\ Course /\ Inside
    BY <1>1, <1>2 DEF Lifetimes, Course, Inside, Quitting, Releasing, At
  <1>6. Len(queue) = 0
    BY <1>1
  <1>7. TasksTyped
    BY <1>1 DEF TasksTyped
  <1>8. \A k, c : ~Waits(k, c)
    BY <1>6 DEF Waits
  <1>9. FreshBefore
    BY <1>1, <1>8 DEF FreshBefore, Fresh
  <1>10. \A c \in Clients : ~alive[c] /\ ~Making(c) /\ OneCreate(c) /\ apartment.at # "task"
    BY <1>1, <1>6 DEF Making, OneCreate, At
  <1>11. MadeFirst
    BY <1>8, <1>10 DEF MadeFirst, CreateFirst
  <1>12. ListInv
    <2>1. frontend = {c \in Clients : underlying[c] = "made"}
      BY <1>1
    <2> QED BY <1>1, <1>2, <2>1 DEF ListInv
  <1>13. MessagesConserved
    BY <1>10 DEF MessagesConserved
  <1> QED BY <1>3, <1>4, <1>5, <1>7, <1>9, <1>11, <1>12, <1>13 DEF IInv, ServerInv, TaskInv

LEMMA StepIInv == IInv /\ [Next]_vars => IInv'
  <1> SUFFICES ASSUME IInv, [Next]_vars PROVE IInv'
    OBVIOUS
  <1>1. ServerInv /\ TaskInv /\ ListInv /\ MessagesConserved /\ TasksTyped /\ frontend \subseteq Clients
    BY DEF IInv, TaskInv, ListInv
  <1> QED BY <1>1, ServerKept, TasksKept, ListKept, MessagesKept DEF IInv

LEMMA Invariance == Spec => []IInv
  BY InitIInv, StepIInv, PTL DEF Spec

\* Neither thread uses what the other has freed, whatever the number of connections: the apartment
\* calls out (socket_handler::disconnect) only through a handler whose socket is open, runs a task
\* of a marshalled session only while the session lives and, but for the first, after its frontend
\* was made, and a null session is called only once the marshalled server was stopped.
THEOREM FreedUnused == Spec => []NothingFreedInUse
  <1>1. IInv => NothingFreedInUse
    <2> SUFFICES ASSUME IInv PROVE NothingFreedInUse
      OBVIOUS
    <2>1. OutboundIsOpen
      <3> SUFFICES ASSUME apartment.at = "outbound" PROVE socket[apartment.of]
        BY DEF OutboundIsOpen
      <3>1. apartment.of \in Clients /\ out[apartment.of]
        BY DEF IInv, ServerInv, ApartmentTyped, Inside
      <3> QED BY <3>1 DEF IInv, ServerInv, Lifetimes, Releasing
    <2>2. TaskHasSession
      <3> SUFFICES ASSUME apartment.at = "task"
                   PROVE  alive[apartment.of] /\ (apartment.then # "create" => underlying[apartment.of] = "made")
        BY DEF TaskHasSession
      <3>1. apartment.of \in Clients /\ alive[apartment.of]
        BY DEF IInv, ServerInv, ApartmentTyped, Inside
      <3> QED BY <3>1 DEF IInv, TaskInv, MadeFirst, Making
    <2>3. NullOnlyWhenStopping
      BY DEF IInv, ServerInv, Course, NullOnlyWhenStopping
    <2> QED BY <2>1, <2>2, <2>3 DEF NothingFreedInUse
  <1> QED BY <1>1, Invariance, PTL

\* No message of a live session is lost between the wire and the frontend, even when it comes before
\* the frontend was made or before the server could tell the connection from its auxiliary one.
THEOREM MessagesTrue == Spec => []MessagesConserved
  <1>1. IInv => MessagesConserved
    BY DEF IInv
  <1> QED BY <1>1, Invariance, PTL

\* frontend_manager lists an instance once and exactly as long as it has a window or a frontend,
\* and the active one has a window, however connections, the user and the restarts interleave.
THEOREM InstancesTrue == Spec => []InstancesAgree
  <1>1. IInv => InstancesAgree
    BY DEF IInv, ListInv, InstancesAgree
  <1> QED BY <1>1, Invariance, PTL

=================================================================================
