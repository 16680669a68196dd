-------------------------------- MODULE Analyzer --------------------------------
(***************************************************************************)
(* analyzer, thread_analyzer and shadow_stack: how the traces of threads   *)
(* become a tree of statistics.  A trace arrives in batches cut anywhere,  *)
(* the statistics are sent and cleared at any moment, and the calls that   *)
(* are open then are remembered by the shadow stack alone.                 *)
(*                                                                         *)
(* The profiled program is part of the model: it works, calls and returns, *)
(* and the profiler delays it by a constant part before and after each of  *)
(* the two timestamps of a call.                                           *)
(***************************************************************************)
EXTENDS Naturals, Integers, Sequences

CONSTANTS Threads,      \* thread identifiers
          Callees,      \* instrumented functions
          Exit,         \* the callee of an exit record, null in the code
          Before,       \* delay before the timestamp of an enter
          EnterAfter,   \* delay after it, seen by the function called
          ExitBefore,   \* delay before the timestamp of an exit, seen by it too
          After,        \* delay after it
          MaxRecords,   \* bound: per thread, its records
          MaxWork,      \* bound: per thread, the time it spends working
          MaxClears     \* bound: times the statistics are cleared

ASSUME DelaysAssumption == {Before, EnterAfter, ExitBefore, After} \subseteq Nat
ASSUME RecordsAssumption ==
    MaxRecords \in [Threads -> Nat] /\ MaxWork \in [Threads -> Nat] /\ MaxClears \in Nat
ASSUME CalleesAssumption == Exit \notin Callees

\* What calibration measures.
Inner == EnterAfter + ExitBefore
Outer == Before + After
Total == Inner + Outer

VARIABLES
    program,      \* per thread: [clock, worked, records, running], running calls [callee, own, inner]
    pending,      \* per thread: records not analysed yet
    analyzers,    \* _thread_analyzers: [stack, statistics] of the threads seen
    clears,       \* times the statistics were cleared
    expected      \* per thread: the true statistics of what was analysed since

vars == <<program, pending, analyzers, clears, expected>>

NoStatistics == [times_called |-> 0, inclusive_time |-> 0, exclusive_time |-> 0, max_call_time |-> 0]

\* add(function_statistics &, inclusive, exclusive).
AddTimes(s, inclusive, exclusive) ==
    [times_called   |-> s.times_called + 1,
     inclusive_time |-> s.inclusive_time + inclusive,
     exclusive_time |-> s.exclusive_time + exclusive,
     max_call_time  |-> IF inclusive > s.max_call_time THEN inclusive ELSE s.max_call_time]

\* A tree of statistics is a function on the paths of its nodes.  A node is
\* made when it is looked up first.
WithNode(tree, path) ==
    IF path \in DOMAIN tree
      THEN tree
      ELSE [p \in DOMAIN tree \cup {path} |-> IF p = path THEN NoStatistics ELSE tree[p]]

-----------------------------------------------------------------------------
(* shadow_stack.                                                           *)

\* The bottom record stands for the root of the tree.
Root == [callee |-> Exit, enter_at |-> 0, children_time_observed |-> 0, children_overhead |-> 0]

\* The path of the node that record n of the stack points to.
PathOf(stack, n) == [i \in 1..(n - 1) |-> stack[i + 1].callee]

\* reset_stack: every open call is given its node in the statistics again.
ResetStack(a) ==
    LET made[n \in 1..Len(a.stack)] ==
            IF n = 1 THEN a.statistics ELSE WithNode(made[n - 1], PathOf(a.stack, n))
    IN  [a EXCEPT !.statistics = made[Len(a.stack)]]

\* enter: a record is pushed and its node is looked up or made.
EnterCall(a, r) ==
    LET s == Append(a.stack, [callee |-> r.callee, enter_at |-> r.timestamp,
                              children_time_observed |-> 0, children_overhead |-> 0])
    IN  [stack |-> s, statistics |-> WithNode(a.statistics, PathOf(s, Len(s)))]

\* A time is added through the pointer to a node.  After a clear the node is
\* no longer a part of the statistics.
AddAt(tree, path, inclusive, exclusive) ==
    IF path \in DOMAIN tree
      THEN [tree EXCEPT ![path] = AddTimes(@, inclusive, exclusive)]
      ELSE tree

\* The time between the timestamps of a call, without the profiler's share.
Observed(current, r) == (r.timestamp - current.enter_at) - Inner

\* Mutant: the overhead of the grandchildren is forgotten.
MutantExitCall(a, r) ==
    LET n         == Len(a.stack)
        current   == a.stack[n]
        observed  == Observed(current, r)
    IN  [stack |-> [SubSeq(a.stack, 1, n - 1) EXCEPT
                      ![n - 1].children_time_observed = @ + observed + Total,
                      ![n - 1].children_overhead = @ + Total],
         statistics |-> AddAt(a.statistics, PathOf(a.stack, n),
                              observed - current.children_overhead,
                              observed - current.children_time_observed)]

\* exit: the times of the call are corrected by the overhead of the profiler,
\* its own and that of the calls below, and passed on to its parent.
ExitCall(a, r) ==
    LET n         == Len(a.stack)
        current   == a.stack[n]
        observed  == Observed(current, r)
    IN  [stack |-> [SubSeq(a.stack, 1, n - 1) EXCEPT
                      ![n - 1].children_time_observed = @ + observed + Total,
                      ![n - 1].children_overhead = @ + Total + current.children_overhead],
         statistics |-> AddAt(a.statistics, PathOf(a.stack, n),
                              observed - current.children_overhead,
                              observed - current.children_time_observed)]

\* update: the records of a batch, one after the other.
TakeRecord(a, r) == IF r.callee = Exit THEN ExitCall(a, r) ELSE EnterCall(a, r)
Update(a, batch) ==
    LET after[n \in 0..Len(batch)] == IF n = 0 THEN ResetStack(a) ELSE TakeRecord(after[n - 1], batch[n])
    IN  after[Len(batch)]

-----------------------------------------------------------------------------
(* analyzer.                                                               *)

\* The analyzer of thread t, a new one if there is none.
AnalyzerOf(t) ==
    IF t \in DOMAIN analyzers
      THEN analyzers[t]
      ELSE [stack |-> <<Root>>, statistics |-> <<>>]

\* The true statistics, from what the program noted down with each exit.
Account(tree, r) ==
    IF r.callee = Exit
      THEN LET t == WithNode(tree, r.path)
           IN  [t EXCEPT ![r.path] = AddTimes(@, r.inclusive, r.exclusive)]
      ELSE tree
AccountAll(tree, batch) ==
    LET after[n \in 0..Len(batch)] == IF n = 0 THEN tree ELSE Account(after[n - 1], batch[n])
    IN  after[Len(batch)]

\* accept_calls: the next n records of thread t, possibly none.
AcceptCalls(t) ==
    /\ \E n \in 0..Len(pending[t]) :
          LET batch == SubSeq(pending[t], 1, n)
          IN  /\ analyzers' = [u \in DOMAIN analyzers \cup {t} |->
                                 IF u = t THEN Update(AnalyzerOf(t), batch) ELSE analyzers[u]]
              /\ pending' = [pending EXCEPT ![t] = SubSeq(@, n + 1, Len(@))]
              /\ expected' = [expected EXCEPT ![t] = AccountAll(@, batch)]
    /\ UNCHANGED <<program, clears>>

\* clear: the statistics go, the stacks stay.
Clear ==
    /\ clears < MaxClears
    /\ clears' = clears + 1
    /\ analyzers' = [t \in DOMAIN analyzers |-> [analyzers[t] EXCEPT !.statistics = <<>>]]
    /\ expected' = [t \in Threads |-> <<>>]
    /\ UNCHANGED <<program, pending>>

-----------------------------------------------------------------------------
(* External: the profiled program.                                         *)

Work(t) ==
    LET p == program[t]
    IN  /\ p.running # <<>>
        /\ p.worked < MaxWork[t]
        /\ program' = [program EXCEPT ![t].clock = @ + 1, ![t].worked = @ + 1,
                                      ![t].running[Len(p.running)].own = @ + 1]
        /\ UNCHANGED <<pending, analyzers, clears, expected>>

Call(t, f) ==
    LET p == program[t]
    IN  \* room is left for the exits of the calls that are open
        /\ p.records + Len(p.running) + 2 <= MaxRecords[t]
        /\ program' = [program EXCEPT ![t].clock = @ + Before + EnterAfter, ![t].records = @ + 1,
                                      ![t].running = Append(@, [callee |-> f, own |-> 0, inner |-> 0])]
        /\ pending' = [pending EXCEPT ![t] = Append(@, [callee |-> f, timestamp |-> p.clock + Before])]
        /\ UNCHANGED <<analyzers, clears, expected>>

\* The true times of the call go with the exit record.
Return(t) ==
    LET p == program[t]
        n == Len(p.running)
        c == p.running[n]
        up == SubSeq(p.running, 1, n - 1)
    IN  /\ n > 0
        /\ program' = [program EXCEPT
                         ![t].clock = @ + ExitBefore + After, ![t].records = @ + 1,
                         ![t].running = IF n = 1 THEN up ELSE [up EXCEPT ![n - 1].inner = @ + c.own + c.inner]]
        /\ pending' = [pending EXCEPT ![t] = Append(@,
                         [callee |-> Exit, timestamp |-> p.clock + ExitBefore,
                          path |-> [i \in 1..n |-> p.running[i].callee],
                          inclusive |-> c.own + c.inner, exclusive |-> c.own])]
        /\ UNCHANGED <<analyzers, clears, expected>>

-----------------------------------------------------------------------------

Init ==
    /\ program = [t \in Threads |-> [clock |-> 0, worked |-> 0, records |-> 0, running |-> <<>>]]
    /\ pending = [t \in Threads |-> <<>>]
    /\ analyzers = <<>>
    /\ clears = 0
    /\ expected = [t \in Threads |-> <<>>]

Next ==
    \/ \E t \in Threads : AcceptCalls(t) \/ Work(t) \/ Return(t)
    \/ \E t \in Threads, f \in Callees : Call(t, f)
    \/ Clear

Spec == Init /\ [][Next]_vars

-----------------------------------------------------------------------------
(* Properties.                                                             *)

Statistics == [times_called : Nat, inclusive_time : Nat, exclusive_time : Nat, max_call_time : Nat]

\* The stack never loses its bottom record and no time is negative.
TypeOK ==
    /\ DOMAIN analyzers \subseteq Threads
    /\ \A t \in DOMAIN analyzers :
          /\ Len(analyzers[t].stack) >= 1
          /\ \A path \in DOMAIN analyzers[t].statistics : analyzers[t].statistics[path] \in Statistics

\* However the trace was cut into batches and whenever the statistics were
\* cleared, the calls that ended since are counted at their place in the
\* tree with the times they really took, none of the profiler's included.
TimesAreTrue ==
    \A t \in DOMAIN analyzers :
        LET tree == analyzers[t].statistics
        IN  /\ DOMAIN expected[t] = {p \in DOMAIN tree : tree[p].times_called > 0}
            /\ \A p \in DOMAIN expected[t] : tree[p] = expected[t][p]

\* The statistics that the analyzer has are times, and the true ones.
StatisticsTrue == TypeOK /\ TimesAreTrue

================================================================================
