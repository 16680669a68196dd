----------------------------- MODULE AnalyzerProofs -----------------------------
(***************************************************************************)
(* Proofs about the analyzer, for any threads, functions and delays and    *)
(* however long the program runs: the statistics are the true ones,        *)
(* however its trace is cut into batches and whenever they are cleared.    *)
(***************************************************************************)
EXTENDS Analyzer, TLAPS, SequenceTheorems, WellFoundedInduction

StackRecord == [callee : Callees \cup {Exit}, enter_at : Int, children_time_observed : Int, children_overhead : Int]
Stacks == {s \in Seq(StackRecord) : Len(s) >= 1}
RunningCall == [callee : Callees, own : Nat, inner : Nat]
Program == [clock : Nat, worked : Nat, records : Nat, running : Seq(RunningCall)]
EnterRecord == [callee : Callees, timestamp : Int]
ExitRecord == [callee : {Exit}, timestamp : Int, path : Seq(Callees), inclusive : Nat, exclusive : Nat]
TraceRecord == EnterRecord \cup ExitRecord

\* A non-empty set of naturals has a least element: the form of induction that
\* the proofs below use, on the set of counterexamples.
LEMMA Least ==
    ASSUME NEW S \in SUBSET Nat, S # {}
    PROVE  \E least \in S : \A y \in S : least <= y
  <1>1. PICK least \in S : \A y \in S : ~(<<y, least>> \in OpToRel(<, Nat))
    BY NatLessThanWellFounded, WFMin
  <1>2. ASSUME NEW y \in S, y < least PROVE FALSE
    <2>1. y \in Nat /\ least \in Nat
      OBVIOUS
    <2>2. <<y, least>> \in OpToRel(<, Nat)
      BY <1>2, <2>1 DEF OpToRel
    <2> QED BY <1>1, <2>2
  <1>3. \A y \in S : least <= y
    BY <1>2
  <1> QED BY <1>3

-----------------------------------------------------------------------------
(* The tree of statistics.                                                 *)

\* The tree has the statistics that are true, and otherwise nodes that are empty.
TreeTrue(tree, truth) ==
    /\ \A p \in DOMAIN tree : tree[p] \in Statistics /\ (tree[p].times_called = 0 => tree[p] = NoStatistics)
    /\ DOMAIN truth = {p \in DOMAIN tree : tree[p].times_called > 0}
    /\ \A p \in DOMAIN truth : truth[p] = tree[p]

LEMMA NodeMade ==
    ASSUME NEW tree, NEW truth, NEW path, TreeTrue(tree, truth)
    PROVE  TreeTrue(WithNode(tree, path), truth) /\ DOMAIN WithNode(tree, path) = DOMAIN tree \cup {path}
  <1>1. CASE path \in DOMAIN tree
    BY <1>1 DEF WithNode
  <1>2. CASE path \notin DOMAIN tree
    <2> DEFINE w == WithNode(tree, path)
    <2>1. w = [p \in DOMAIN tree \cup {path} |-> IF p = path THEN NoStatistics ELSE tree[p]]
      BY <1>2 DEF WithNode
    <2>2. DOMAIN w = DOMAIN tree \cup {path} /\ w[path] = NoStatistics /\ \A p \in DOMAIN tree : w[p] = tree[p]
      BY <1>2, <2>1
    <2> HIDE DEF w
    <2>3. NoStatistics \in Statistics /\ NoStatistics.times_called = 0
      BY DEF NoStatistics, Statistics
    <2>4. \A p \in DOMAIN w : w[p] \in Statistics /\ (w[p].times_called = 0 => w[p] = NoStatistics)
      BY <2>2, <2>3 DEF TreeTrue
    <2>5. {p \in DOMAIN w : w[p].times_called > 0} = {p \in DOMAIN tree : tree[p].times_called > 0}
      BY <2>2, <2>3
    <2>6. \A p \in DOMAIN truth : truth[p] = w[p]
      BY <2>2 DEF TreeTrue
    <2>7. TreeTrue(w, truth)
      BY <2>4, <2>5, <2>6 DEF TreeTrue
    <2> QED BY <2>2, <2>7 DEF w
  <1> QED BY <1>1, <1>2

LEMMA TimesAdd ==
    ASSUME NEW s \in Statistics, NEW inclusive \in Nat, NEW exclusive \in Nat
    PROVE  AddTimes(s, inclusive, exclusive) \in Statistics /\ AddTimes(s, inclusive, exclusive).times_called > 0
  <1>1. /\ s.times_called + 1 \in Nat /\ s.inclusive_time + inclusive \in Nat /\ s.exclusive_time + exclusive \in Nat
        /\ s.max_call_time \in Nat /\ s.times_called + 1 > 0
    BY DEF Statistics
  <1> QED BY <1>1 DEF AddTimes, Statistics

\* A time added at a node is accounted for.
LEMMA TimesAdded ==
    ASSUME NEW tree, NEW truth, TreeTrue(tree, truth),
           NEW path \in DOMAIN tree, NEW inclusive \in Nat, NEW exclusive \in Nat
    PROVE  /\ DOMAIN AddAt(tree, path, inclusive, exclusive) = DOMAIN tree
           /\ TreeTrue(AddAt(tree, path, inclusive, exclusive),
                       [WithNode(truth, path) EXCEPT ![path] = AddTimes(@, inclusive, exclusive)])
  <1> DEFINE with == WithNode(truth, path)
             added == AddTimes(tree[path], inclusive, exclusive)
             new == AddAt(tree, path, inclusive, exclusive)
             now == [with EXCEPT ![path] = AddTimes(@, inclusive, exclusive)]
  <1>1. added \in Statistics /\ added.times_called > 0 /\ added.times_called \in Nat
    <2>1. added \in Statistics /\ added.times_called > 0
      BY TimesAdd DEF TreeTrue
    <2> HIDE DEF added
    <2> QED BY <2>1 DEF Statistics
  <1>2. new = [tree EXCEPT ![path] = added]
    BY DEF AddAt
  <1>3. DOMAIN new = DOMAIN tree /\ new[path] = added /\ \A p \in DOMAIN tree : p # path => new[p] = tree[p]
    BY <1>2
  <1>4. DOMAIN with = DOMAIN truth \cup {path} /\ with[path] = tree[path] /\ \A p \in DOMAIN truth : with[p] = tree[p]
    <2>1. CASE path \in DOMAIN truth
      BY <2>1 DEF WithNode, TreeTrue
    <2>2. CASE path \notin DOMAIN truth
      <3>1. tree[path] = NoStatistics
        <4>1. tree[path].times_called \in Nat /\ ~(tree[path].times_called > 0)
          BY <2>2 DEF TreeTrue, Statistics
        <4> QED BY <4>1 DEF TreeTrue
      <3>2. with = [p \in DOMAIN truth \cup {path} |-> IF p = path THEN NoStatistics ELSE truth[p]]
        BY <2>2 DEF WithNode
      <3> QED BY <2>2, <3>1, <3>2 DEF TreeTrue
    <2> QED BY <2>1, <2>2
  <1> HIDE DEF with
  <1>5. now = [with EXCEPT ![path] = added]
    BY <1>4
  <1>6. DOMAIN now = DOMAIN truth \cup {path} /\ now[path] = added /\ \A p \in DOMAIN truth : p # path => now[p] = tree[p]
    BY <1>4, <1>5
  <1> HIDE DEF new, now, added
  <1>7. \A p \in DOMAIN new : new[p] \in Statistics /\ (new[p].times_called = 0 => new[p] = NoStatistics)
    BY <1>1, <1>3 DEF TreeTrue
  <1>8. DOMAIN now = {p \in DOMAIN new : new[p].times_called > 0}
    BY <1>1, <1>3, <1>6 DEF TreeTrue
  <1>9. \A p \in DOMAIN now : now[p] = new[p]
    BY <1>3, <1>6 DEF TreeTrue
  <1>10. TreeTrue(new, now)
    BY <1>7, <1>8, <1>9 DEF TreeTrue
  <1> QED BY <1>3, <1>10 DEF new, now, with

-----------------------------------------------------------------------------
(* The shadow stack: it changes as the records say, whatever the tree.     *)

StackAfter(s, r) == TakeRecord([stack |-> s, statistics |-> <<>>], r).stack

\* The times noted down with an exit are those that the stack gives it.
Right(s, r) ==
    r.callee = Exit =>
      /\ Len(s) >= 2
      /\ r.path = PathOf(s, Len(s))
      /\ r.inclusive = Observed(s[Len(s)], r) - s[Len(s)].children_overhead
      /\ r.exclusive = Observed(s[Len(s)], r) - s[Len(s)].children_time_observed

LEMMA DelayTypes ==
    /\ Before \in Nat /\ EnterAfter \in Nat /\ ExitBefore \in Nat /\ After \in Nat
    /\ Inner \in Nat /\ Total \in Nat /\ Inner = EnterAfter + ExitBefore
    /\ Total = Before + EnterAfter + ExitBefore + After
  BY DelaysAssumption DEF Inner, Outer, Total

LEMMA StackTypes ==
    ASSUME NEW s \in Stacks
    PROVE  /\ s \in Seq(StackRecord) /\ Len(s) \in Nat /\ Len(s) >= 1
           /\ \A i \in 1..Len(s) : /\ s[i] \in StackRecord /\ s[i].callee \in Callees \cup {Exit} /\ s[i].enter_at \in Int
                                   /\ s[i].children_time_observed \in Int /\ s[i].children_overhead \in Int
  <1>1. s \in Seq(StackRecord) /\ Len(s) \in Nat /\ Len(s) >= 1 /\ \A i \in 1..Len(s) : s[i] \in StackRecord
    BY LenProperties, ElementOfSeq DEF Stacks
  <1> QED BY <1>1 DEF StackRecord

LEMMA EnterStack ==
    ASSUME NEW s \in Stacks, NEW r \in EnterRecord
    PROVE  LET u == StackAfter(s, r)
               n == Len(s) + 1
           IN  /\ u \in Stacks /\ Len(u) = n /\ \A i \in 1..Len(s) : u[i] = s[i]
               /\ u[n].callee = r.callee /\ u[n].enter_at = r.timestamp
               /\ u[n].children_time_observed = 0 /\ u[n].children_overhead = 0
  <1> DEFINE u == StackAfter(s, r)
             e == [callee |-> r.callee, enter_at |-> r.timestamp, children_time_observed |-> 0, children_overhead |-> 0]
  <1>1. r.callee # Exit /\ r.callee \in Callees /\ r.timestamp \in Int
    BY CalleesAssumption DEF EnterRecord
  <1>2. u = Append(s, e)
    BY <1>1 DEF StackAfter, TakeRecord, EnterCall
  <1>3. e \in StackRecord /\ e.callee = r.callee /\ e.enter_at = r.timestamp
        /\ e.children_time_observed = 0 /\ e.children_overhead = 0
    BY <1>1 DEF StackRecord
  <1> HIDE DEF u, e
  <1>4. u \in Seq(StackRecord) /\ Len(u) = Len(s) + 1 /\ u[Len(s) + 1] = e /\ \A i \in 1..Len(s) : u[i] = s[i]
    BY <1>2, <1>3, StackTypes, AppendProperties
  <1>5. u \in Stacks
    BY <1>4, StackTypes DEF Stacks
  <1> QED BY <1>3, <1>4, <1>5 DEF u

LEMMA ExitStack ==
    ASSUME NEW s \in Stacks, NEW r \in ExitRecord, Len(s) >= 2
    PROVE  LET u == StackAfter(s, r)
               n == Len(s)
               d == Observed(s[n], r)
           IN  /\ u \in Stacks /\ Len(u) = n - 1 /\ \A i \in 1..(n - 2) : u[i] = s[i]
               /\ u[n - 1].callee = s[n - 1].callee /\ u[n - 1].enter_at = s[n - 1].enter_at
               /\ u[n - 1].children_time_observed = s[n - 1].children_time_observed + d + Total
               /\ u[n - 1].children_overhead = s[n - 1].children_overhead + Total + s[n].children_overhead
  <1> DEFINE u == StackAfter(s, r)
             n == Len(s)
             d == Observed(s[n], r)
             cut == SubSeq(s, 1, n - 1)
             time == s[n - 1].children_time_observed + d + Total
             overhead == s[n - 1].children_overhead + Total + s[n].children_overhead
             parent == [s[n - 1] EXCEPT !.children_time_observed = time, !.children_overhead = overhead]
  <1>1. n \in Nat /\ n \in 1..n /\ n - 1 \in 1..n /\ n - 1 \in Nat /\ n - 1 \in 1..(n - 1)
    BY StackTypes
  <1>2. r.callee = Exit /\ r.timestamp \in Int
    BY DEF ExitRecord
  <1>3. d \in Int
    BY <1>1, <1>2, StackTypes, DelayTypes DEF Observed
  <1>4. time \in Int /\ overhead \in Int
    <2> HIDE DEF d
    <2> QED BY <1>1, <1>3, StackTypes, DelayTypes
  <1>5. cut \in Seq(StackRecord) /\ Len(cut) = n - 1 /\ \A i \in 1..(n - 1) : cut[i] = s[i]
    <2>1. PICK m \in Nat : m = n - 1
      BY <1>1
    <2>2. cut = SubSeq(s, 1, m) /\ \A i \in 1..m : s[i] \in StackRecord
      BY <1>1, <2>1, StackTypes
    <2>3. cut \in Seq(StackRecord) /\ Len(cut) = m /\ \A i \in 1..m : cut[i] = s[i]
      BY <2>2, SubSeqProperties
    <2> QED BY <2>1, <2>3
  <1>6. u = [cut EXCEPT ![n - 1].children_time_observed = @ + d + Total,
                        ![n - 1].children_overhead = @ + Total + s[n].children_overhead]
    BY <1>2 DEF StackAfter, TakeRecord, ExitCall
  <1> HIDE DEF u, d, cut
  <1>7. u = [cut EXCEPT ![n - 1] = parent]
    BY <1>1, <1>5, <1>6, StackTypes DEF StackRecord
  <1>8. /\ parent \in StackRecord /\ parent.callee = s[n - 1].callee /\ parent.enter_at = s[n - 1].enter_at
        /\ parent.children_time_observed = time /\ parent.children_overhead = overhead
    <2> HIDE DEF time, overhead
    <2>1. s[n - 1] \in StackRecord
      BY <1>1, StackTypes
    <2> QED BY <1>4, <2>1 DEF StackRecord
  <1> HIDE DEF parent
  <1>9. /\ u \in Seq(StackRecord) /\ Len(u) = n - 1
        /\ \A i \in 1..(n - 1) : u[i] = IF i = n - 1 THEN parent ELSE s[i]
    BY <1>1, <1>5, <1>7, <1>8, ExceptSeq
  <1>10. u \in Stacks /\ u[n - 1] = parent /\ \A i \in 1..(n - 2) : u[i] = s[i]
    BY <1>1, <1>9 DEF Stacks
  <1> QED BY <1>8, <1>9, <1>10 DEF u, d

LEMMA RecordKind == \A r \in TraceRecord : (r \in EnterRecord /\ r.callee # Exit) \/ (r \in ExitRecord /\ r.callee = Exit)
  BY CalleesAssumption DEF TraceRecord, EnterRecord, ExitRecord

-----------------------------------------------------------------------------
(* The calls that are open have nodes.                                     *)

Open(s, tree) == \A n \in 2..Len(s) : PathOf(s, n) \in DOMAIN tree

LEMMA SamePath ==
    ASSUME NEW s, NEW u, NEW n \in Nat, \A i \in 1..n : u[i].callee = s[i].callee
    PROVE  PathOf(u, n) = PathOf(s, n)
  <1>1. \A i \in 1..(n - 1) : i + 1 \in 1..n
    OBVIOUS
  <1> QED BY <1>1 DEF PathOf

\* A record taken leaves the tree truth, and the open calls with their nodes.
LEMMA RecordTaken ==
    ASSUME NEW s \in Stacks, NEW tree, NEW truth, NEW r \in TraceRecord,
           Right(s, r), TreeTrue(tree, truth), Open(s, tree)
    PROVE  \E grown : /\ TakeRecord([stack |-> s, statistics |-> tree], r) = [stack |-> StackAfter(s, r), statistics |-> grown]
                      /\ StackAfter(s, r) \in Stacks
                      /\ TreeTrue(grown, Account(truth, r))
                      /\ Open(StackAfter(s, r), grown)
  <1> DEFINE u == StackAfter(s, r)
             n == Len(s)
  <1>1. n \in Nat /\ n >= 1
    BY StackTypes
  <1>2. CASE r \in EnterRecord /\ r.callee # Exit
    <2> DEFINE grown == WithNode(tree, PathOf(u, Len(u)))
    <2>1. u \in Stacks /\ Len(u) = n + 1 /\ \A i \in 1..n : u[i] = s[i]
      BY <1>2, EnterStack
    <2>2. TakeRecord([stack |-> s, statistics |-> tree], r) = [stack |-> u, statistics |-> grown]
      BY <1>2 DEF StackAfter, TakeRecord, EnterCall
    <2>3. TreeTrue(grown, truth) /\ DOMAIN grown = DOMAIN tree \cup {PathOf(u, n + 1)}
      BY <2>1, NodeMade
    <2>4. Account(truth, r) = truth
      BY <1>2 DEF Account
    <2> HIDE DEF grown, u
    <2>5. ASSUME NEW k \in 2..Len(u) PROVE PathOf(u, k) \in DOMAIN grown
      <3>1. CASE k = n + 1
        BY <2>3, <3>1
      <3>2. CASE k # n + 1
        <4>1. k \in Nat /\ k \in 2..n /\ \A i \in 1..k : i \in 1..n
          BY <1>1, <2>1, <3>2
        <4>2. PathOf(u, k) = PathOf(s, k)
          BY <2>1, <4>1, SamePath
        <4> QED BY <2>3, <4>1, <4>2 DEF Open
      <3> QED BY <3>1, <3>2
    <2>6. Open(u, grown)
      BY <2>5 DEF Open
    <2> QED BY <2>1, <2>2, <2>3, <2>4, <2>6 DEF u
  <1>3. CASE r \in ExitRecord /\ r.callee = Exit
    <2> DEFINE path == PathOf(s, n)
               grown == AddAt(tree, path, r.inclusive, r.exclusive)
    <2>1. n >= 2 /\ r.path = path
          /\ r.inclusive = Observed(s[n], r) - s[n].children_overhead
          /\ r.exclusive = Observed(s[n], r) - s[n].children_time_observed
      BY <1>3 DEF Right
    <2>2. u \in Stacks /\ Len(u) = n - 1 /\ (\A i \in 1..(n - 2) : u[i] = s[i]) /\ u[n - 1].callee = s[n - 1].callee
      BY <1>3, <2>1, ExitStack
    <2>3. TakeRecord([stack |-> s, statistics |-> tree], r) = [stack |-> u, statistics |-> grown]
      BY <1>3, <2>1 DEF StackAfter, TakeRecord, ExitCall
    <2>4. path \in DOMAIN tree
      <3>1. n \in 2..Len(s)
        BY <1>1, <2>1
      <3> QED BY <3>1 DEF Open
    <2>5. r.inclusive \in Nat /\ r.exclusive \in Nat
      BY <1>3 DEF ExitRecord
    <2>6. Account(truth, r) = [WithNode(truth, path) EXCEPT ![path] = AddTimes(@, r.inclusive, r.exclusive)]
      BY <1>3, <2>1 DEF Account
    <2>7. DOMAIN grown = DOMAIN tree /\ TreeTrue(grown, Account(truth, r))
      <3> HIDE DEF path, u
      <3>1. /\ DOMAIN AddAt(tree, path, r.inclusive, r.exclusive) = DOMAIN tree
            /\ TreeTrue(AddAt(tree, path, r.inclusive, r.exclusive),
                        [WithNode(truth, path) EXCEPT ![path] = AddTimes(@, r.inclusive, r.exclusive)])
        BY <2>4, <2>5, TimesAdded
      <3> HIDE DEF AddAt, WithNode, AddTimes
      <3> QED BY <2>6, <3>1
    <2> HIDE DEF grown, path, u
    <2>8. ASSUME NEW k \in 2..Len(u) PROVE PathOf(u, k) \in DOMAIN grown
      <3>1. k \in Nat /\ k \in 2..n /\ \A i \in 1..k : i \in 1..(n - 2) \/ i = n - 1
        BY <1>1, <2>1, <2>2
      <3>2. \A i \in 1..k : u[i].callee = s[i].callee
        BY <2>2, <3>1
      <3>3. PathOf(u, k) = PathOf(s, k)
        BY <3>1, <3>2, SamePath
      <3> QED BY <2>7, <3>1, <3>3 DEF Open
    <2>9. Open(u, grown)
      BY <2>8 DEF Open
    <2> QED BY <2>2, <2>3, <2>7, <2>9 DEF u
  <1> QED BY <1>2, <1>3, RecordKind

\* reset_stack gives every open call its node, and changes nothing else.
LEMMA StackReset ==
    ASSUME NEW s \in Stacks, NEW tree, NEW truth, TreeTrue(tree, truth)
    PROVE  \E grown : /\ ResetStack([stack |-> s, statistics |-> tree]) = [stack |-> s, statistics |-> grown]
                      /\ TreeTrue(grown, truth) /\ Open(s, grown)
  <1>0. \A i \in 1..1 : i = 1
    OBVIOUS
  <1> DEFINE Makes(g, n) == g = [i \in 1..n |-> IF i = 1 THEN tree ELSE WithNode(g[i - 1], PathOf(s, i))]
             Bad == {n \in 1..Len(s) : ~\E g : Makes(g, n)}
             made[n \in 1..Len(s)] == IF n = 1 THEN tree ELSE WithNode(made[n - 1], PathOf(s, n))
  <1>1. Len(s) \in Nat /\ Len(s) >= 1 /\ Len(s) \in 1..Len(s)
    BY StackTypes
  <1>2. Bad = {}
    <2> SUFFICES ASSUME Bad # {} PROVE FALSE
      OBVIOUS
    <2>1. Bad \in SUBSET Nat
      OBVIOUS
    <2>2. PICK n \in Bad : \A m \in Bad : n <= m
      <3> HIDE DEF Bad
      <3> QED BY <2>1, Least
    <2>3. n \in 1..Len(s) /\ ~\E g : Makes(g, n)
      BY <2>2
    <2>4. CASE n = 1
      <3> DEFINE g == [i \in 1..1 |-> tree]
      <3>1. Makes(g, 1)
        BY <1>0
      <3> QED BY <2>3, <2>4, <3>1
    <2>5. CASE n # 1
      <3>1. n - 1 \in 1..Len(s) /\ ~(n <= n - 1) /\ n - 1 \in 1..(n - 1) /\ n \in 1..n
        BY <2>3, <2>5
      <3>2. PICK g : Makes(g, n - 1)
        BY <2>2, <3>1
      <3> DEFINE h == [i \in 1..n |-> IF i = n THEN WithNode(g[n - 1], PathOf(s, n)) ELSE g[i]]
      <3>3. ASSUME NEW i \in 1..n PROVE h[i] = IF i = 1 THEN tree ELSE WithNode(h[i - 1], PathOf(s, i))
        <4>1. CASE i = n
          <5>1. h[n - 1] = g[n - 1] /\ h[n] = WithNode(g[n - 1], PathOf(s, n))
            BY <2>3, <3>1
          <5> QED BY <2>5, <4>1, <5>1
        <4>2. CASE i # n
          <5>1. i \in 1..(n - 1) /\ (i # 1 => i - 1 \in 1..n /\ i - 1 # n)
            BY <2>3, <4>2
          <5>2. g[i] = IF i = 1 THEN tree ELSE WithNode(g[i - 1], PathOf(s, i))
            BY <3>2, <5>1
          <5>3. h[i] = g[i] /\ (i # 1 => h[i - 1] = g[i - 1])
            BY <4>2, <5>1
          <5> QED BY <5>2, <5>3
        <4> QED BY <4>1, <4>2
      <3>4. h = [i \in 1..n |-> h[i]]
        OBVIOUS
      <3> HIDE DEF h
      <3>5. Makes(h, n)
        BY <3>3, <3>4
      <3> QED BY <2>3, <3>5
    <2> QED BY <2>4, <2>5
  <1>3. \E g : Makes(g, Len(s))
    BY <1>1, <1>2
  <1>4. Makes(made, Len(s))
    BY <1>3
  <1>5. ResetStack([stack |-> s, statistics |-> tree]) = [stack |-> s, statistics |-> made[Len(s)]]
    BY DEF ResetStack
  <1> HIDE DEF made
  <1>6. \A n \in 1..Len(s) : made[n] = IF n = 1 THEN tree ELSE WithNode(made[n - 1], PathOf(s, n))
    BY <1>4
  <1> DEFINE Good(n) == TreeTrue(made[n], truth) /\ \A k \in 2..n : PathOf(s, k) \in DOMAIN made[n]
             Wrong == {n \in 1..Len(s) : ~Good(n)}
  <1>7. Wrong = {}
    <2> SUFFICES ASSUME Wrong # {} PROVE FALSE
      OBVIOUS
    <2>1. Wrong \in SUBSET Nat
      OBVIOUS
    <2>2. PICK n \in Wrong : \A m \in Wrong : n <= m
      <3> HIDE DEF Wrong
      <3> QED BY <2>1, Least
    <2>3. n \in 1..Len(s) /\ ~Good(n)
      BY <2>2
    <2>4. CASE n = 1
      <3>1. made[n] = tree /\ \A k \in 2..n : FALSE
        BY <1>6, <2>3, <2>4
      <3> QED BY <2>3, <3>1
    <2>5. CASE n # 1
      <3>1. n - 1 \in 1..Len(s) /\ ~(n <= n - 1) /\ \A k \in 2..n : k = n \/ k \in 2..(n - 1)
        BY <2>3, <2>5
      <3>2. Good(n - 1)
        BY <2>2, <3>1
      <3>3. made[n] = WithNode(made[n - 1], PathOf(s, n))
        BY <1>6, <2>3, <2>5
      <3>4. TreeTrue(made[n], truth) /\ DOMAIN made[n] = DOMAIN made[n - 1] \cup {PathOf(s, n)}
        <4>1. TreeTrue(made[n - 1], truth)
          BY <3>2
        <4> HIDE DEF Wrong
        <4> QED BY <3>3, <4>1, NodeMade
      <3>5. \A k \in 2..n : PathOf(s, k) \in DOMAIN made[n]
        BY <3>1, <3>2, <3>4
      <3> QED BY <2>3, <3>4, <3>5
    <2> QED BY <2>4, <2>5
  <1>8. Good(Len(s))
    BY <1>1, <1>7
  <1> QED BY <1>5, <1>8 DEF Open

-----------------------------------------------------------------------------
(* A batch.                                                                *)

\* g is the stack after each record of q, and the records are right.
Reads(g, q) == \A i \in 1..Len(q) : Right(g[i - 1], q[i]) /\ g[i] = StackAfter(g[i - 1], q[i])

\* The records of a batch are taken one by one.
LEMMA Updated ==
    ASSUME NEW a, NEW b, Len(b) \in Nat
    PROVE  \E f : /\ Update(a, b) = f[Len(b)] /\ f[0] = ResetStack(a)
                  /\ \A n \in 1..Len(b) : f[n] = TakeRecord(f[n - 1], b[n])
  <1>0. \A i \in 0..0 : i = 0
    OBVIOUS
  <1> DEFINE Takes(g, n) == g = [i \in 0..n |-> IF i = 0 THEN ResetStack(a) ELSE TakeRecord(g[i - 1], b[i])]
             Bad == {n \in 0..Len(b) : ~\E g : Takes(g, n)}
             after[n \in 0..Len(b)] == IF n = 0 THEN ResetStack(a) ELSE TakeRecord(after[n - 1], b[n])
  <1>1. Bad = {}
    <2> SUFFICES ASSUME Bad # {} PROVE FALSE
      OBVIOUS
    <2>1. Bad \in SUBSET Nat
      OBVIOUS
    <2>2. PICK n \in Bad : \A m \in Bad : n <= m
      <3> HIDE DEF Bad
      <3> QED BY <2>1, Least
    <2>3. n \in 0..Len(b) /\ ~\E g : Takes(g, n)
      BY <2>2
    <2>4. CASE n = 0
      <3> DEFINE g == [i \in 0..0 |-> ResetStack(a)]
      <3>1. Takes(g, 0)
        BY <1>0
      <3> QED BY <2>3, <2>4, <3>1
    <2>5. CASE n # 0
      <3>1. n - 1 \in 0..Len(b) /\ ~(n <= n - 1) /\ n - 1 \in 0..n /\ n - 1 # n /\ n \in 0..n
        BY <2>3, <2>5
      <3>2. PICK g : Takes(g, n - 1)
        BY <2>2, <3>1
      <3> DEFINE h == [i \in 0..n |-> IF i = n THEN TakeRecord(g[n - 1], b[n]) ELSE g[i]]
      <3>3. ASSUME NEW i \in 0..n PROVE h[i] = IF i = 0 THEN ResetStack(a) ELSE TakeRecord(h[i - 1], b[i])
        <4>1. CASE i = n
          <5>1. h[n - 1] = g[n - 1] /\ h[n] = TakeRecord(g[n - 1], b[n])
            BY <2>3, <3>1
          <5> QED BY <2>5, <4>1, <5>1
        <4>2. CASE i # n
          <5>1. i \in 0..(n - 1) /\ (i # 0 => i - 1 \in 0..n /\ i - 1 # n)
            BY <2>3, <4>2
          <5>2. g[i] = IF i = 0 THEN ResetStack(a) ELSE TakeRecord(g[i - 1], b[i])
            BY <3>2, <5>1
          <5>3. h[i] = g[i] /\ (i # 0 => h[i - 1] = g[i - 1])
            BY <4>2, <5>1
          <5> QED BY <5>2, <5>3
        <4> QED BY <4>1, <4>2
      <3>4. h = [i \in 0..n |-> h[i]]
        OBVIOUS
      <3> HIDE DEF h
      <3>5. Takes(h, n)
        BY <3>3, <3>4
      <3> QED BY <2>3, <3>5
    <2> QED BY <2>4, <2>5
  <1>2. \E g : Takes(g, Len(b))
    BY <1>1
  <1>3. Takes(after, Len(b))
    BY <1>2
  <1>4. Update(a, b) = after[Len(b)]
    BY DEF Update
  <1> HIDE DEF after
  <1>5. 0 \in 0..Len(b) /\ \A n \in 1..Len(b) : n \in 0..Len(b) /\ n # 0
    OBVIOUS
  <1>6. after[0] = ResetStack(a) /\ \A n \in 1..Len(b) : after[n] = TakeRecord(after[n - 1], b[n])
    BY <1>3, <1>5
  <1> QED BY <1>4, <1>6

AccountSteps(f, tree, b) ==
    /\ AccountAll(tree, b) = f[Len(b)] /\ f[0] = tree
    /\ \A n \in 1..Len(b) : f[n] = Account(f[n - 1], b[n])

LEMMA Accounted ==
    ASSUME NEW tree, NEW b, Len(b) \in Nat
    PROVE  \E f : AccountSteps(f, tree, b)
  <1>0. \A i \in 0..0 : i = 0
    OBVIOUS
  <1> DEFINE Takes(g, n) == g = [i \in 0..n |-> IF i = 0 THEN tree ELSE Account(g[i - 1], b[i])]
             Bad == {n \in 0..Len(b) : ~\E g : Takes(g, n)}
             after[n \in 0..Len(b)] == IF n = 0 THEN tree ELSE Account(after[n - 1], b[n])
  <1>1. Bad = {}
    <2> SUFFICES ASSUME Bad # {} PROVE FALSE
      OBVIOUS
    <2>1. Bad \in SUBSET Nat
      OBVIOUS
    <2>2. PICK n \in Bad : \A m \in Bad : n <= m
      <3> HIDE DEF Bad
      <3> QED BY <2>1, Least
    <2>3. n \in 0..Len(b) /\ ~\E g : Takes(g, n)
      BY <2>2
    <2>4. CASE n = 0
      <3> DEFINE g == [i \in 0..0 |-> tree]
      <3>1. Takes(g, 0)
        BY <1>0
      <3> QED BY <2>3, <2>4, <3>1
    <2>5. CASE n # 0
      <3>1. n - 1 \in 0..Len(b) /\ ~(n <= n - 1) /\ n - 1 \in 0..n /\ n - 1 # n /\ n \in 0..n
        BY <2>3, <2>5
      <3>2. PICK g : Takes(g, n - 1)
        BY <2>2, <3>1
      <3> DEFINE h == [i \in 0..n |-> IF i = n THEN Account(g[n - 1], b[n]) ELSE g[i]]
      <3>3. ASSUME NEW i \in 0..n PROVE h[i] = IF i = 0 THEN tree ELSE Account(h[i - 1], b[i])
        <4>1. CASE i = n
          <5>1. h[n - 1] = g[n - 1] /\ h[n] = Account(g[n - 1], b[n])
            BY <2>3, <3>1
          <5> QED BY <2>5, <4>1, <5>1
        <4>2. CASE i # n
          <5>1. i \in 0..(n - 1) /\ (i # 0 => i - 1 \in 0..n /\ i - 1 # n)
            BY <2>3, <4>2
          <5>2. g[i] = IF i = 0 THEN tree ELSE Account(g[i - 1], b[i])
            BY <3>2, <5>1
          <5>3. h[i] = g[i] /\ (i # 0 => h[i - 1] = g[i - 1])
            BY <4>2, <5>1
          <5> QED BY <5>2, <5>3
        <4> QED BY <4>1, <4>2
      <3>4. h = [i \in 0..n |-> h[i]]
        OBVIOUS
      <3> HIDE DEF h
      <3>5. Takes(h, n)
        BY <3>3, <3>4
      <3> QED BY <2>3, <3>5
    <2> QED BY <2>4, <2>5
  <1>2. \E g : Takes(g, Len(b))
    BY <1>1
  <1>3. Takes(after, Len(b))
    BY <1>2
  <1>4. AccountAll(tree, b) = after[Len(b)]
    BY DEF AccountAll
  <1> HIDE DEF after
  <1>5. 0 \in 0..Len(b) /\ \A n \in 1..Len(b) : n \in 0..Len(b) /\ n # 0
    OBVIOUS
  <1>6. after[0] = tree /\ \A n \in 1..Len(b) : after[n] = Account(after[n - 1], b[n])
    BY <1>3, <1>5
  <1>7. AccountSteps(after, tree, b)
    BY <1>4, <1>6 DEF AccountSteps
  <1> QED BY <1>7

\* A batch of right records leaves the stack that they lead to, and a true tree.
LEMMA BatchTaken ==
    ASSUME NEW b \in Seq(TraceRecord), NEW g \in [0..Len(b) -> Stacks], Reads(g, b),
           NEW tree, NEW truth, TreeTrue(tree, truth)
    PROVE  \E grown : /\ Update([stack |-> g[0], statistics |-> tree], b) = [stack |-> g[Len(b)], statistics |-> grown]
                      /\ TreeTrue(grown, AccountAll(truth, b))
  <1> DEFINE a == [stack |-> g[0], statistics |-> tree]
  <1>1. Len(b) \in Nat /\ Len(b) \in 0..Len(b) /\ 0 \in 0..Len(b)
    BY LenProperties
  <1>2. PICK f : /\ Update(a, b) = f[Len(b)] /\ f[0] = ResetStack(a)
                 /\ \A n \in 1..Len(b) : f[n] = TakeRecord(f[n - 1], b[n])
    <2> HIDE DEF a
    <2> QED BY <1>1, Updated
  <1>3. PICK e : AccountSteps(e, truth, b)
    BY <1>1, Accounted
  <1> DEFINE Good(n) == \E grown : /\ f[n] = [stack |-> g[n], statistics |-> grown]
                                   /\ TreeTrue(grown, e[n]) /\ Open(g[n], grown)
             Wrong == {n \in 0..Len(b) : ~Good(n)}
  <1>4. Good(0)
    <2>1. g[0] \in Stacks
      BY <1>1
    <2>2. PICK grown : /\ ResetStack([stack |-> g[0], statistics |-> tree]) = [stack |-> g[0], statistics |-> grown]
                       /\ TreeTrue(grown, truth) /\ Open(g[0], grown)
      BY <2>1, StackReset
    <2> QED BY <1>2, <1>3, <2>2 DEF AccountSteps
  <1>5. ASSUME NEW n \in 1..Len(b), Good(n - 1) PROVE Good(n)
    <2>1. n - 1 \in 0..Len(b) /\ n \in 0..Len(b)
      BY <1>1
    <2>2. g[n - 1] \in Stacks /\ g[n] = StackAfter(g[n - 1], b[n]) /\ Right(g[n - 1], b[n]) /\ b[n] \in TraceRecord
      BY <1>1, <2>1, ElementOfSeq DEF Reads
    <2>3. PICK old : f[n - 1] = [stack |-> g[n - 1], statistics |-> old] /\ TreeTrue(old, e[n - 1]) /\ Open(g[n - 1], old)
      BY <1>5
    <2>4. PICK grown : /\ TakeRecord([stack |-> g[n - 1], statistics |-> old], b[n])
                            = [stack |-> StackAfter(g[n - 1], b[n]), statistics |-> grown]
                       /\ TreeTrue(grown, Account(e[n - 1], b[n]))
                       /\ Open(StackAfter(g[n - 1], b[n]), grown)
      BY <2>2, <2>3, RecordTaken
    <2>5. f[n] = [stack |-> g[n], statistics |-> grown] /\ TreeTrue(grown, e[n]) /\ Open(g[n], grown)
      BY <1>2, <1>3, <2>2, <2>3, <2>4 DEF AccountSteps
    <2> QED BY <2>5
  <1> HIDE DEF Good
  <1>6. Wrong = {}
    <2> SUFFICES ASSUME Wrong # {} PROVE FALSE
      OBVIOUS
    <2>1. Wrong \in SUBSET Nat
      OBVIOUS
    <2>2. PICK n \in Wrong : \A m \in Wrong : n <= m
      <3> HIDE DEF Wrong
      <3> QED BY <2>1, Least
    <2>3. n \in 0..Len(b) /\ ~Good(n) /\ n # 0
      BY <1>4, <2>2
    <2>4. n \in 1..Len(b) /\ n - 1 \in 0..Len(b) /\ ~(n <= n - 1)
      BY <1>1, <2>3
    <2>5. Good(n - 1)
      BY <2>2, <2>4
    <2> QED BY <1>5, <2>3, <2>4, <2>5
  <1>7. Good(Len(b))
    BY <1>1, <1>6
  <1> QED BY <1>2, <1>3, <1>7 DEF Good, AccountSteps

-----------------------------------------------------------------------------
(* The program and the stack of its trace.                                 *)

\* The stack s, after all of the trace, is that of program p.  The time from a
\* call's timestamp to the next one (or to now) is the call's own, that of its
\* callees and the profiler's share in them.
Matches(s, p) ==
    /\ Len(s) = Len(p.running) + 1
    /\ \A i \in 1..Len(p.running) :
          /\ s[i + 1].callee = p.running[i].callee
          /\ s[i + 1].children_time_observed = p.running[i].inner + s[i + 1].children_overhead
          /\ ((IF i = Len(p.running) THEN p.clock ELSE s[i + 2].enter_at - Before) - s[i + 1].enter_at) - EnterAfter
                = p.running[i].own + p.running[i].inner + s[i + 1].children_overhead

LEMMA ProgramTypes ==
    ASSUME NEW p \in Program
    PROVE  /\ p.clock \in Nat /\ p.running \in Seq(RunningCall) /\ Len(p.running) \in Nat
           /\ \A i \in 1..Len(p.running) : /\ p.running[i] \in RunningCall /\ p.running[i].callee \in Callees
                                           /\ p.running[i].own \in Nat /\ p.running[i].inner \in Nat
  <1>1. p.clock \in Nat /\ p.running \in Seq(RunningCall)
    BY DEF Program
  <1>2. Len(p.running) \in Nat /\ \A i \in 1..Len(p.running) : p.running[i] \in RunningCall
    BY <1>1, LenProperties, ElementOfSeq
  <1> QED BY <1>1, <1>2 DEF RunningCall

\* The program p works, and is then p2.
Works(p, p2) ==
    LET n == Len(p.running)
    IN  /\ n >= 1 /\ Len(p2.running) = n /\ p2.clock = p.clock + 1
        /\ \A i \in 1..(n - 1) : p2.running[i] = p.running[i]
        /\ p2.running[n].callee = p.running[n].callee
        /\ p2.running[n].own = p.running[n].own + 1
        /\ p2.running[n].inner = p.running[n].inner

LEMMA MatchesWork ==
    ASSUME NEW s \in Stacks, NEW p \in Program, NEW p2 \in Program, Matches(s, p), Works(p, p2)
    PROVE  Matches(s, p2)
  <1> DEFINE n == Len(p.running)
  <1>1. n \in Nat /\ n >= 1 /\ Len(s) = n + 1 /\ p.clock \in Nat /\ Len(p2.running) = n
    BY ProgramTypes DEF Matches, Works
  <1>2. ASSUME NEW i \in 1..n
        PROVE  /\ s[i + 1].callee = p2.running[i].callee
               /\ s[i + 1].children_time_observed = p2.running[i].inner + s[i + 1].children_overhead
               /\ ((IF i = n THEN p2.clock ELSE s[i + 2].enter_at - Before) - s[i + 1].enter_at) - EnterAfter
                    = p2.running[i].own + p2.running[i].inner + s[i + 1].children_overhead
    <2>1. /\ s[i + 1].callee = p.running[i].callee
          /\ s[i + 1].children_time_observed = p.running[i].inner + s[i + 1].children_overhead
          /\ ((IF i = n THEN p.clock ELSE s[i + 2].enter_at - Before) - s[i + 1].enter_at) - EnterAfter
               = p.running[i].own + p.running[i].inner + s[i + 1].children_overhead
      BY DEF Matches
    <2>2. CASE i = n
      <3>1. i + 1 \in 1..Len(s)
        BY <1>1
      <3>2. s[i + 1].enter_at \in Int /\ s[i + 1].children_overhead \in Int /\ EnterAfter \in Nat
            /\ p.running[i].own \in Nat /\ p.running[i].inner \in Nat
        BY <3>1, StackTypes, ProgramTypes, DelayTypes
      <3>3. (p.clock - s[i + 1].enter_at) - EnterAfter = p.running[i].own + p.running[i].inner + s[i + 1].children_overhead
        BY <2>1, <2>2
      <3>4. ((p.clock + 1) - s[i + 1].enter_at) - EnterAfter
              = (p.running[i].own + 1) + p.running[i].inner + s[i + 1].children_overhead
        <4>0. /\ p.clock \in Int /\ s[i + 1].enter_at \in Int /\ EnterAfter \in Int
              /\ p.running[i].own \in Int /\ p.running[i].inner \in Int /\ s[i + 1].children_overhead \in Int
          BY <1>1, <3>2
        <4>1. PICK clock, at, delay, own, inner, c \in Int :
                /\ clock = p.clock /\ at = s[i + 1].enter_at /\ delay = EnterAfter
                /\ own = p.running[i].own /\ inner = p.running[i].inner /\ c = s[i + 1].children_overhead
          BY <4>0, Zenon
        <4>2. (clock - at) - delay = own + inner + c
          BY <3>3, <4>1
        <4>3. ((clock + 1) - at) - delay = (own + 1) + inner + c
          BY <4>2
        <4> QED BY <4>1, <4>3
      <3> QED BY <2>1, <2>2, <3>4 DEF Works
    <2>3. CASE i # n
      <3>1. i \in 1..(n - 1)
        BY <1>1, <2>3
      <3> QED BY <2>1, <2>3, <3>1 DEF Works
    <2> QED BY <2>2, <2>3
  <1> QED BY <1>1, <1>2 DEF Matches

\* It calls, with the record r.
Calls(p, p2, r) ==
    LET n == Len(p.running)
    IN  /\ r.timestamp = p.clock + Before
        /\ Len(p2.running) = n + 1 /\ p2.clock = p.clock + Before + EnterAfter
        /\ \A i \in 1..n : p2.running[i] = p.running[i]
        /\ p2.running[n + 1] = [callee |-> r.callee, own |-> 0, inner |-> 0]

LEMMA MatchesCall ==
    ASSUME NEW s \in Stacks, NEW p \in Program, NEW p2 \in Program, Matches(s, p), NEW r \in EnterRecord, Calls(p, p2, r)
    PROVE  Matches(StackAfter(s, r), p2)
  <1> DEFINE n == Len(p.running)
             u == StackAfter(s, r)
  <1>1. n \in Nat /\ Len(s) = n + 1 /\ p.clock \in Nat /\ Before \in Nat /\ EnterAfter \in Nat
    BY ProgramTypes, DelayTypes DEF Matches
  <1>2. /\ u \in Stacks /\ Len(u) = (n + 1) + 1 /\ \A i \in 1..(n + 1) : u[i] = s[i]
        /\ u[(n + 1) + 1].callee = r.callee /\ u[(n + 1) + 1].enter_at = r.timestamp
        /\ u[(n + 1) + 1].children_time_observed = 0 /\ u[(n + 1) + 1].children_overhead = 0
    <2>1. LET k == Len(s) + 1
          IN  /\ u \in Stacks /\ Len(u) = k /\ \A i \in 1..Len(s) : u[i] = s[i]
              /\ u[k].callee = r.callee /\ u[k].enter_at = r.timestamp
              /\ u[k].children_time_observed = 0 /\ u[k].children_overhead = 0
      BY EnterStack
    <2> HIDE DEF u
    <2> QED BY <1>1, <2>1
  <1> HIDE DEF u
  <1>3. ASSUME NEW i \in 1..(n + 1)
        PROVE  /\ u[i + 1].callee = p2.running[i].callee
               /\ u[i + 1].children_time_observed = p2.running[i].inner + u[i + 1].children_overhead
               /\ ((IF i = n + 1 THEN p2.clock ELSE u[i + 2].enter_at - Before) - u[i + 1].enter_at) - EnterAfter
                    = p2.running[i].own + p2.running[i].inner + u[i + 1].children_overhead
    <2>1. CASE i = n + 1
      <3>1. ((p.clock + Before + EnterAfter) - (p.clock + Before)) - EnterAfter = 0 + 0 + 0
        BY <1>1
      <3> QED BY <1>2, <2>1, <3>1 DEF Calls
    <2>2. CASE i # n + 1
      <3>1. i \in 1..n /\ i + 1 \in 1..(n + 1) /\ i + 1 \in 1..Len(s)
        BY <1>1, <2>2
      <3>2. /\ s[i + 1].callee = p.running[i].callee
            /\ s[i + 1].children_time_observed = p.running[i].inner + s[i + 1].children_overhead
            /\ ((IF i = n THEN p.clock ELSE s[i + 2].enter_at - Before) - s[i + 1].enter_at) - EnterAfter
                 = p.running[i].own + p.running[i].inner + s[i + 1].children_overhead
        BY <3>1 DEF Matches
      <3>3. u[i + 1] = s[i + 1] /\ p2.running[i] = p.running[i]
        BY <1>2, <3>1 DEF Calls
      <3>4. (IF i = n THEN p.clock ELSE s[i + 2].enter_at - Before) = u[i + 2].enter_at - Before
        <4>1. CASE i = n
          <5>1. i + 2 = (n + 1) + 1 /\ p.clock = (p.clock + Before) - Before
            BY <1>1, <4>1
          <5> QED BY <1>2, <4>1, <5>1 DEF Calls
        <4>2. CASE i # n
          <5>1. i + 2 \in 1..(n + 1)
            BY <3>1, <4>2
          <5> QED BY <1>2, <4>2, <5>1
        <4> QED BY <4>1, <4>2
      <3> QED BY <2>2, <3>2, <3>3, <3>4
    <2> QED BY <2>1, <2>2
  <1> QED BY <1>1, <1>2, <1>3 DEF Matches, Calls, u

\* What an exit record says of the call that returns is what the stack says.
Returning(p, r) ==
    LET n == Len(p.running)
    IN  /\ n >= 1 /\ r.timestamp = p.clock + ExitBefore
        /\ r.path = [i \in 1..n |-> p.running[i].callee]
        /\ r.inclusive = p.running[n].own + p.running[n].inner
        /\ r.exclusive = p.running[n].own

LEMMA RightReturn ==
    ASSUME NEW s \in Stacks, NEW p \in Program, Matches(s, p), NEW r \in ExitRecord, Returning(p, r)
    PROVE  /\ Right(s, r)
           /\ Observed(s[Len(s)], r) = p.running[Len(p.running)].own + p.running[Len(p.running)].inner
                                         + s[Len(s)].children_overhead
  <1> DEFINE n == Len(p.running)
             top == s[n + 1]
             call == p.running[n]
  <1>1. n \in Nat /\ n >= 1 /\ Len(s) = n + 1 /\ n \in 1..n /\ n + 1 \in 1..Len(s) /\ Len(s) >= 2 /\ (n + 1) - 1 = n
    BY ProgramTypes DEF Matches, Returning
  <1>2. /\ top.enter_at \in Int /\ top.children_overhead \in Int /\ call.own \in Nat /\ call.inner \in Nat /\ p.clock \in Nat
        /\ ExitBefore \in Nat /\ EnterAfter \in Nat /\ Inner = EnterAfter + ExitBefore
    BY <1>1, StackTypes, ProgramTypes, DelayTypes
  <1>3. /\ top.children_time_observed = call.inner + top.children_overhead
        /\ (p.clock - top.enter_at) - EnterAfter = call.own + call.inner + top.children_overhead
    BY <1>1 DEF Matches
  <1> HIDE DEF top, call
  <1>4. Observed(top, r) = ((p.clock + ExitBefore) - top.enter_at) - (EnterAfter + ExitBefore)
    BY <1>2 DEF Observed, Returning
  <1>5. Observed(top, r) = call.own + call.inner + top.children_overhead
    BY <1>2, <1>3, <1>4
  <1>6. r.inclusive = Observed(top, r) - top.children_overhead /\ r.exclusive = Observed(top, r) - top.children_time_observed
    <2>1. r.inclusive = call.own + call.inner /\ r.exclusive = call.own
      BY DEF call, Returning
    <2> QED BY <1>2, <1>3, <1>5, <2>1
  <1>7. r.path = PathOf(s, n + 1)
    <2>1. \A i \in 1..n : s[i + 1].callee = p.running[i].callee
      BY DEF Matches
    <2> QED BY <1>1, <2>1 DEF PathOf, Returning
  <1>8. Right(s, r)
    BY <1>1, <1>6, <1>7 DEF Right, top
  <1> QED BY <1>1, <1>5, <1>8 DEF top, call

\* It returns, with the record r.
Returns(p, p2, r) ==
    LET n == Len(p.running)
    IN  /\ Returning(p, r)
        /\ Len(p2.running) = n - 1 /\ p2.clock = p.clock + ExitBefore + After
        /\ \A i \in 1..(n - 2) : p2.running[i] = p.running[i]
        /\ n >= 2 => /\ p2.running[n - 1].callee = p.running[n - 1].callee
                     /\ p2.running[n - 1].own = p.running[n - 1].own
                     /\ p2.running[n - 1].inner = p.running[n - 1].inner + p.running[n].own + p.running[n].inner

LEMMA MatchesReturn ==
    ASSUME NEW s \in Stacks, NEW p \in Program, NEW p2 \in Program, Matches(s, p), NEW r \in ExitRecord, Returns(p, p2, r)
    PROVE  Matches(StackAfter(s, r), p2)
  <1> DEFINE n == Len(p.running)
             u == StackAfter(s, r)
             d == Observed(s[n + 1], r)
  <1>1. n \in Nat /\ n >= 1 /\ Len(s) = n + 1 /\ Len(s) >= 2 /\ (n + 1) - 1 = n /\ (n + 1) - 2 = n - 1 /\ n + 1 \in 1..Len(s)
    BY ProgramTypes DEF Matches, Returns, Returning
  <1>2. /\ u \in Stacks /\ Len(u) = n /\ \A i \in 1..(n - 1) : u[i] = s[i]
        /\ u[n].callee = s[n].callee /\ u[n].enter_at = s[n].enter_at
        /\ u[n].children_time_observed = s[n].children_time_observed + d + Total
        /\ u[n].children_overhead = s[n].children_overhead + Total + s[n + 1].children_overhead
    BY <1>1, ExitStack
  <1>3. d = p.running[n].own + p.running[n].inner + s[n + 1].children_overhead
    BY <1>1, RightReturn DEF Returns
  <1> HIDE DEF u, d
  <1>4. ASSUME NEW i \in 1..(n - 1)
        PROVE  /\ u[i + 1].callee = p2.running[i].callee
               /\ u[i + 1].children_time_observed = p2.running[i].inner + u[i + 1].children_overhead
               /\ ((IF i = n - 1 THEN p2.clock ELSE u[i + 2].enter_at - Before) - u[i + 1].enter_at) - EnterAfter
                    = p2.running[i].own + p2.running[i].inner + u[i + 1].children_overhead
    <2>1. i \in 1..n /\ i + 1 \in 1..Len(s) /\ n \in 1..n /\ i # n
      BY <1>1
    <2>2. /\ s[i + 1].callee = p.running[i].callee
          /\ s[i + 1].children_time_observed = p.running[i].inner + s[i + 1].children_overhead
          /\ ((s[i + 2].enter_at - Before) - s[i + 1].enter_at) - EnterAfter
               = p.running[i].own + p.running[i].inner + s[i + 1].children_overhead
      BY <2>1 DEF Matches
    <2>3. CASE i = n - 1
      <3>1. i + 1 = n /\ i + 2 = n + 1 /\ n >= 2
        BY <1>1, <2>3
      <3> DEFINE own == p.running[i].own
                 inner == p.running[i].inner
                 own2 == p.running[n].own
                 inner2 == p.running[n].inner
                 c == s[n].children_overhead
                 c2 == s[n + 1].children_overhead
                 at == s[n].enter_at
                 at2 == s[n + 1].enter_at
      <3>2. /\ own \in Nat /\ inner \in Nat /\ own2 \in Nat /\ inner2 \in Nat /\ c \in Int /\ c2 \in Int /\ at \in Int /\ at2 \in Int
            /\ p.clock \in Nat
        BY <1>1, <2>1, <3>1, StackTypes, ProgramTypes
      <3>3. /\ Before \in Nat /\ EnterAfter \in Nat /\ ExitBefore \in Nat /\ After \in Nat
            /\ Total = Before + EnterAfter + ExitBefore + After
        BY DelayTypes
      <3>4. /\ s[n].callee = p.running[i].callee /\ s[n].children_time_observed = inner + c
            /\ ((at2 - Before) - at) - EnterAfter = own + inner + c
        BY <2>2, <3>1
      <3>5. (p.clock - at2) - EnterAfter = own2 + inner2 + c2
        BY <2>1 DEF Matches
      <3>6. /\ p2.running[i].callee = p.running[i].callee /\ p2.running[i].own = own
            /\ p2.running[i].inner = inner + own2 + inner2 /\ p2.clock = p.clock + ExitBefore + After
        BY <2>3, <3>1 DEF Returns
      <3>7. /\ u[i + 1].callee = s[n].callee /\ u[i + 1].enter_at = at
            /\ u[i + 1].children_time_observed = (inner + c) + (own2 + inner2 + c2) + Total
            /\ u[i + 1].children_overhead = c + Total + c2
        BY <1>2, <1>3, <3>1, <3>4
      <3> HIDE DEF own, inner, own2, inner2, c, c2, at, at2
      <3>8. (inner + c) + (own2 + inner2 + c2) + Total = (inner + own2 + inner2) + (c + Total + c2)
        BY <3>2, <3>3
      <3>9. ((p.clock + ExitBefore + After) - at) - EnterAfter = own + (inner + own2 + inner2) + (c + Total + c2)
        <4>1. PICK k, e, f, x, y \in Int : k = p.clock /\ e = own + inner + c /\ f = own2 + inner2 + c2
                                            /\ x = Before + EnterAfter /\ y = ExitBefore + After
          BY <3>2, <3>3
        <4>2. at2 - at = e + x /\ k - at2 = f + EnterAfter
          BY <3>2, <3>3, <3>4, <3>5, <4>1
        <4>3. ((k + y) - at) - EnterAfter = e + f + x + y
          <5>1. PICK v, w, z \in Int : v = at /\ w = at2 /\ z = EnterAfter
            BY <3>2, <3>3
          <5>2. w - v = e + x /\ k - w = f + z
            BY <4>2, <5>1
          <5>3. ((k + y) - v) - z = e + f + x + y
            BY <5>2
          <5> QED BY <5>1, <5>3
        <4>4. e + f + x + y = own + (inner + own2 + inner2) + (c + Total + c2)
          BY <3>2, <3>3, <4>1
        <4>5. (p.clock + ExitBefore + After) = k + y
          BY <3>2, <3>3, <4>1
        <4> QED BY <4>3, <4>4, <4>5
      <3> QED BY <2>3, <3>4, <3>6, <3>7, <3>8, <3>9
    <2>4. CASE i # n - 1
      <3>1. i \in 1..(n - 2) /\ i + 1 \in 1..(n - 1) /\ (i + 2 \in 1..(n - 1) \/ i + 2 = n)
        BY <1>1, <2>4
      <3>2. u[i + 1] = s[i + 1] /\ u[i + 2].enter_at = s[i + 2].enter_at /\ p2.running[i] = p.running[i]
        BY <1>2, <3>1 DEF Returns
      <3> QED BY <2>2, <2>4, <3>2
    <2> QED BY <2>3, <2>4
  <1>5. Len(u) = Len(p2.running) + 1
    BY <1>1, <1>2 DEF Returns
  <1> QED BY <1>4, <1>5 DEF Matches, Returns, u

-----------------------------------------------------------------------------
(* A thread: its analyzer a, its records q to be analysed, its program p   *)
(* and the true statistics e.                                              *)

\* Had all the records been taken, the stack would be the program's; the times
\* noted with each of them are those that it will be given.
ThreadInv(a, q, p, e) ==
    /\ TreeTrue(a.statistics, e)
    /\ \E g \in [0..Len(q) -> Stacks] : g[0] = a.stack /\ Reads(g, q) /\ Matches(g[Len(q)], p)

LEMMA Recorded ==
    ASSUME NEW q \in Seq(TraceRecord), NEW g \in [0..Len(q) -> Stacks], Reads(g, q),
           NEW r \in TraceRecord, Right(g[Len(q)], r), StackAfter(g[Len(q)], r) \in Stacks
    PROVE  \E h \in [0..Len(Append(q, r)) -> Stacks] :
              h[0] = g[0] /\ Reads(h, Append(q, r)) /\ h[Len(Append(q, r))] = StackAfter(g[Len(q)], r)
  <1> DEFINE n == Len(q)
             next == StackAfter(g[n], r)
             h == [i \in 0..(n + 1) |-> IF i = n + 1 THEN next ELSE g[i]]
             v == Append(q, r)
  <1>1. n \in Nat /\ n \in 0..n
    BY LenProperties
  <1>2. Len(v) = n + 1 /\ v[n + 1] = r /\ \A i \in 1..n : v[i] = q[i]
    BY AppendProperties
  <1> HIDE DEF v, next
  <1>3. h \in [0..(n + 1) -> Stacks] /\ h[0] = g[0] /\ h[n + 1] = next
    <2>1. \A i \in 0..(n + 1) : i # n + 1 => i \in 0..n
      BY <1>1
    <2>2. 0 \in 0..(n + 1) /\ 0 # n + 1 /\ n + 1 \in 0..(n + 1)
      BY <1>1
    <2> QED BY <2>1, <2>2 DEF next
  <1>4. \A i \in 0..n : h[i] = g[i]
    <2>1. \A i \in 0..n : i \in 0..(n + 1) /\ i # n + 1
      BY <1>1
    <2> QED BY <2>1
  <1> HIDE DEF h
  <1>5. ASSUME NEW i \in 1..(n + 1) PROVE Right(h[i - 1], v[i]) /\ h[i] = StackAfter(h[i - 1], v[i])
    <2>1. CASE i = n + 1
      <3>1. i - 1 = n
        BY <1>1, <2>1
      <3>2. h[i - 1] = g[n] /\ v[i] = r /\ h[i] = next
        BY <1>1, <1>2, <1>3, <1>4, <2>1, <3>1
      <3> QED BY <3>2 DEF next
    <2>2. CASE i # n + 1
      <3>1. i \in 1..n /\ i \in 0..n /\ i - 1 \in 0..n
        BY <1>1, <2>2
      <3>2. h[i - 1] = g[i - 1] /\ h[i] = g[i] /\ v[i] = q[i]
        BY <1>2, <1>4, <3>1
      <3>3. Right(g[i - 1], q[i]) /\ g[i] = StackAfter(g[i - 1], q[i])
        BY <3>1 DEF Reads
      <3> QED BY <3>2, <3>3
    <2> QED BY <2>1, <2>2
  <1>6. Reads(h, v)
    BY <1>2, <1>5 DEF Reads
  <1> QED BY <1>2, <1>3, <1>6 DEF v, next

LEMMA AcceptTrue ==
    ASSUME NEW a, a = [stack |-> a.stack, statistics |-> a.statistics],
           NEW q \in Seq(TraceRecord), NEW p, NEW e, NEW n \in 0..Len(q), ThreadInv(a, q, p, e)
    PROVE  LET a2 == Update(a, SubSeq(q, 1, n))
           IN  /\ a2 = [stack |-> a2.stack, statistics |-> a2.statistics]
               /\ SubSeq(q, n + 1, Len(q)) \in Seq(TraceRecord)
               /\ ThreadInv(a2, SubSeq(q, n + 1, Len(q)), p, AccountAll(e, SubSeq(q, 1, n)))
  <1> DEFINE s == a.stack
             tree == a.statistics
             b == SubSeq(q, 1, n)
             rest == SubSeq(q, n + 1, Len(q))
             L == Len(q)
  <1>1. TreeTrue(tree, e)
    BY DEF ThreadInv
  <1>2. PICK g \in [0..L -> Stacks] : g[0] = s /\ Reads(g, q) /\ Matches(g[L], p)
    BY DEF ThreadInv
  <1>3. L \in Nat /\ n \in Nat /\ n <= L /\ L - n \in Nat /\ \A i \in 1..L : q[i] \in TraceRecord
    BY LenProperties, ElementOfSeq
  <1>4. b \in Seq(TraceRecord) /\ Len(b) = n /\ \A i \in 1..n : b[i] = q[i]
    <2>1. \A i \in 1..n : q[i] \in TraceRecord
      BY <1>3
    <2> QED BY <1>3, <2>1, SubSeqProperties
  <1>5. rest \in Seq(TraceRecord) /\ Len(rest) = L - n /\ \A i \in 1..(L - n) : rest[i] = q[n + i]
    <2>1. \A i \in (n + 1)..L : q[i] \in TraceRecord
      BY <1>3
    <2>2. n + 1 \in Int /\ L \in Int
      BY <1>3
    <2>3. /\ rest \in Seq(TraceRecord) /\ Len(rest) = IF n + 1 <= L THEN (L - (n + 1)) + 1 ELSE 0
          /\ \A i \in 1..((L - (n + 1)) + 1) : rest[i] = q[((n + 1) + i) - 1]
      BY <2>1, <2>2, SubSeqProperties
    <2>4. (L - (n + 1)) + 1 = L - n /\ (~(n + 1 <= L) => L - n = 0) /\ \A i \in 1..(L - n) : ((n + 1) + i) - 1 = n + i
      BY <1>3
    <2> HIDE DEF rest, L
    <2> QED BY <2>3, <2>4
  <1> HIDE DEF b, rest, L
  <1> DEFINE g1 == [i \in 0..n |-> g[i]]
             g2 == [i \in 0..(L - n) |-> g[n + i]]
  <1>6. g1 \in [0..n -> Stacks] /\ g1[0] = s /\ g1[n] = g[n]
    <2>1. 0 \in 0..n /\ n \in 0..n /\ \A i \in 0..n : i \in 0..L
      BY <1>3
    <2> QED BY <1>2, <2>1
  <1>7. g2 \in [0..(L - n) -> Stacks] /\ g2[0] = g[n] /\ g2[L - n] = g[L]
    <2>1. /\ 0 \in 0..(L - n) /\ L - n \in 0..(L - n) /\ \A i \in 0..(L - n) : n + i \in 0..L
          /\ n + 0 = n /\ n + (L - n) = L
      BY <1>3
    <2> QED BY <2>1
  <1>8. Reads(g1, b)
    <2>1. ASSUME NEW i \in 1..n PROVE Right(g1[i - 1], b[i]) /\ g1[i] = StackAfter(g1[i - 1], b[i])
      <3>1. i \in 1..L /\ i \in 0..n /\ i - 1 \in 0..n
        BY <1>3
      <3>2. g1[i - 1] = g[i - 1] /\ g1[i] = g[i] /\ b[i] = q[i]
        BY <1>4, <3>1
      <3> QED BY <1>2, <3>1, <3>2 DEF Reads, L
    <2> HIDE DEF g1
    <2> QED BY <1>4, <2>1 DEF Reads
  <1>9. Reads(g2, rest)
    <2>1. ASSUME NEW i \in 1..(L - n) PROVE Right(g2[i - 1], rest[i]) /\ g2[i] = StackAfter(g2[i - 1], rest[i])
      <3>1. n + i \in 1..L /\ i \in 0..(L - n) /\ i - 1 \in 0..(L - n) /\ n + (i - 1) = (n + i) - 1
        BY <1>3
      <3>2. g2[i - 1] = g[(n + i) - 1] /\ g2[i] = g[n + i] /\ rest[i] = q[n + i]
        BY <1>5, <3>1
      <3>3. Right(g[(n + i) - 1], q[n + i]) /\ g[n + i] = StackAfter(g[(n + i) - 1], q[n + i])
        BY <1>2, <3>1 DEF Reads, L
      <3> QED BY <3>2, <3>3
    <2> HIDE DEF g2
    <2> QED BY <1>5, <2>1 DEF Reads
  <1> HIDE DEF g1, g2
  <1>10. PICK grown : /\ Update([stack |-> s, statistics |-> tree], b) = [stack |-> g[n], statistics |-> grown]
                      /\ TreeTrue(grown, AccountAll(e, b))
    <2>1. g1 \in [0..Len(b) -> Stacks]
      BY <1>4, <1>6
    <2>2. \E grown : /\ Update([stack |-> g1[0], statistics |-> tree], b) = [stack |-> g1[Len(b)], statistics |-> grown]
                     /\ TreeTrue(grown, AccountAll(e, b))
      BY <1>1, <1>4, <1>8, <2>1, BatchTaken
    <2> QED BY <1>4, <1>6, <2>2
  <1>11. ThreadInv([stack |-> g[n], statistics |-> grown], rest, p, AccountAll(e, b))
    <2>1. g2 \in [0..Len(rest) -> Stacks] /\ g2[0] = g[n] /\ Reads(g2, rest) /\ Matches(g2[Len(rest)], p)
      BY <1>2, <1>5, <1>7, <1>9
    <2> QED BY <1>10, <2>1 DEF ThreadInv
  <1>12. Update(a, b) = [stack |-> g[n], statistics |-> grown]
    BY <1>10
  <1> QED BY <1>5, <1>11, <1>12 DEF b, rest, L

LEMMA WorkTrue ==
    ASSUME NEW a, NEW q \in Seq(TraceRecord), NEW p \in Program, NEW p2 \in Program, NEW e,
           ThreadInv(a, q, p, e), Works(p, p2)
    PROVE  ThreadInv(a, q, p2, e)
  <1>1. PICK g \in [0..Len(q) -> Stacks] : g[0] = a.stack /\ Reads(g, q) /\ Matches(g[Len(q)], p)
    BY DEF ThreadInv
  <1>2. g[Len(q)] \in Stacks
    BY LenProperties
  <1>3. Matches(g[Len(q)], p2)
    BY <1>1, <1>2, MatchesWork
  <1> QED BY <1>1, <1>3 DEF ThreadInv

LEMMA CallTrue ==
    ASSUME NEW a, NEW q \in Seq(TraceRecord), NEW p \in Program, NEW p2 \in Program, NEW e, NEW r \in EnterRecord,
           ThreadInv(a, q, p, e), Calls(p, p2, r)
    PROVE  ThreadInv(a, Append(q, r), p2, e)
  <1>1. PICK g \in [0..Len(q) -> Stacks] : g[0] = a.stack /\ Reads(g, q) /\ Matches(g[Len(q)], p)
    BY DEF ThreadInv
  <1>2. g[Len(q)] \in Stacks /\ r \in TraceRecord /\ Right(g[Len(q)], r)
    <2>1. r \in TraceRecord /\ r.callee # Exit
      BY CalleesAssumption DEF TraceRecord, EnterRecord
    <2> QED BY <2>1, LenProperties DEF Right
  <1>3. StackAfter(g[Len(q)], r) \in Stacks /\ Matches(StackAfter(g[Len(q)], r), p2)
    BY <1>1, <1>2, EnterStack, MatchesCall
  <1>4. PICK h \in [0..Len(Append(q, r)) -> Stacks] :
          h[0] = g[0] /\ Reads(h, Append(q, r)) /\ h[Len(Append(q, r))] = StackAfter(g[Len(q)], r)
    BY <1>1, <1>2, <1>3, Recorded
  <1> QED BY <1>1, <1>3, <1>4 DEF ThreadInv

LEMMA ReturnTrue ==
    ASSUME NEW a, NEW q \in Seq(TraceRecord), NEW p \in Program, NEW p2 \in Program, NEW e, NEW r \in ExitRecord,
           ThreadInv(a, q, p, e), Returns(p, p2, r)
    PROVE  ThreadInv(a, Append(q, r), p2, e)
  <1>1. PICK g \in [0..Len(q) -> Stacks] : g[0] = a.stack /\ Reads(g, q) /\ Matches(g[Len(q)], p)
    BY DEF ThreadInv
  <1>2. g[Len(q)] \in Stacks /\ r \in TraceRecord /\ r.callee = Exit
    BY LenProperties DEF TraceRecord, ExitRecord
  <1>3. Right(g[Len(q)], r)
    BY <1>1, <1>2, RightReturn DEF Returns
  <1>4. Len(g[Len(q)]) >= 2
    BY <1>2, <1>3 DEF Right
  <1>5. StackAfter(g[Len(q)], r) \in Stacks /\ Matches(StackAfter(g[Len(q)], r), p2)
    BY <1>1, <1>2, <1>4, ExitStack, MatchesReturn
  <1>6. PICK h \in [0..Len(Append(q, r)) -> Stacks] :
          h[0] = g[0] /\ Reads(h, Append(q, r)) /\ h[Len(Append(q, r))] = StackAfter(g[Len(q)], r)
    BY <1>1, <1>2, <1>3, <1>5, Recorded
  <1> QED BY <1>1, <1>5, <1>6 DEF ThreadInv

-----------------------------------------------------------------------------
(* The system.                                                             *)

Types ==
    /\ program \in [Threads -> Program]
    /\ pending \in [Threads -> Seq(TraceRecord)]
    /\ DOMAIN analyzers \subseteq Threads
    /\ \A t \in DOMAIN analyzers : analyzers[t] = [stack |-> analyzers[t].stack, statistics |-> analyzers[t].statistics]
    /\ expected = [t \in Threads |-> expected[t]]

IInv == Types /\ \A t \in Threads : ThreadInv(AnalyzerOf(t), pending[t], program[t], expected[t])

LEMMA AnalyzerRecord ==
    ASSUME Types, NEW t \in Threads
    PROVE  AnalyzerOf(t) = [stack |-> AnalyzerOf(t).stack, statistics |-> AnalyzerOf(t).statistics]
  BY DEF Types, AnalyzerOf

LEMMA Start == Init => IInv
  <1> SUFFICES ASSUME Init PROVE IInv
    OBVIOUS
  <1>1. Types
    <2>1. [clock |-> 0, worked |-> 0, records |-> 0, running |-> <<>>] \in Program
      BY EmptySeq DEF Program
    <2>2. <<>> \in Seq(TraceRecord) /\ DOMAIN analyzers = {}
      BY EmptySeq DEF Init
    <2> QED BY <2>1, <2>2 DEF Init, Types
  <1>2. ASSUME NEW t \in Threads PROVE ThreadInv(AnalyzerOf(t), pending[t], program[t], expected[t])
    <2>1. DOMAIN analyzers = {}
      BY DEF Init
    <2>2. AnalyzerOf(t) = [stack |-> <<Root>>, statistics |-> <<>>]
      BY <2>1 DEF AnalyzerOf
    <2>3. pending[t] = <<>> /\ Len(pending[t]) = 0 /\ expected[t] = <<>> /\ program[t].running = <<>> /\ Len(program[t].running) = 0
      BY DEF Init
    <2>4. Root \in StackRecord
      BY DEF Root, StackRecord
    <2>5. <<Root>> \in Stacks /\ Len(<<Root>>) = 1
      BY <2>4 DEF Stacks
    <2> DEFINE g == [i \in 0..0 |-> <<Root>>]
    <2>6. g \in [0..0 -> Stacks] /\ g[0] = <<Root>>
      BY <2>5
    <2> HIDE DEF g
    <2>7. Reads(g, pending[t]) /\ Matches(g[0], program[t])
      BY <2>3, <2>5, <2>6 DEF Reads, Matches
    <2>8. TreeTrue(<<>>, <<>>)
      BY DEF TreeTrue
    <2> QED BY <2>2, <2>3, <2>6, <2>7, <2>8 DEF ThreadInv
  <1> QED BY <1>1, <1>2 DEF IInv

LEMMA AcceptStep == ASSUME IInv, NEW t \in Threads, AcceptCalls(t) PROVE IInv'
  <1> DEFINE a == AnalyzerOf(t)
             q == pending[t]
  <1>1. PICK n \in 0..Len(q) :
          /\ analyzers' = [u \in DOMAIN analyzers \cup {t} |->
                             IF u = t THEN Update(a, SubSeq(q, 1, n)) ELSE analyzers[u]]
          /\ pending' = [pending EXCEPT ![t] = SubSeq(@, n + 1, Len(@))]
          /\ expected' = [expected EXCEPT ![t] = AccountAll(@, SubSeq(q, 1, n))]
    BY DEF AcceptCalls
  <1>2. program' = program
    BY DEF AcceptCalls
  <1>3. Types /\ q \in Seq(TraceRecord) /\ DOMAIN pending = Threads /\ DOMAIN expected = Threads
    BY DEF IInv, Types
  <1>4. a = [stack |-> a.stack, statistics |-> a.statistics] /\ ThreadInv(a, q, program[t], expected[t])
    BY <1>3, AnalyzerRecord DEF IInv
  <1> HIDE DEF a
  <1> DEFINE a2 == Update(a, SubSeq(q, 1, n))
  <1>5. /\ a2 = [stack |-> a2.stack, statistics |-> a2.statistics]
        /\ SubSeq(q, n + 1, Len(q)) \in Seq(TraceRecord)
        /\ ThreadInv(a2, SubSeq(q, n + 1, Len(q)), program[t], AccountAll(expected[t], SubSeq(q, 1, n)))
    BY <1>3, <1>4, AcceptTrue
  <1>6. DOMAIN analyzers' = DOMAIN analyzers \cup {t} /\ analyzers'[t] = a2
        /\ \A u \in DOMAIN analyzers : u # t => analyzers'[u] = analyzers[u]
    BY <1>1
  <1> HIDE DEF a2
  <1>7. pending'[t] = SubSeq(q, n + 1, Len(q)) /\ \A u \in Threads : u # t => pending'[u] = pending[u]
    BY <1>1, <1>3
  <1>8. expected'[t] = AccountAll(expected[t], SubSeq(q, 1, n)) /\ \A u \in Threads : u # t => expected'[u] = expected[u]
    BY <1>1, <1>3
  <1>9. Types'
    <2>1. pending' \in [Threads -> Seq(TraceRecord)]
      BY <1>1, <1>5 DEF IInv, Types
    <2>2. DOMAIN analyzers' \subseteq Threads
      BY <1>3, <1>6 DEF Types
    <2>3. \A u \in DOMAIN analyzers' :
            analyzers'[u] = [stack |-> analyzers'[u].stack, statistics |-> analyzers'[u].statistics]
      BY <1>3, <1>5, <1>6 DEF Types
    <2>4. expected' = [u \in Threads |-> expected'[u]]
      BY <1>1, <1>3
    <2> QED BY <1>2, <1>3, <2>1, <2>2, <2>3, <2>4 DEF Types
  <1>10. ASSUME NEW u \in Threads PROVE ThreadInv(AnalyzerOf(u), pending[u], program[u], expected[u])'
    <2>1. CASE u = t
      <3>1. AnalyzerOf(t)' = a2
        BY <1>6 DEF AnalyzerOf
      <3>2. ThreadInv(AnalyzerOf(t)', pending'[t], program'[t], expected'[t])
        BY <1>2, <1>5, <1>7, <1>8, <3>1
      <3> QED BY <2>1, <3>2 DEF ThreadInv, TreeTrue, Reads, Matches
    <2>2. CASE u # t
      <3>1. AnalyzerOf(u)' = AnalyzerOf(u)
        BY <1>6, <2>2 DEF AnalyzerOf
      <3>2. ThreadInv(AnalyzerOf(u)', pending'[u], program'[u], expected'[u])
        BY <1>2, <1>7, <1>8, <2>2, <3>1 DEF IInv
      <3> QED BY <3>2 DEF ThreadInv, TreeTrue, Reads, Matches
    <2> QED BY <2>1, <2>2
  <1> QED BY <1>9, <1>10 DEF IInv

LEMMA ClearStep == IInv /\ Clear => IInv'
  <1> SUFFICES ASSUME IInv, Clear PROVE IInv'
    OBVIOUS
  <1>1. /\ analyzers' = [t \in DOMAIN analyzers |-> [analyzers[t] EXCEPT !.statistics = <<>>]]
        /\ expected' = [t \in Threads |-> <<>>] /\ UNCHANGED <<program, pending>>
    BY DEF Clear
  <1>2. Types
    BY DEF IInv
  <1>3. DOMAIN analyzers' = DOMAIN analyzers /\ DOMAIN analyzers \subseteq Threads
    BY <1>1, <1>2 DEF Types
  <1>4. \A t \in DOMAIN analyzers : analyzers'[t] = [stack |-> analyzers[t].stack, statistics |-> <<>>]
    BY <1>1, <1>2 DEF Types
  <1>5. Types'
    BY <1>1, <1>2, <1>3, <1>4 DEF Types
  <1>6. ASSUME NEW t \in Threads PROVE ThreadInv(AnalyzerOf(t), pending[t], program[t], expected[t])'
    <2>1. AnalyzerOf(t)' = [stack |-> AnalyzerOf(t).stack, statistics |-> <<>>]
      BY <1>3, <1>4 DEF AnalyzerOf
    <2>2. ThreadInv(AnalyzerOf(t), pending[t], program[t], expected[t])
      BY DEF IInv
    <2>3. ThreadInv([stack |-> AnalyzerOf(t).stack, statistics |-> <<>>], pending[t], program[t], <<>>)
      <3>1. TreeTrue(<<>>, <<>>)
        BY DEF TreeTrue
      <3> QED BY <2>2, <3>1 DEF ThreadInv
    <2>4. ThreadInv(AnalyzerOf(t)', pending'[t], program'[t], expected'[t])
      BY <1>1, <2>1, <2>3
    <2> QED BY <2>4 DEF ThreadInv, TreeTrue, Reads, Matches
  <1> QED BY <1>5, <1>6 DEF IInv

\* A step of the program of thread t, to p2 and with the records q2.
LEMMA ProgramStep ==
    ASSUME IInv, NEW t \in Threads, NEW p2 \in Program, NEW q2 \in Seq(TraceRecord),
           program' = [program EXCEPT ![t] = p2], pending' = [pending EXCEPT ![t] = q2],
           UNCHANGED <<analyzers, expected>>,
           ThreadInv(AnalyzerOf(t), q2, p2, expected[t])
    PROVE  IInv'
  <1>1. Types /\ DOMAIN program = Threads /\ DOMAIN pending = Threads
    BY DEF IInv, Types
  <1>2. /\ program'[t] = p2 /\ pending'[t] = q2
        /\ \A u \in Threads : u # t => program'[u] = program[u] /\ pending'[u] = pending[u]
    BY <1>1
  <1>3. Types'
    BY <1>1 DEF Types
  <1>4. ASSUME NEW u \in Threads PROVE ThreadInv(AnalyzerOf(u), pending[u], program[u], expected[u])'
    <2>1. AnalyzerOf(u)' = AnalyzerOf(u)
      BY DEF AnalyzerOf
    <2>2. ThreadInv(AnalyzerOf(u)', pending'[u], program'[u], expected'[u])
      BY <1>2, <2>1 DEF IInv
    <2> QED BY <2>2 DEF ThreadInv, TreeTrue, Reads, Matches
  <1> QED BY <1>3, <1>4 DEF IInv

LEMMA WorkStep == ASSUME IInv, NEW t \in Threads, Work(t) PROVE IInv'
  <1> DEFINE p == program[t]
             n == Len(p.running)
             call == [p.running[n] EXCEPT !.own = @ + 1]
             running == [p.running EXCEPT ![n] = call]
             p2 == [p EXCEPT !.clock = @ + 1, !.worked = @ + 1, !.running = running]
  <1>1. p.running # <<>> /\ UNCHANGED <<pending, analyzers, expected>>
    BY DEF Work
  <1>2. program' = [program EXCEPT ![t].clock = @ + 1, ![t].worked = @ + 1, ![t].running[n].own = @ + 1]
    BY DEF Work
  <1>3. program \in [Threads -> Program] /\ pending \in [Threads -> Seq(TraceRecord)] /\ p \in Program
    BY DEF IInv, Types
  <1>4. n \in Nat /\ n >= 1 /\ n \in 1..n
    BY <1>1, <1>3, ProgramTypes, EmptySeq
  <1>5. p.running[n] \in RunningCall /\ p.running \in Seq(RunningCall) /\ p.clock \in Nat /\ p.worked \in Nat /\ p.records \in Nat
    BY <1>3, <1>4, ProgramTypes DEF Program
  <1>6. program' = [program EXCEPT ![t] = p2]
    BY <1>2, <1>3, <1>4 DEF Program
  <1>7. /\ call \in RunningCall /\ call.callee = p.running[n].callee /\ call.own = p.running[n].own + 1
        /\ call.inner = p.running[n].inner
    BY <1>5 DEF RunningCall
  <1> HIDE DEF call
  <1>8. /\ running \in Seq(RunningCall) /\ Len(running) = n
        /\ \A i \in 1..n : running[i] = IF i = n THEN call ELSE p.running[i]
    BY <1>4, <1>5, <1>7, ExceptSeq
  <1> HIDE DEF running
  <1>9. p2 \in Program /\ p2.clock = p.clock + 1 /\ p2.running = running
    <2>1. p.clock + 1 \in Nat /\ p.worked + 1 \in Nat
      BY <1>5
    <2> HIDE DEF p, n
    <2> QED BY <1>3, <1>5, <1>8, <2>1 DEF Program
  <1> HIDE DEF p2
  <1>10. Works(p, p2)
    <2>1. \A i \in 1..(n - 1) : i \in 1..n /\ i # n
      BY <1>4
    <2>2. running[n] = call /\ \A i \in 1..(n - 1) : running[i] = p.running[i]
      BY <1>4, <1>8, <2>1
    <2> QED BY <1>4, <1>7, <1>8, <1>9, <2>2 DEF Works
  <1>11. ThreadInv(AnalyzerOf(t), pending[t], p2, expected[t])
    <2>1. ThreadInv(AnalyzerOf(t), pending[t], p, expected[t]) /\ pending[t] \in Seq(TraceRecord)
      BY <1>3 DEF IInv
    <2> HIDE DEF p
    <2> QED BY <1>3, <1>9, <1>10, <2>1, WorkTrue
  <1>12. pending' = [pending EXCEPT ![t] = pending[t]] /\ pending[t] \in Seq(TraceRecord)
    BY <1>1, <1>3
  <1> QED BY <1>1, <1>6, <1>9, <1>11, <1>12, ProgramStep

LEMMA CallStep == ASSUME IInv, NEW t \in Threads, NEW f \in Callees, Call(t, f) PROVE IInv'
  <1> DEFINE p == program[t]
             n == Len(p.running)
             call == [callee |-> f, own |-> 0, inner |-> 0]
             running == Append(p.running, call)
             p2 == [p EXCEPT !.clock = @ + Before + EnterAfter, !.records = @ + 1, !.running = running]
             r == [callee |-> f, timestamp |-> p.clock + Before]
  <1>1. UNCHANGED <<analyzers, expected>> /\ pending' = [pending EXCEPT ![t] = Append(@, r)]
    BY DEF Call
  <1>2. program' = [program EXCEPT ![t].clock = @ + Before + EnterAfter, ![t].records = @ + 1,
                                   ![t].running = Append(@, call)]
    BY DEF Call
  <1>3. program \in [Threads -> Program] /\ pending \in [Threads -> Seq(TraceRecord)] /\ p \in Program
    BY DEF IInv, Types
  <1>4. n \in Nat /\ p.running \in Seq(RunningCall) /\ p.clock \in Nat /\ p.worked \in Nat /\ p.records \in Nat
        /\ Before \in Nat /\ EnterAfter \in Nat
    BY <1>3, ProgramTypes, DelayTypes DEF Program
  <1>5. program' = [program EXCEPT ![t] = p2]
    BY <1>2, <1>3 DEF Program
  <1>6. call \in RunningCall
    BY DEF RunningCall
  <1>7. running \in Seq(RunningCall) /\ Len(running) = n + 1 /\ running[n + 1] = call /\ \A i \in 1..n : running[i] = p.running[i]
    BY <1>4, <1>6, AppendProperties
  <1>8. r \in EnterRecord /\ r.callee = f /\ r.timestamp = p.clock + Before
    BY <1>4 DEF EnterRecord
  <1> HIDE DEF running
  <1>9. p2 \in Program /\ p2.clock = p.clock + Before + EnterAfter /\ p2.running = running
    <2>1. p.clock + Before + EnterAfter \in Nat /\ p.records + 1 \in Nat
      BY <1>4
    <2> HIDE DEF p, n
    <2> QED BY <1>3, <1>4, <1>7, <2>1 DEF Program
  <1> HIDE DEF p2, r
  <1>10. Calls(p, p2, r)
    BY <1>7, <1>8, <1>9 DEF Calls
  <1>11. ThreadInv(AnalyzerOf(t), Append(pending[t], r), p2, expected[t])
    <2>1. ThreadInv(AnalyzerOf(t), pending[t], p, expected[t]) /\ pending[t] \in Seq(TraceRecord)
      BY <1>3 DEF IInv
    <2> HIDE DEF p
    <2> QED BY <1>3, <1>8, <1>9, <1>10, <2>1, CallTrue
  <1>12. pending' = [pending EXCEPT ![t] = Append(pending[t], r)] /\ Append(pending[t], r) \in Seq(TraceRecord)
    <2>1. pending[t] \in Seq(TraceRecord) /\ r \in TraceRecord
      BY <1>3, <1>8 DEF TraceRecord
    <2> QED BY <1>1, <2>1, AppendProperties
  <1> QED BY <1>1, <1>5, <1>9, <1>11, <1>12, ProgramStep

LEMMA ReturnStep == ASSUME IInv, NEW t \in Threads, Return(t) PROVE IInv'
  <1> DEFINE p == program[t]
             n == Len(p.running)
             c == p.running[n]
             up == SubSeq(p.running, 1, n - 1)
             running == IF n = 1 THEN up ELSE [up EXCEPT ![n - 1].inner = @ + c.own + c.inner]
             p2 == [p EXCEPT !.clock = @ + ExitBefore + After, !.records = @ + 1, !.running = running]
             r == [callee |-> Exit, timestamp |-> p.clock + ExitBefore,
                   path |-> [i \in 1..n |-> p.running[i].callee],
                   inclusive |-> c.own + c.inner, exclusive |-> c.own]
  <1>1. n > 0 /\ UNCHANGED <<analyzers, expected>> /\ pending' = [pending EXCEPT ![t] = Append(@, r)]
    BY DEF Return
  <1>2. program' = [program EXCEPT ![t].clock = @ + ExitBefore + After, ![t].records = @ + 1, ![t].running = running]
    BY DEF Return
  <1>3. program \in [Threads -> Program] /\ pending \in [Threads -> Seq(TraceRecord)] /\ p \in Program
    BY DEF IInv, Types
  <1>4. /\ n \in Nat /\ n >= 1 /\ n \in 1..n /\ p.running \in Seq(RunningCall) /\ p.clock \in Nat /\ p.worked \in Nat
        /\ p.records \in Nat /\ ExitBefore \in Nat /\ After \in Nat /\ c.own \in Nat /\ c.inner \in Nat
        /\ \A i \in 1..n : p.running[i] \in RunningCall /\ p.running[i].callee \in Callees
    BY <1>1, <1>3, ProgramTypes, DelayTypes DEF Program
  <1>5. program' = [program EXCEPT ![t] = p2]
    <2> HIDE DEF running
    <2> QED BY <1>2, <1>3 DEF Program
  <1>6. up \in Seq(RunningCall) /\ Len(up) = n - 1 /\ \A i \in 1..(n - 1) : up[i] = p.running[i]
    <2>1. PICK m \in Nat : m = n - 1
      <3> HIDE DEF n
      <3>1. n - 1 \in Nat
        BY <1>4
      <3> QED BY <3>1
    <2>2. up = SubSeq(p.running, 1, m) /\ \A i \in 1..m : p.running[i] \in RunningCall
      BY <1>4, <2>1
    <2>3. up \in Seq(RunningCall) /\ Len(up) = m /\ \A i \in 1..m : up[i] = p.running[i]
      BY <2>2, SubSeqProperties
    <2> HIDE DEF up
    <2> QED BY <2>1, <2>3
  <1> HIDE DEF up
  <1>7. /\ running \in Seq(RunningCall) /\ Len(running) = n - 1
        /\ \A i \in 1..(n - 2) : running[i] = p.running[i]
        /\ n >= 2 => /\ running[n - 1].callee = p.running[n - 1].callee /\ running[n - 1].own = p.running[n - 1].own
                     /\ running[n - 1].inner = p.running[n - 1].inner + c.own + c.inner
    <2>1. CASE n = 1
      BY <1>6, <2>1
    <2>2. CASE n # 1
      <3> DEFINE parent == [up[n - 1] EXCEPT !.inner = @ + c.own + c.inner]
      <3>1. n - 1 \in 1..(n - 1) /\ n - 1 \in 1..n /\ \A i \in 1..(n - 2) : i \in 1..(n - 1) /\ i # n - 1
        <4> HIDE DEF n
        <4> QED BY <1>4, <2>2
      <3>2. up[n - 1] = p.running[n - 1] /\ p.running[n - 1] \in RunningCall
        BY <1>4, <1>6, <3>1
      <3>3. /\ parent \in RunningCall /\ parent.callee = p.running[n - 1].callee /\ parent.own = p.running[n - 1].own
            /\ parent.inner = p.running[n - 1].inner + c.own + c.inner
        <4> HIDE DEF c, n, p
        <4>1. PICK old \in RunningCall : old = up[n - 1]
          BY <3>2
        <4>2. old.inner \in Nat /\ old.inner + c.own + c.inner \in Nat /\ parent = [old EXCEPT !.inner = old.inner + c.own + c.inner]
          BY <1>4, <4>1 DEF RunningCall
        <4>3. PICK sum \in Nat : sum = old.inner + c.own + c.inner
          BY <4>2
        <4>4. parent = [old EXCEPT !.inner = sum]
          BY <4>2, <4>3
        <4> HIDE DEF parent
        <4>5. parent \in RunningCall /\ parent.callee = old.callee /\ parent.own = old.own /\ parent.inner = sum
          BY <4>4 DEF RunningCall
        <4> QED BY <3>2, <4>1, <4>3, <4>5
      <3>4. running = [up EXCEPT ![n - 1] = parent]
        BY <2>2
      <3> HIDE DEF parent, running
      <3>5. /\ running \in Seq(RunningCall) /\ Len(running) = n - 1
            /\ \A i \in 1..(n - 1) : running[i] = IF i = n - 1 THEN parent ELSE up[i]
        BY <1>6, <3>1, <3>3, <3>4, ExceptSeq
      <3>6. running[n - 1] = parent /\ \A i \in 1..(n - 2) : running[i] = p.running[i]
        BY <1>6, <3>1, <3>5
      <3> QED BY <3>3, <3>5, <3>6
    <2> QED BY <2>1, <2>2
  <1>8. /\ r \in ExitRecord /\ r.timestamp = p.clock + ExitBefore /\ r.path = [i \in 1..n |-> p.running[i].callee]
        /\ r.inclusive = c.own + c.inner /\ r.exclusive = c.own
    <2>1. [i \in 1..n |-> p.running[i].callee] \in Seq(Callees)
      BY <1>4
    <2>2. p.clock + ExitBefore \in Int /\ c.own + c.inner \in Nat
      BY <1>4
    <2> QED BY <1>4, <2>1, <2>2 DEF ExitRecord
  <1> HIDE DEF running, r
  <1>9. p2 \in Program /\ p2.clock = p.clock + ExitBefore + After /\ p2.running = running
    <2>1. p.clock + ExitBefore + After \in Nat /\ p.records + 1 \in Nat
      BY <1>4
    <2> HIDE DEF p, n
    <2> QED BY <1>3, <1>4, <1>7, <2>1 DEF Program
  <1> HIDE DEF p2
  <1>10. Returns(p, p2, r)
    BY <1>4, <1>7, <1>8, <1>9 DEF Returns, Returning
  <1>11. ThreadInv(AnalyzerOf(t), Append(pending[t], r), p2, expected[t])
    <2>1. ThreadInv(AnalyzerOf(t), pending[t], p, expected[t]) /\ pending[t] \in Seq(TraceRecord)
      BY <1>3 DEF IInv
    <2> HIDE DEF p
    <2> QED BY <1>3, <1>8, <1>9, <1>10, <2>1, ReturnTrue
  <1>12. pending' = [pending EXCEPT ![t] = Append(pending[t], r)] /\ Append(pending[t], r) \in Seq(TraceRecord)
    <2>1. pending[t] \in Seq(TraceRecord) /\ r \in TraceRecord
      BY <1>3, <1>8 DEF TraceRecord
    <2> QED BY <1>1, <2>1, AppendProperties
  <1> QED BY <1>1, <1>5, <1>9, <1>11, <1>12, ProgramStep

LEMMA InvTrue == IInv => StatisticsTrue
  <1> SUFFICES ASSUME IInv PROVE StatisticsTrue
    OBVIOUS
  <1>1. DOMAIN analyzers \subseteq Threads
    BY DEF IInv, Types
  <1>2. ASSUME NEW t \in DOMAIN analyzers
        PROVE  TreeTrue(analyzers[t].statistics, expected[t]) /\ Len(analyzers[t].stack) >= 1
    <2>1. t \in Threads /\ AnalyzerOf(t) = analyzers[t]
      BY <1>1 DEF AnalyzerOf
    <2>2. ThreadInv(analyzers[t], pending[t], program[t], expected[t])
      BY <2>1 DEF IInv
    <2>3. PICK g \in [0..Len(pending[t]) -> Stacks] : g[0] = analyzers[t].stack
      BY <2>2 DEF ThreadInv
    <2>4. Len(pending[t]) \in Nat
      BY <2>1, LenProperties DEF IInv, Types
    <2>5. analyzers[t].stack \in Stacks
      BY <2>3, <2>4
    <2> QED BY <2>2, <2>5 DEF ThreadInv, Stacks
  <1>3. TypeOK
    BY <1>1, <1>2 DEF TypeOK, TreeTrue
  <1>4. TimesAreTrue
    <2> SUFFICES ASSUME NEW t \in DOMAIN analyzers
                 PROVE  LET tree == analyzers[t].statistics
                        IN  /\ DOMAIN expected[t] = {p \in DOMAIN tree : tree[p].times_called > 0}
                            /\ \A p \in DOMAIN expected[t] : tree[p] = expected[t][p]
      BY DEF TimesAreTrue
    <2> QED BY <1>2 DEF TreeTrue
  <1> QED BY <1>3, <1>4 DEF StatisticsTrue

\* Every call that ended since the statistics were cleared is counted at its
\* place in the tree of its thread, with the times it really took, none of the
\* profiler's included: for any nesting, recursion and interleaving of threads,
\* any delays that calibration measures, any cut of the traces into batches and
\* any clears between them.  (exit, enter, reset_stack and update of
\* shadow_stack; accept_calls and clear of analyzer.)
THEOREM TimesTrue == Spec => []StatisticsTrue
  <1>1. IInv /\ [Next]_vars => IInv'
    <2> SUFFICES ASSUME IInv, [Next]_vars PROVE IInv'
      OBVIOUS
    <2>1. CASE UNCHANGED vars
      <3>1. UNCHANGED <<program, pending, analyzers, expected>>
        BY <2>1 DEF vars
      <3>2. Types'
        BY <3>1 DEF IInv, Types
      <3>3. ASSUME NEW t \in Threads PROVE ThreadInv(AnalyzerOf(t), pending[t], program[t], expected[t])'
        <4>1. AnalyzerOf(t)' = AnalyzerOf(t)
          BY <3>1 DEF AnalyzerOf
        <4>2. ThreadInv(AnalyzerOf(t)', pending'[t], program'[t], expected'[t])
          BY <3>1, <4>1 DEF IInv
        <4> QED BY <4>2 DEF ThreadInv, TreeTrue, Reads, Matches
      <3> QED BY <3>2, <3>3 DEF IInv
    <2> QED BY <2>1, AcceptStep, WorkStep, CallStep, ReturnStep, ClearStep DEF Next
  <1> QED BY <1>1, Start, InvTrue, PTL DEF Spec

=================================================================================
